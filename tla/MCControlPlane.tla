---------------------------- MODULE MCControlPlane ----------------------------
EXTENDS ControlPlane, TLC

CONSTANTS l1, u1

NoLauncher == {}
OneLauncher == {l1}
NoUi == {}
OneUi == {u1}
===============================================================================
