--------------------------- MODULE MCInstanceLocks ----------------------------
EXTENDS InstanceLocks
===============================================================================
