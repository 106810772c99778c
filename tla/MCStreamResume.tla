---------------------------- MODULE MCStreamResume ----------------------------
EXTENDS StreamResume, TLC
===============================================================================
