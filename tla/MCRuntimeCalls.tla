---------------------------- MODULE MCRuntimeCalls ----------------------------
EXTENDS RuntimeCalls
===============================================================================
