---------------------------- MODULE MCWatchStreams ----------------------------
EXTENDS WatchStreams
===============================================================================
