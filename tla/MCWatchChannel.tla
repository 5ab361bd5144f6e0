--------------------------- MODULE MCWatchChannel ---------------------------
EXTENDS WatchChannel, TLC
=============================================================================
