--------------------------- MODULE MCScanService ----------------------------
EXTENDS ScanService, TLC

MCDespawnAt == [x \in Spawn |-> 2]
MCDates == {1}
MCLimits == {2}
=============================================================================
