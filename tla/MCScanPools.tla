---------------------------- MODULE MCScanPools -----------------------------
EXTENDS ScanPools, TLC

CONSTANTS x1, x2
MCDespawnAt == x1 :> 2 @@ x2 :> 3
Symmetry == Permutations(Scan) \cup Permutations(Approval)
=============================================================================
