------------------------- MODULE MCScanLedgerSerial -------------------------
(***************************************************************************)
(* Small instance of the ledger for TLC.  Handlers and scan ids are        *)
(* interchangeable; dates and limits are numbers and are not.              *)
(***************************************************************************)
EXTENDS ScanLedgerSerial, TLC

MCDates == {2}
MCLimits == {2}
Symmetry == Permutations(Call) \cup Permutations(Scan)
=============================================================================
