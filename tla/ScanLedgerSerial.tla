-------------------------- MODULE ScanLedgerSerial --------------------------
(***************************************************************************)
(* ScanLedger with a history of what each charge cost, for as long as its  *)
(* handlers happen not to overlap, which is the case the ledger's code is  *)
(* written for: until then the ledger is shown to implement DailyQuota.    *)
(***************************************************************************)
EXTENDS ScanLedger

VARIABLES
    bill,       \* history: per scan the day it was charged to the row there is
                \* now (0: to none, or to one since removed) and the day a
                \* refund for it came off this row's count (0: never)
    tangled     \* history: two handlers have been between get and put at once

serialVars == <<vars, bill, tangled>>

(* Scans are counted, and having no row is no grant. *)
ASSUME ScanAssumption == IsFiniteSet(Scan)
ASSUME NoGrantAssumption == NoRow \notin [until: Nat, limit: Nat]

Unbilled == [on |-> 0, back |-> 0]

InFlight == {<<"request", c>> : c \in {d \in Call : call[d] # Idle}}
            \cup {<<"refund", s>> : s \in {t \in Scan : scan[t].st = "refunding"}}

(* At most one handler or refund is between its get and its put, and the   *)
(* store is written only as that one finishes (removeScanSubscriber has no *)
(* get and runs between two of them).                                      *)
OneAtATime ==
    /\ \A h, k \in InFlight' : h = k
    /\ subs' # subs => InFlight' = {}

Billed(s) ==
    CASE scan[s] = Free /\ scan'[s] # Free -> [on |-> Today, back |-> 0]
      [] scan[s].st = "refunding" /\ scan'[s].st = "refunded" /\ subs' # subs
            -> [bill[s] EXCEPT !.back = Today]
      [] scan[s] # Free /\ subs'[scan[s].pk] = NoRow -> Unbilled
      [] OTHER -> bill[s]

(* Once tangled the bills are of no more use and are dropped. *)
Account ==
    /\ tangled' = (tangled \/ ~ OneAtATime)
    /\ bill' = [s \in Scan |-> IF tangled' THEN Unbilled ELSE Billed(s)]

SerialInit == Init /\ bill = [s \in Scan |-> Unbilled] /\ tangled = FALSE
SerialNext == Next /\ Account
SerialSpec == SerialInit /\ [][SerialNext]_serialVars

-----------------------------------------------------------------------------

ScansOf(p) == {s \in Scan : scan[s] # Free /\ scan[s].pk = p}

(* Today's charges that were not refunded; and refunds taken off today's   *)
(* count although the scan was charged on an earlier day (not as "safe     *)
(* even if the day rolled over" as worker-app.js:762 says), or to a row    *)
(* that has been removed and made anew since.                              *)
Live(p) == {s \in ScansOf(p) : bill[s].on = Today /\ bill[s].back = 0}
Stray(p) == {s \in ScansOf(p) : bill[s].back = Today /\ bill[s].on # Today}

(* The count in the row is the number of the day's unrefunded scans, short *)
(* by at most the stray refunds: no scan is had for free in any other way, *)
(* none is charged twice, and none stays charged after its refund.         *)
CountMatchesScans ==
    ~ tangled => \A p \in Subscriber :
        /\ UsedToday(subs[p]) <= Cardinality(Live(p))
        /\ Cardinality(Live(p)) <= UsedToday(subs[p]) + Cardinality(Stray(p))

(* The rows, read and written in two steps, behave as the atomic quota,    *)
(* until handlers overlap.                                                 *)
Quota == INSTANCE DailyQuota WITH
    NoGrant <- NoRow,
    grant <- [p \in Subscriber |-> IF subs[p] = NoRow THEN NoRow
                                   ELSE [until |-> subs[p].until, limit |-> subs[p].limit]],
    used <- [p \in Subscriber |-> UsedToday(subs[p])]

ImplementsDailyQuota == Quota!Init /\ [][tangled' \/ [Quota!Next]_(Quota!vars)]_serialVars
=============================================================================
