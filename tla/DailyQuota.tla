----------------------------- MODULE DailyQuota -----------------------------
(***************************************************************************)
(* What the scan ledger promises, without rows, dates in rows or reads and *)
(* writes: per subscriber a grant and the number of scans used today.      *)
(* Granting, charging and refunding are single steps, midnight clears the  *)
(* counts, and a scan is charged only within the grant and the limit.      *)
(***************************************************************************)
EXTENDS Integers

CONSTANTS Subscriber, Dates, Limits, DefaultLimit, DayLength, NoGrant

VARIABLES
    grant,      \* pubkey -> [until, limit] (0: never granted, default limit) or NoGrant
    used,       \* pubkey -> scans used today
    now

vars == <<grant, used, now>>

Day(t) == t \div DayLength
Quota(p) == IF grant[p].limit = 0 THEN DefaultLimit ELSE grant[p].limit
Entitled(p) == grant[p] # NoGrant /\ grant[p].until >= now /\ used[p] < Quota(p)

Init ==
    /\ grant = [p \in Subscriber |-> NoGrant]
    /\ used = [p \in Subscriber |-> 0]
    /\ now = 1

Meet(p) ==
    /\ grant[p] = NoGrant
    /\ grant' = [grant EXCEPT ![p] = [until |-> 0, limit |-> 0]]
    /\ UNCHANGED <<used, now>>

Grant(p) ==
    /\ \E until \in Dates, limit \in {0} \cup Limits :
          grant' = [grant EXCEPT ![p] = [until |-> until, limit |-> limit]]
    /\ UNCHANGED <<used, now>>

Revoke(p) ==
    /\ grant' = [grant EXCEPT ![p] = NoGrant]
    /\ used' = [used EXCEPT ![p] = 0]
    /\ UNCHANGED now

Charge(p) ==
    /\ Entitled(p)
    /\ used' = [used EXCEPT ![p] = @ + 1]
    /\ UNCHANGED <<grant, now>>

Refund(p) ==
    /\ used[p] > 0
    /\ used' = [used EXCEPT ![p] = @ - 1]
    /\ UNCHANGED <<grant, now>>

Pass ==
    /\ now' = now + 1
    /\ used' = IF Day(now') = Day(now) THEN used ELSE [p \in Subscriber |-> 0]
    /\ UNCHANGED grant

Next ==
    \/ \E p \in Subscriber : Meet(p) \/ Grant(p) \/ Revoke(p) \/ Charge(p) \/ Refund(p)
    \/ Pass

Spec == Init /\ [][Next]_vars
=============================================================================
