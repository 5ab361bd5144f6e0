----------------------------- MODULE ScanLedger -----------------------------
(***************************************************************************)
(* The "cusuco" ledger: the scanSubscribers store and every handler that   *)
(* reads or writes it (worker-app.js: authorizeScanRequest,                *)
(* reimburseScanRequest, checkScanSubscription, setScanSubscriber,         *)
(* removeScanSubscriber).                                                  *)
(*                                                                         *)
(* A row is read with `await get` and written back with `await put`; no    *)
(* handler holds a lock and the dispatcher starts each request without     *)
(* waiting for the one before it.  So each handler is a Read action that   *)
(* remembers the row, and an action that resumes later, decides on the     *)
(* remembered row with the clock of that moment, and puts.  The ids of     *)
(* scans and handlers are finite pools, the clock stops at MaxNow.         *)
(***************************************************************************)
EXTENDS Integers, FiniteSets

CONSTANTS
    Subscriber,     \* pubkeys other than the worker's own
    Scan,           \* scan ids (crypto.randomUUID)
    Call,           \* request handlers that can be in flight at once
    Dates,          \* the activeUntil dates the operator may enter
    Limits,         \* the dailyLimit values the operator may enter
    DefaultLimit,   \* scanDailyLimitPerSubscriber
    DayLength,      \* clock ticks in a calendar day
    MaxNow,         \* bound of the clock
    NoRow           \* what get() resolves to when there is no row

Row == [until: {0} \cup Dates,      \* activeUntil, 0 for null
        limit: {0} \cup Limits,     \* dailyLimit, 0 for null
        used: Nat,                  \* scansUsedToday, 0 when absent
        usedDate: Nat]              \* scansUsedDate, 0 when absent

ASSUME DatesAssumption == Dates \subseteq Nat \ {0}
ASSUME LimitsAssumption == Limits \subseteq Nat \ {0} /\ DefaultLimit \in Nat \ {0}
ASSUME ClockAssumption == DayLength \in Nat \ {0} /\ MaxNow \in Nat
ASSUME NoRowAssumption == NoRow \notin Row

VARIABLES
    subs,       \* the store: pubkey -> row or NoRow
    call,       \* request handlers between their get and their put
    scan,       \* what became of each scan that was charged
    granted,    \* history: pubkeys the operator ever gave access to
    now         \* Date.now(), from 1

vars == <<subs, call, scan, granted, now>>

Idle == [op |-> "idle"]
InFlightCall == [op: {"authorize", "check", "set"}, pk: Subscriber, row: Row \cup {NoRow}]

(* A scan is charged when its request is authorized.  Its runner then ends *)
(* "served", or reads the ledger to refund ("refunding", row is what it    *)
(* read) and ends "refunded"; a page reload or an exception leaves it      *)
(* "lost".                                                                 *)
Free == [st |-> "free"]
Charged == [st: {"charged", "refunding", "refunded", "served", "lost"},
            pk: Subscriber,
            row: Row \cup {NoRow}]

Today == 1 + now \div DayLength                                   \* todayKey()

UsedToday(row) == IF row # NoRow /\ row.usedDate = Today THEN row.used ELSE 0
DailyLimit(row) == IF row.limit = 0 THEN DefaultLimit ELSE row.limit
(* Slip: the day access runs out counts as after it, for this reader only. *)
IsActiveStrictly(row) == row.until # 0 /\ row.until > now

IsActive(row) == row.until # 0 /\ row.until >= now

(* Slip: the grant is not looked at. *)
AdmissibleUngranted(row) == row # NoRow /\ UsedToday(row) < DailyLimit(row)

(* The three reasons authorizeScanRequest has to turn a subscriber down.   *)
(* A null activeUntil is the epoch, long past.                             *)
Admissible(row) ==
    /\ row # NoRow
    /\ row.until >= now
    /\ UsedToday(row) < DailyLimit(row)

(* cusucosRemaining of checkScanSubscription's answer. *)
CusucosRemaining(row) ==
    IF IsActive(row) /\ UsedToday(row) < DailyLimit(row)
    THEN DailyLimit(row) - UsedToday(row)
    ELSE 0

NewVisitor == [until |-> 0, limit |-> 0, used |-> 0, usedDate |-> 0]

-----------------------------------------------------------------------------

Init ==
    /\ subs = [p \in Subscriber |-> NoRow]
    /\ call = [c \in Call |-> Idle]
    /\ scan = [s \in Scan |-> Free]
    /\ granted = {}
    /\ now = 1

(* The get every ledger handler starts with. *)
Read(c, op, p) ==
    /\ call[c] = Idle
    /\ call' = [call EXCEPT ![c] = [op |-> op, pk |-> p, row |-> subs[p]]]
    /\ UNCHANGED <<subs, scan, granted, now>>

Finish(c) == call' = [call EXCEPT ![c] = Idle]

AuthorizeRead(c, p) == Read(c, "authorize", p)

(* Slips: the date is taken a day ahead; yesterday's count is carried on.  *)
ChargedRowAhead(row) == [row EXCEPT !.used = UsedToday(row) + 1, !.usedDate = Today + 1]
ChargedRowCarried(row) == [row EXCEPT !.used = @ + 1, !.usedDate = Today]

ChargedRow(row) == [row EXCEPT !.used = UsedToday(row) + 1, !.usedDate = Today]

AuthorizeCharge(c, s) ==
    /\ call[c].op = "authorize"
    /\ Admissible(call[c].row)
    /\ scan[s] = Free
    /\ subs' = [subs EXCEPT ![call[c].pk] = ChargedRow(call[c].row)]
    /\ scan' = [scan EXCEPT ![s] = [st |-> "charged", pk |-> call[c].pk, row |-> NoRow]]
    /\ Finish(c)
    /\ UNCHANGED <<granted, now>>

AuthorizeReject(c) ==
    /\ call[c].op = "authorize"
    /\ ~ Admissible(call[c].row)
    /\ Finish(c)
    /\ UNCHANGED <<subs, scan, granted, now>>

CheckRead(c, p) == Read(c, "check", p)

SeenRow(row) == IF row = NoRow THEN NewVisitor ELSE row

CheckResume(c) ==
    /\ call[c].op = "check"
    /\ subs' = [subs EXCEPT ![call[c].pk] = SeenRow(call[c].row)]
    /\ Finish(c)
    /\ UNCHANGED <<scan, granted, now>>

SetRead(c, p) == Read(c, "set", p)

(* Slip: the row is made anew, and forgets the day's scans. *)
GrantedRowAfresh(row, until, limit) == [NewVisitor EXCEPT !.until = until, !.limit = limit]

(* An omitted dailyLimit keeps the row's, a blank one clears it (0). *)
GrantedRow(row, until, limit) == [SeenRow(row) EXCEPT !.until = until, !.limit = limit]

SetResume(c, until, limit) ==
    /\ call[c].op = "set"
    /\ limit \in {SeenRow(call[c].row).limit, 0} \cup Limits
    /\ subs' = [subs EXCEPT ![call[c].pk] = GrantedRow(call[c].row, until, limit)]
    /\ granted' = granted \cup {call[c].pk}
    /\ Finish(c)
    /\ UNCHANGED <<scan, now>>

(* A dailyLimit that is no positive integer is refused after the get. *)
SetReject(c) ==
    /\ call[c].op = "set"
    /\ Finish(c)
    /\ UNCHANGED <<subs, scan, granted, now>>

Remove(p) ==
    /\ subs[p] # NoRow
    /\ subs' = [subs EXCEPT ![p] = NoRow]
    /\ UNCHANGED <<call, scan, granted, now>>

(* The runner of a scan wrote the answer of miniscord into its pool. *)
Serve(s) ==
    /\ scan[s].st = "charged"
    /\ scan' = [scan EXCEPT ![s].st = "served"]
    /\ UNCHANGED <<subs, call, granted, now>>

(* It gave up after its last retry: reimburseScanRequest. *)
RefundRead(s) ==
    /\ scan[s].st = "charged"
    /\ scan' = [scan EXCEPT ![s].st = "refunding", ![s].row = subs[scan[s].pk]]
    /\ UNCHANGED <<subs, call, granted, now>>

Refundable(row) == row # NoRow /\ row.usedDate = Today
RefundedRow(row) == [row EXCEPT !.used = IF row.used > 0 THEN row.used - 1 ELSE 0]

RefundResume(s) ==
    /\ scan[s].st = "refunding"
    /\ subs' = IF Refundable(scan[s].row)
               THEN [subs EXCEPT ![scan[s].pk] = RefundedRow(scan[s].row)]
               ELSE subs
    /\ scan' = [scan EXCEPT ![s].st = "refunded", ![s].row = NoRow]
    /\ UNCHANGED <<call, granted, now>>

(* The pool's first put, the runner or its refund throws: whoever catches  *)
(* it only logs it or answers with an error, and nobody refunds.           *)
Lose(s) ==
    /\ scan[s].st \in {"charged", "refunding"}
    /\ scan' = [scan EXCEPT ![s].st = "lost", ![s].row = NoRow]
    /\ UNCHANGED <<subs, call, granted, now>>

(* location.reload(): handlers and runners vanish, the store stays. *)
Reload ==
    /\ call' = [c \in Call |-> Idle]
    /\ scan' = [s \in Scan |-> IF scan[s].st \in {"charged", "refunding"}
                               THEN [scan[s] EXCEPT !.st = "lost", !.row = NoRow] ELSE scan[s]]
    /\ UNCHANGED <<subs, granted, now>>

Tick ==
    /\ now < MaxNow
    /\ now' = now + 1
    /\ UNCHANGED <<subs, call, scan, granted>>

Next ==
    \/ \E c \in Call, p \in Subscriber : AuthorizeRead(c, p) \/ CheckRead(c, p) \/ SetRead(c, p)
    \/ \E c \in Call : AuthorizeReject(c) \/ CheckResume(c) \/ SetReject(c)
    \/ \E c \in Call, s \in Scan : AuthorizeCharge(c, s)
    \/ \E c \in Call, until \in Dates, limit \in {0} \cup Limits : SetResume(c, until, limit)
    \/ \E p \in Subscriber : Remove(p)
    \/ \E s \in Scan : Serve(s) \/ RefundRead(s) \/ RefundResume(s) \/ Lose(s)
    \/ Reload
    \/ Tick

Spec == Init /\ [][Next]_vars

-----------------------------------------------------------------------------

TypeOK ==
    /\ subs \in [Subscriber -> Row \cup {NoRow}]
    /\ call \in [Call -> {Idle} \cup InFlightCall]
    /\ scan \in [Scan -> {Free} \cup Charged]
    /\ granted \subseteq Subscriber
    /\ now \in Nat \ {0}

(* Every row the worker holds: the stored ones, and those a handler or a   *)
(* refund has read and may still write back.                               *)
HeldRows ==
    ({subs[p] : p \in Subscriber}
        \cup {call[c].row : c \in {d \in Call : call[d] # Idle}}
        \cup {scan[s].row : s \in {t \in Scan : scan[t] # Free}}) \ {NoRow}

(* "Never grants anything itself" (checkScanSubscription) and "an          *)
(* auto-created row's activeUntil is always null": whatever the handlers   *)
(* interleave, a row with an activeUntil, stored or about to be written    *)
(* back, and every scan that was let through, belongs to somebody the      *)
(* operator gave access to with setScanSubscriber.                         *)
AccessOnlyByGrant ==
    /\ \A p \in Subscriber : subs[p] # NoRow /\ subs[p].until # 0 => p \in granted
    /\ \A c \in Call : call[c] # Idle =>
          (call[c].row # NoRow /\ call[c].row.until # 0 => call[c].pk \in granted)
    /\ \A s \in Scan : scan[s] # Free => scan[s].pk \in granted

(* No interleaving of stale writes takes a day's counter past the largest  *)
(* limit the operator can set or below zero, or leaves a count dated in    *)
(* the future.                                                             *)
CounterInRange ==
    \A row \in HeldRows :
        /\ \E m \in Limits \cup {DefaultLimit} : row.used \in 0..m
        /\ row.usedDate <= Today

(* The comment on resolveSubscriberDailyLimit: what checkScanSubscription  *)
(* tells the viewer and what authorizeScanRequest decides "can never drift *)
(* apart".  On the same row they agree: scans remain iff one is let in.    *)
AnswersAgree ==
    \A row \in HeldRows : (CusucosRemaining(row) > 0) <=> Admissible(row)
=============================================================================
