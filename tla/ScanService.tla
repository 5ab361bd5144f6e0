---------------------------- MODULE ScanService -----------------------------
(***************************************************************************)
(* A subscriber's scan end to end: ScanPools joined with ScanLedger as     *)
(* runAreaScan and runSpeciesScan wire them.  A request that is authorized *)
(* is charged, then its pool is put and its runner started; a runner that  *)
(* gives up refunds before it marks the pool; a reload of the page stops   *)
(* whatever is in flight in both, between any two of these steps, and an   *)
(* exception stops a scan in both.                                         *)
(***************************************************************************)
EXTENDS ScanPools

CONSTANTS Call, Dates, Limits, DefaultLimit, DayLength, NoRow     \* as in ScanLedger

VARIABLES subs, call, scan, granted

ledgerVars == <<subs, call, scan, granted>>
poolVars == <<pools, runner, approval, sweep, public, shared>>
serviceVars == <<subs, call, scan, granted, pools, runner, approval, sweep, public, shared, now>>

Ledger == INSTANCE ScanLedger

(* The ledger's own assumptions. *)
ASSUME LedgerAssumption ==
    /\ Dates \subseteq Nat \ {0} /\ Limits \subseteq Nat \ {0}
    /\ DefaultLimit \in Nat \ {0} /\ DayLength \in Nat \ {0}
    /\ NoRow \notin Ledger!Row

ServiceInit == Ledger!Init /\ Init

(* Requests that concern the ledger only. *)
Request(c, p) ==
    /\ Ledger!AuthorizeRead(c, p) \/ Ledger!CheckRead(c, p) \/ Ledger!SetRead(c, p)
    /\ UNCHANGED poolVars

Respond(c) ==
    /\ \/ Ledger!AuthorizeReject(c) \/ Ledger!CheckResume(c) \/ Ledger!SetReject(c)
       \/ \E until \in Dates, limit \in {0} \cup Limits : Ledger!SetResume(c, until, limit)
       \/ \E s \in Scan : Ledger!AuthorizeCharge(c, s)
    /\ UNCHANGED poolVars

RemoveSubscriber(p) == Ledger!Remove(p) /\ UNCHANGED poolVars

(* Slips: a scan whose subscriber has since been removed is dropped;       *)
(* starting charges once more.                                             *)
StartIfKnown(s) ==
    /\ scan[s].st = "charged"
    /\ subs[scan[s].pk] # NoRow
    /\ Create(s, scan[s].pk)
    /\ UNCHANGED ledgerVars
StartCharging(s) ==
    /\ scan[s].st = "charged"
    /\ subs[scan[s].pk] # NoRow
    /\ Create(s, scan[s].pk)
    /\ subs' = [subs EXCEPT ![scan[s].pk] = Ledger!ChargedRow(@)]
    /\ UNCHANGED <<call, scan, granted>>

(* The handler goes on after authorizeScanRequest: a step of its own, as   *)
(* the charge was awaited.                                                 *)
Start(s) ==
    /\ scan[s].st = "charged"
    /\ Create(s, scan[s].pk)
    /\ UNCHANGED ledgerVars

(* The result is in the pool: the subscriber has had what was charged.     *)
Serve(s) ==
    /\ runner[s].result = "pending"
    /\ WritePool(s)
    /\ Ledger!Serve(s)

(* Slip: the runner gives up without a refund. *)
FailUnrefunded(s) == GiveUp(s) /\ UNCHANGED ledgerVars

Fail(s) == GiveUp(s) /\ Ledger!RefundRead(s)

Reimburse(s) == Reimbursed(s) /\ Ledger!RefundResume(s)

RunPool(s) ==
    /\ \/ Retry(s) \/ ReadPool(s)
       \/ \E records \in SUBSET Spawn : Answer(s, records)
       \/ runner[s].result = "failed" /\ WritePool(s)
       \/ \E x \in Spawn : Filter(s, x)
    /\ UNCHANGED ledgerVars

(* The runner throws, after its answer or around its refund: a charge that *)
(* is still open is lost.                                                  *)
Break(s) ==
    /\ Throw(s)
    /\ IF scan[s].st \in {"charged", "refunding"} THEN Ledger!Lose(s) ELSE UNCHANGED ledgerVars

(* The put of the new pool rejects: the request is answered with an error, *)
(* the charge stays.                                                       *)
StartFails(s) ==
    /\ scan[s].st = "charged"
    /\ runner[s] = NewRunner
    /\ Ledger!Lose(s)
    /\ UNCHANGED poolVars

Approve(a, s) ==
    /\ \/ ApproveResume(a, s)
       \/ \E caller \in Subscriber \cup {Operator} : ApproveRead(a, s, caller)
    /\ UNCHANGED ledgerVars

(* Slip: what has despawned is taken for an observation. *)
DiscoverLate(x) ==
    /\ public' = public \cup {x}
    /\ UNCHANGED <<ledgerVars, pools, runner, approval, sweep, shared, now>>

Discover(x) == Observe(x) /\ UNCHANGED ledgerVars

Discard == Sweep /\ UNCHANGED ledgerVars

ReloadPage == Ledger!Reload /\ Reload

Pass == Ledger!Tick /\ Tick

ScanStep(s) == Start(s) \/ Serve(s) \/ Fail(s) \/ Reimburse(s) \/ RunPool(s)

ServiceNext ==
    \/ \E c \in Call, p \in Subscriber : Request(c, p)
    \/ \E c \in Call : Respond(c)
    \/ \E p \in Subscriber : RemoveSubscriber(p)
    \/ \E s \in Scan : ScanStep(s) \/ Break(s) \/ StartFails(s)
    \/ \E a \in Approval, s \in Scan : Approve(a, s)
    \/ \E x \in Spawn : Discover(x)
    \/ Discard
    \/ ReloadPage
    \/ Pass

(* Nothing kept waiting but by IndexedDB and by a search, which settle;    *)
(* nothing has to throw.                                                   *)
ServiceFairness == \A s \in Scan : WF_serviceVars(ScanStep(s))

ServiceSpec == ServiceInit /\ [][ServiceNext]_serviceVars /\ ServiceFairness

-----------------------------------------------------------------------------

(* "A caller that gets this response really was charged and really did     *)
(* start a scan": a pool belongs to the subscriber who was charged for it, *)
(* a result that can be read was paid for, and a pool says "failed" only   *)
(* once the refund for it has been made.                                   *)
PaidForWhatItShows ==
    \A s \in Scan : pools[s] # NoPool =>
        /\ scan[s] # Ledger!Free /\ scan[s].pk = pools[s].owner
        /\ pools[s].status = "pending" => scan[s].st = "served"
        /\ pools[s].status = "failed" => scan[s].st = "refunded"

(* The two halves agree on where a scan is: what a pool shows and what an  *)
(* approval has published has been paid for and not given back, and        *)
(* whatever a reload or an exception interrupts, no runner works on a scan *)
(* the ledger has written off, and none that the ledger is waiting for has *)
(* ended without a refund or a result in its pool.                         *)
HalvesAgree ==
    /\ PaidForWhatItShows
    /\ \A s \in Scan :
        /\ shared[s] # {} => scan[s].st = "served"
        /\ runner[s].at \in {"none", "searching"} => scan[s].st \in {"free", "charged", "lost"}
        /\ scan[s].st = "charged" => runner[s].at \in {"none", "searching", "filtering", "writing"}
        /\ scan[s].st = "refunding" => runner[s].at = "refunding"
        /\ scan[s].st = "lost" => runner[s].at \in {"none", "killed", "broken"}
        /\ runner[s].at = "done" => scan[s].st \in {"served", "refunded"}
        /\ runner[s].at = "broken" => scan[s].st \in {"refunded", "lost"}

(* Every charge ends: with a result in its pool, a refund, or the reload   *)
(* or the exception that lost it.                                          *)
ChargeIsAnswered == \A s \in Scan : scan[s].st = "charged" ~> scan[s].st \in {"served", "refunded", "lost"}

(* The composition keeps to each component's specification, so what they   *)
(* were shown to guarantee holds here.                                     *)
ImplementsLedger == Ledger!Spec
ImplementsPools == FairSpec
=============================================================================
