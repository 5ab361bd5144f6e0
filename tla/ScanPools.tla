----------------------------- MODULE ScanPools ------------------------------
(***************************************************************************)
(* A subscriber's scan from its pool row to its publication: the           *)
(* pendingScanPools store, the runner (runSubscriberScanViaMiniscord), the *)
(* approval (approveScanResults), the discarding of stale pools on the 60 s*)
(* tick (#discardStalePendingScanPools) and the spawns already public.     *)
(*                                                                         *)
(* As in ScanLedger a get and the put or emit it leads to are two actions. *)
(* What a search finds is any set of spawns; despawn times are constants.  *)
(***************************************************************************)
EXTENDS Integers, FiniteSets

CONSTANTS
    Subscriber,     \* owners of scans
    Operator,       \* the worker's own pubkey
    Scan,           \* scan ids
    Spawn,          \* spawn ids
    DespawnAt,      \* [Spawn -> Nat]
    Approval,       \* approveScanResults handlers that can be in flight
    MaxRetries,     \* MINISCORD_SCAN_MAX_RETRIES
    Grace,          \* SCAN_POOL_GRACE_MS
    MaxNow,         \* bound of the clock
    NoPool          \* what get() resolves to when there is no row

Pool == [owner: Subscriber, created: Nat,
         status: {"collecting", "pending", "failed", "broadcast"},
         spawns: SUBSET Spawn]

ASSUME OperatorAssumption == Operator \notin Subscriber
ASSUME DespawnAssumption == DespawnAt \in [Spawn -> Nat]
ASSUME BoundsAssumption == MaxRetries \in Nat /\ Grace \in Nat /\ MaxNow \in Nat
ASSUME NoPoolAssumption == NoPool \notin Pool

VARIABLES
    pools,      \* the store: scan id -> row or NoPool
    runner,     \* the un-awaited runner of each scan
    approval,   \* approvals between their get and their put
    sweep,      \* the discard tick; approved is history: scans approved under it
    public,     \* ids in state.spawns (the sweep there only flips what has despawned)
    shared,     \* history: per scan, what approvals emitted
    now

vars == <<pools, runner, approval, sweep, public, shared, now>>

(* A runner searches (attempt counts retries), drops what is public        *)
(* already (todo, found), reads its pool and puts it back with its result. *)
(* A reload kills it, and an exception breaks it off.                      *)
Active == {"searching", "filtering", "refunding", "reimbursed", "writing"}
Runner == [at: Active \cup {"none", "done", "killed", "broken"}, attempt: 0..MaxRetries,
           todo: SUBSET Spawn, found: SUBSET Spawn,
           result: {"none", "pending", "failed"}, row: Pool \cup {NoPool}]
NewRunner == [at |-> "none", attempt |-> 0, todo |-> {}, found |-> {},
              result |-> "none", row |-> NoPool]

NoApproval == [scan |-> NoPool, row |-> NoPool]
Asleep == [at |-> "asleep"]

Live(x) == DespawnAt[x] > now
AlreadyKnown(x) == x \in public /\ Live(x)

-----------------------------------------------------------------------------

Init ==
    /\ pools = [s \in Scan |-> NoPool]
    /\ runner = [s \in Scan |-> NewRunner]
    /\ approval = [a \in Approval |-> NoApproval]
    /\ sweep = Asleep
    /\ public = {}
    /\ shared = [s \in Scan |-> {}]
    /\ now = 1

(* runAreaScan and runSpeciesScan, once the request is authorized: put the *)
(* pool, start the runner, acknowledge.                                    *)
Create(s, p) ==
    /\ runner[s] = NewRunner
    /\ pools' = [pools EXCEPT ![s] = [owner |-> p, created |-> now,
                                      status |-> "collecting", spawns |-> {}]]
    /\ runner' = [runner EXCEPT ![s].at = "searching"]
    /\ UNCHANGED <<approval, sweep, public, shared, now>>

Retry(s) ==
    /\ runner[s].at = "searching"
    /\ runner[s].attempt < MaxRetries
    /\ runner' = [runner EXCEPT ![s].attempt = @ + 1]
    /\ UNCHANGED <<pools, approval, sweep, public, shared, now>>

GiveUp(s) ==
    /\ runner[s].at = "searching"
    /\ runner[s].attempt = MaxRetries
    /\ runner' = [runner EXCEPT ![s].at = "refunding"]
    /\ UNCHANGED <<pools, approval, sweep, public, shared, now>>

(* `await reimburseScanRequest` returned. *)
Reimbursed(s) ==
    /\ runner[s].at = "refunding"
    /\ runner' = [runner EXCEPT ![s].at = "reimbursed", ![s].result = "failed"]
    /\ UNCHANGED <<pools, approval, sweep, public, shared, now>>

(* Slip: the records go straight into the pool, to be filtered there.      *)
AnswerIntoPool(s, records) ==
    /\ runner[s].at = "searching"
    /\ runner' = [runner EXCEPT ![s].at = "filtering", ![s].todo = records,
                                ![s].result = "pending"]
    /\ pools' = [pools EXCEPT ![s].spawns = records]
    /\ UNCHANGED <<approval, sweep, public, shared, now>>

(* The records of an answer that have a location and a despawn time. *)
Answer(s, records) ==
    /\ runner[s].at = "searching"
    /\ runner' = [runner EXCEPT ![s].at = "filtering", ![s].todo = records,
                                ![s].result = "pending"]
    /\ UNCHANGED <<pools, approval, sweep, public, shared, now>>

Filter(s, x) ==
    /\ runner[s].at = "filtering"
    /\ x \in runner[s].todo
    /\ runner' = [runner EXCEPT ![s].todo = @ \ {x},
                                ![s].found = IF AlreadyKnown(x) THEN @ ELSE @ \cup {x}]
    /\ UNCHANGED <<pools, approval, sweep, public, shared, now>>

(* Slip: an answer that leaves nothing new is not worth a write. *)
ReadPoolIfFound(s) ==
    /\ \/ runner[s].at = "reimbursed"
       \/ runner[s].at = "filtering" /\ runner[s].todo = {} /\ runner[s].found # {}
    /\ runner' = [runner EXCEPT ![s].at = "writing", ![s].row = pools[s]]
    /\ UNCHANGED <<pools, approval, sweep, public, shared, now>>

ReadPool(s) ==
    /\ \/ runner[s].at = "reimbursed"
       \/ runner[s].at = "filtering" /\ runner[s].todo = {}
    /\ runner' = [runner EXCEPT ![s].at = "writing", ![s].row = pools[s]]
    /\ UNCHANGED <<pools, approval, sweep, public, shared, now>>

(* Slip: a failed search ends as an empty result. *)
SettledAlike(r) == [r.row EXCEPT !.status = "pending", !.spawns = r.found]

(* pool.status and, after an answer, pool.spawns of the row it has read. *)
Settled(r) ==
    IF r.result = "failed" THEN [r.row EXCEPT !.status = "failed"]
    ELSE [r.row EXCEPT !.status = "pending", !.spawns = r.found]

WritePool(s) ==
    /\ runner[s].at = "writing"
    /\ pools' = IF runner[s].row = NoPool THEN pools
                ELSE [pools EXCEPT ![s] = Settled(runner[s])]
    /\ runner' = [runner EXCEPT ![s].at = "done", ![s].row = NoPool]
    /\ UNCHANGED <<approval, sweep, public, shared, now>>

(* Building a spawn, a look-up or a put rejects: nothing in the runner      *)
(* catches it, its caller only logs it, and the pool stays as it is.       *)
(* search() itself never rejects.                                          *)
Throw(s) ==
    /\ runner[s].at \in Active \ {"searching"}
    /\ runner' = [runner EXCEPT ![s].at = "broken", ![s].row = NoPool, ![s].todo = {}]
    /\ UNCHANGED <<pools, approval, sweep, public, shared, now>>

ApproveRead(a, s, caller) ==
    /\ approval[a] = NoApproval
    /\ pools[s] # NoPool
    /\ caller \in {Operator, pools[s].owner}
    /\ pools[s].status # "broadcast"
    /\ approval' = [approval EXCEPT ![a] = [scan |-> s, row |-> pools[s]]]
    /\ UNCHANGED <<pools, runner, sweep, public, shared, now>>

(* Every spawn of the row is emitted as observed, which drops the expired  *)
(* ones, and the row is put back as broadcast.                             *)
ApproveResume(a, s) ==
    /\ approval[a] # NoApproval /\ approval[a].scan = s
    /\ LET row == approval[a].row
       IN  /\ public' = public \cup {x \in row.spawns : Live(x)}
           /\ shared' = [shared EXCEPT ![s] = @ \cup row.spawns]
           /\ pools' = [pools EXCEPT ![s] = [row EXCEPT !.status = "broadcast"]]
    /\ approval' = [approval EXCEPT ![a] = NoApproval]
    /\ sweep' = IF sweep = Asleep THEN sweep ELSE [sweep EXCEPT !.approved = @ \cup {s}]
    /\ UNCHANGED <<runner, now>>

(* Any other source of spawns: the scheduled searches, the operator's own. *)
Observe(x) ==
    /\ Live(x)
    /\ public' = public \cup {x}
    /\ UNCHANGED <<pools, runner, approval, sweep, shared, now>>

SweepRead ==
    /\ sweep = Asleep
    /\ sweep' = [at |-> "read", snap |-> pools, approved |-> {}]
    /\ UNCHANGED <<pools, runner, approval, public, shared, now>>

(* Slips: only a broadcast pool is kept; only one that is collecting is.   *)
StaleUnlessBroadcast(row) ==
    /\ row # NoPool
    /\ row.status # "broadcast"
    /\ now - row.created >= Grace
    /\ \A x \in row.spawns : ~ Live(x)
StaleUnlessCollecting(row) ==
    /\ row # NoPool
    /\ row.status # "collecting"
    /\ now - row.created >= Grace
    /\ \A x \in row.spawns : ~ Live(x)

Stale(row) ==
    /\ row # NoPool
    /\ row.status \in {"failed", "pending"}
    /\ now - row.created >= Grace
    /\ row.status = "pending" => \A x \in row.spawns : ~ Live(x)

SweepDecide ==
    /\ sweep.at = "read"
    /\ sweep' = [at |-> "deleting", doomed |-> {s \in Scan : Stale(sweep.snap[s])},
                  approved |-> sweep.approved]
    /\ UNCHANGED <<pools, runner, approval, public, shared, now>>

SweepDelete(s) ==
    /\ sweep.at = "deleting"
    /\ s \in sweep.doomed
    /\ pools' = [pools EXCEPT ![s] = NoPool]
    /\ sweep' = [sweep EXCEPT !.doomed = @ \ {s}]
    /\ UNCHANGED <<runner, approval, public, shared, now>>

SweepEnd ==
    /\ sweep.at = "deleting"
    /\ sweep.doomed = {}
    /\ sweep' = Asleep
    /\ UNCHANGED <<pools, runner, approval, public, shared, now>>

Reload ==
    /\ runner' = [s \in Scan |-> IF runner[s].at \in Active
                                 THEN [runner[s] EXCEPT !.at = "killed", !.row = NoPool,
                                                        !.todo = {}]
                                 ELSE runner[s]]
    /\ approval' = [a \in Approval |-> NoApproval]
    /\ sweep' = Asleep
    /\ UNCHANGED <<pools, public, shared, now>>

Tick ==
    /\ now < MaxNow
    /\ now' = now + 1
    /\ UNCHANGED <<pools, runner, approval, sweep, public, shared>>

RunnerStep(s) ==
    \/ Retry(s) \/ GiveUp(s) \/ Reimbursed(s)
    \/ \E records \in SUBSET Spawn : Answer(s, records)
    \/ \E x \in Spawn : Filter(s, x)
    \/ ReadPool(s) \/ WritePool(s)

Sweep == SweepRead \/ SweepDecide \/ (\E s \in Scan : SweepDelete(s)) \/ SweepEnd

Next ==
    \/ \E s \in Scan, p \in Subscriber : Create(s, p)
    \/ \E s \in Scan : RunnerStep(s) \/ Throw(s)
    \/ \E a \in Approval, s \in Scan, caller \in Subscriber \cup {Operator} :
          ApproveRead(a, s, caller)
    \/ \E a \in Approval, s \in Scan : ApproveResume(a, s)
    \/ \E x \in Spawn : Observe(x)
    \/ Sweep
    \/ Reload
    \/ Tick

Spec == Init /\ [][Next]_vars

(* A search settles within its client timeout and IndexedDB answers, so a  *)
(* runner that nothing kills or breaks keeps going.                        *)
FairSpec == Spec /\ \A s \in Scan : WF_vars(RunnerStep(s))

-----------------------------------------------------------------------------

TypeOK ==
    /\ pools \in [Scan -> Pool \cup {NoPool}]
    /\ runner \in [Scan -> Runner]
    /\ approval \in [Approval -> {NoApproval} \cup [scan: Scan, row: Pool]]
    /\ sweep \in {Asleep}
          \cup [at: {"read"}, snap: [Scan -> Pool \cup {NoPool}], approved: SUBSET Scan]
          \cup [at: {"deleting"}, doomed: SUBSET Scan, approved: SUBSET Scan]
    /\ public \subseteq Spawn
    /\ shared \in [Scan -> SUBSET Spawn]
    /\ now \in Nat

(* The discard tick works from a snapshot and never deletes "out from      *)
(* under a scan that's still running": while a runner is active its row is *)
(* there, and neither the row, nor the tick's copy of it, nor its list of  *)
(* rows to delete makes it a candidate.                                    *)
HeldWhileRunning ==
    \A s \in Scan : runner[s].at \in Active =>
        /\ pools[s] # NoPool
        /\ pools[s].status \in {"collecting", "broadcast"}
        /\ sweep.at = "read" /\ sweep.snap[s] # NoPool =>
               sweep.snap[s].status \in {"collecting", "broadcast"}
        /\ sweep.at = "deleting" => s \notin sweep.doomed

(* Before its request has put a pool, nothing holds anything of a scan.    *)
NothingBeforeStart ==
    \A s \in Scan : runner[s].at = "none" =>
        /\ pools[s] = NoPool
        /\ sweep.at = "read" => sweep.snap[s] = NoPool
        /\ sweep.at = "deleting" => s \notin sweep.doomed
        /\ \A a \in Approval : approval[a] # NoApproval => approval[a].scan # s

(* What getScanResults tells the requester is what happened: "pending"     *)
(* comes with exactly the runner's result, "failed" only after every retry *)
(* and the refund and without spawns, "collecting" without spawns while    *)
(* the runner is at work.  "That pool is still owned by an in-flight       *)
(* runAreaScan/runSpeciesScan call" (pokemon-state.js:69) is not so once a *)
(* reload or an exception has ended the runner: the row then stays.        *)
StatusTellsOutcome ==
    \A s \in Scan : pools[s] # NoPool =>
        /\ pools[s].status = "pending" =>
               runner[s].result = "pending" /\ runner[s].at = "done"
                   /\ pools[s].spawns = runner[s].found
        /\ pools[s].status = "failed" =>
               runner[s].result = "failed" /\ runner[s].at = "done" /\ pools[s].spawns = {}
        /\ pools[s].status = "collecting" =>
               runner[s].at \in Active \cup {"killed", "broken"} /\ pools[s].spawns = {}

(* Nothing of a scan becomes public but by approval: what an approval      *)
(* emitted is the runner's own result, emitted after the runner had ended. *)
OnlyResultsShared ==
    \A s \in Scan : shared[s] # {} => runner[s].at = "done" /\ shared[s] = runner[s].found

(* A row disappears only after its grace period, never while it is being   *)
(* filled, and never while a spawn in it is live, whatever an approval has *)
(* made of it since the tick looked.  The tick "skips "broadcast": that    *)
(* pool is kept as a record" (pokemon-state.js:73): it is, unless it was   *)
(* approved after the tick had read it, as the tick goes by its snapshot.  *)
DiscardOnlyStale ==
    [][\A s \in Scan : pools[s] # NoPool /\ pools'[s] = NoPool =>
          /\ now - pools[s].created >= Grace
          /\ pools[s].status # "collecting"
          /\ \A x \in pools[s].spawns : ~ Live(x)
          /\ pools[s].status = "broadcast" => s \in sweep.approved]_vars

(* A started scan ends, unless the page is reloaded under it or it throws. *)
RunnerEnds ==
    \A s \in Scan : runner[s].at = "searching" ~> runner[s].at \in {"done", "killed", "broken"}

(* The pool "holds whatever spawns were observed [...] until the requester *)
(* either approves (publishes them for real [...]) or lets the pool        *)
(* expire" (indexeddb.js:64): once the runner is done, a pool that counts  *)
(* as approved has had its result published.                               *)
ApprovedIsPublished ==
    \A s \in Scan : pools[s] # NoPool /\ pools[s].status = "broadcast"
                        /\ runner[s].at = "done" /\ runner[s].result = "pending" =>
        runner[s].found \subseteq shared[s]
=============================================================================
