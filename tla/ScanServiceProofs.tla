------------------------- MODULE ScanServiceProofs --------------------------
(***************************************************************************)
(* What a pool says and loses, for every set of scans, spawns and          *)
(* approvals and whatever the clock and the bounds: the discard tick never *)
(* takes a running scan's pool, nor a row before its time, a row tells     *)
(* what its runner ended with, and only that is published.                 *)
(*                                                                         *)
(* Copies of a row are what is hard here: a runner, approvals and the tick *)
(* each hold one and write it back or act on it later.  Held is all copies *)
(* of a scan's row; OutcomeInv says what every one of them tells, so that  *)
(* whichever is written back last tells it too.                            *)
(*                                                                         *)
(* Joined with the ledger: each half takes only steps of its own           *)
(* specification, and ServiceInv says where the one is by where the other  *)
(* is (Stage) and that every copy names who was charged (Owned).           *)
(***************************************************************************)
EXTENDS ScanService, TLAPS

LEMMA InitTypeOK == Init => TypeOK
  BY BoundsAssumption DEF Init, TypeOK, NewRunner, Runner, NoApproval, Asleep

(* What a handler in flight and the tick hold, told by their first fields. *)
LEMMA Shapes ==
    ASSUME TypeOK
    PROVE  /\ \A a \in Approval : approval[a] # NoApproval =>
                 approval[a].scan \in Scan /\ approval[a].row \in Pool
           /\ sweep.at = "read" => sweep.snap \in [Scan -> Pool \cup {NoPool}]
           /\ sweep.at = "deleting" => sweep.doomed \in SUBSET Scan
  BY DEF TypeOK, Asleep

(* An approval's put under the discard tick is recorded, and changes       *)
(* nothing the tick goes by.                                               *)
LEMMA ResumeSweep ==
    ASSUME TypeOK, NEW a \in Approval, NEW s \in Scan, ApproveResume(a, s)
    PROVE  /\ sweep' \in {Asleep}
                 \cup [at: {"read"}, snap: [Scan -> Pool \cup {NoPool}], approved: SUBSET Scan]
                 \cup [at: {"deleting"}, doomed: SUBSET Scan, approved: SUBSET Scan]
           /\ sweep'.at = sweep.at
           /\ sweep.at = "read" => sweep'.snap = sweep.snap
           /\ sweep.at = "deleting" => sweep'.doomed = sweep.doomed
           /\ sweep.at \in {"read", "deleting"} => sweep'.approved = sweep.approved \cup {s}
  <1>1. sweep' = IF sweep = Asleep THEN sweep ELSE [sweep EXCEPT !.approved = @ \cup {s}]
    BY DEF ApproveResume
  <1>2. CASE sweep = Asleep
    BY <1>1, <1>2 DEF Asleep
  <1>3. CASE sweep \in [at: {"read"}, snap: [Scan -> Pool \cup {NoPool}], approved: SUBSET Scan]
    BY <1>1, <1>3 DEF Asleep
  <1>4. CASE sweep \in [at: {"deleting"}, doomed: SUBSET Scan, approved: SUBSET Scan]
    BY <1>1, <1>4 DEF Asleep
  <1>5. QED
    BY <1>2, <1>3, <1>4 DEF TypeOK

LEMMA RunnerTypeOK ==
    ASSUME TypeOK, NEW s \in Scan, RunnerStep(s)
    PROVE  TypeOK'
  <1> USE DEF TypeOK
  <1>0. runner[s] \in Runner /\ runner[s].attempt \in 0..MaxRetries /\ MaxRetries \in Nat
    BY BoundsAssumption DEF Runner
  <1>1. CASE Retry(s)
    <2>1. runner[s].attempt + 1 \in 0..MaxRetries
      BY <1>0, <1>1 DEF Retry
    <2>2. runner' \in [Scan -> Runner]
      BY <1>0, <1>1, <2>1 DEF Retry, Runner
    <2>3. QED
      BY <1>1, <2>2 DEF Retry
  <1>2. CASE GiveUp(s)
    <2>1. runner' \in [Scan -> Runner]
      BY <1>0, <1>2 DEF GiveUp, Runner, Active
    <2>2. QED
      BY <1>2, <2>1 DEF GiveUp
  <1>3. CASE Reimbursed(s)
    <2>1. runner' \in [Scan -> Runner]
      BY <1>0, <1>3 DEF Reimbursed, Runner, Active
    <2>2. QED
      BY <1>3, <2>1 DEF Reimbursed
  <1>4. ASSUME NEW records \in SUBSET Spawn, Answer(s, records) PROVE TypeOK'
    <2>1. runner' \in [Scan -> Runner]
      BY <1>0, <1>4 DEF Answer, Runner, Active
    <2>2. QED
      BY <1>4, <2>1 DEF Answer
  <1>5. ASSUME NEW x \in Spawn, Filter(s, x) PROVE TypeOK'
    <2>1. runner' \in [Scan -> Runner]
      BY <1>0, <1>5 DEF Filter, Runner
    <2>2. QED
      BY <1>5, <2>1 DEF Filter
  <1>6. CASE ReadPool(s)
    <2>1. runner' \in [Scan -> Runner]
      BY <1>0, <1>6 DEF ReadPool, Runner, Active
    <2>2. QED
      BY <1>6, <2>1 DEF ReadPool
  <1>7. CASE WritePool(s)
    <2>1. runner' \in [Scan -> Runner]
      BY <1>0, <1>7 DEF WritePool, Runner
    <2>2. runner[s].row # NoPool => Settled(runner[s]) \in Pool
      <3>1. runner[s].row \in Pool \cup {NoPool} /\ runner[s].found \in SUBSET Spawn
        BY <1>0 DEF Runner
      <3>2. QED
        BY <3>1 DEF Settled, Pool
    <2>3. pools' \in [Scan -> Pool \cup {NoPool}]
      BY <1>7, <2>2 DEF WritePool
    <2>4. QED
      BY <1>7, <2>1, <2>3 DEF WritePool
  <1>8. QED
    BY <1>1, <1>2, <1>3, <1>4, <1>5, <1>6, <1>7 DEF RunnerStep

LEMMA StepTypeOK == TypeOK /\ [Next]_vars => TypeOK'
  <1> SUFFICES ASSUME TypeOK, [Next]_vars PROVE TypeOK'
    OBVIOUS
  <1> USE DEF TypeOK
  <1>1. ASSUME NEW s \in Scan, NEW p \in Subscriber, Create(s, p) PROVE TypeOK'
    <2>0. [runner[s] EXCEPT !.at = "searching"] \in Runner
      <3>1. runner[s] \in Runner
        OBVIOUS
      <3>2. QED
        BY <3>1 DEF Runner, Active
    <2>1. runner' \in [Scan -> Runner]
      BY <1>1, <2>0 DEF Create
    <2>2. pools' \in [Scan -> Pool \cup {NoPool}]
      BY <1>1 DEF Create, Pool
    <2>3. QED
      BY <1>1, <2>1, <2>2 DEF Create
  <1>2. ASSUME NEW s \in Scan, RunnerStep(s) PROVE TypeOK'
    BY <1>2, RunnerTypeOK
  <1>2a. ASSUME NEW s \in Scan, Throw(s) PROVE TypeOK'
    <2>0. [runner[s] EXCEPT !.at = "broken", !.row = NoPool, !.todo = {}] \in Runner
      <3>1. runner[s] \in Runner
        OBVIOUS
      <3>2. QED
        BY <3>1 DEF Runner
    <2>1. runner' \in [Scan -> Runner]
      BY <1>2a, <2>0 DEF Throw
    <2>2. QED
      BY <1>2a, <2>1 DEF Throw
  <1>3. ASSUME NEW a \in Approval, NEW s \in Scan, NEW caller, ApproveRead(a, s, caller) PROVE TypeOK'
    BY <1>3 DEF ApproveRead
  <1>4. ASSUME NEW a \in Approval, NEW s \in Scan, ApproveResume(a, s) PROVE TypeOK'
    <2>1. approval[a].row \in Pool
      BY <1>4, Shapes DEF ApproveResume
    <2>2. [approval[a].row EXCEPT !.status = "broadcast"] \in Pool /\ approval[a].row.spawns \in SUBSET Spawn
      BY <2>1 DEF Pool
    <2>3. pools' \in [Scan -> Pool \cup {NoPool}] /\ shared' \in [Scan -> SUBSET Spawn] /\ public' \subseteq Spawn
      BY <1>4, <2>2 DEF ApproveResume
    <2>4. UNCHANGED <<runner, now>> /\ approval' = [approval EXCEPT ![a] = NoApproval]
      BY <1>4 DEF ApproveResume
    <2>5. QED
      BY <1>4, <2>3, <2>4, ResumeSweep
  <1>5. ASSUME NEW x \in Spawn, Observe(x) PROVE TypeOK'
    BY <1>5 DEF Observe
  <1>6. ASSUME Sweep PROVE TypeOK'
    <2>1. CASE SweepRead
      BY <2>1 DEF SweepRead
    <2>2. CASE SweepDecide
      <3>1. sweep.approved \in SUBSET Scan
        BY <2>2 DEF SweepDecide, Asleep
      <3>2. QED
        BY <2>2, <3>1 DEF SweepDecide
    <2>3. ASSUME NEW s \in Scan, SweepDelete(s) PROVE TypeOK'
      <3>1. sweep \in [at: {"deleting"}, doomed: SUBSET Scan, approved: SUBSET Scan]
        BY <2>3 DEF SweepDelete, Asleep
      <3>2. QED
        BY <2>3, <3>1 DEF SweepDelete
    <2>4. CASE SweepEnd
      BY <2>4 DEF SweepEnd
    <2>5. QED
      BY <1>6, <2>1, <2>2, <2>3, <2>4 DEF Sweep
  <1>7. ASSUME Reload PROVE TypeOK'
    <2>1. ASSUME NEW s \in Scan PROVE runner'[s] \in Runner
      <3>1. CASE runner[s].at \in Active
        <4>1. runner'[s] = [runner[s] EXCEPT !.at = "killed", !.row = NoPool, !.todo = {}]
          BY <1>7, <3>1 DEF Reload
        <4>2. runner[s] \in Runner
          OBVIOUS
        <4>3. [runner[s] EXCEPT !.at = "killed", !.row = NoPool, !.todo = {}] \in Runner
          BY <4>2 DEF Runner, Active
        <4>4. QED
          BY <4>1, <4>3
      <3>2. CASE runner[s].at \notin Active
        BY <1>7, <3>2 DEF Reload
      <3>3. QED
        BY <3>1, <3>2
    <2>2. runner' \in [Scan -> Runner]
      BY <1>7, <2>1 DEF Reload
    <2>3. QED
      BY <1>7, <2>2 DEF Reload
  <1>8. ASSUME Tick \/ UNCHANGED vars PROVE TypeOK'
    BY <1>8 DEF Tick, vars
  <1>9. QED
    BY <1>1, <1>2, <1>2a, <1>3, <1>4, <1>5, <1>6, <1>7, <1>8 DEF Next

(* The state is well typed. *)
THEOREM TypeCorrect == Spec => []TypeOK
  BY InitTypeOK, StepTypeOK, PTL DEF Spec
-----------------------------------------------------------------------------

IInv == HeldWhileRunning /\ NothingBeforeStart

(* What every step must leave alone for IInv to survive it. *)
LEMMA QuietStep ==
    ASSUME IInv, pools' = pools, approval' = approval, sweep' = sweep,
           \A s \in Scan :
              /\ runner'[s].at \in Active => runner[s].at \in Active
              /\ runner'[s].at = "none" => runner[s].at = "none"
    PROVE  IInv'
  BY DEF IInv, HeldWhileRunning, NothingBeforeStart

LEMMA RunnerIInv ==
    ASSUME TypeOK, IInv, NEW s \in Scan, RunnerStep(s)
    PROVE  IInv'
  <1>0. runner[s] \in Runner
    BY DEF TypeOK
  <1>1. ASSUME NEW at \in Active, runner[s].at \in Active, runner'[s].at = at,
               \A t \in Scan \ {s} : runner'[t] = runner[t],
               pools' = pools, approval' = approval, sweep' = sweep
        PROVE  IInv'
    <2>1. "none" \notin Active
      BY DEF Active
    <2>2. \A t \in Scan : /\ runner'[t].at \in Active => runner[t].at \in Active
                         /\ runner'[t].at = "none" => runner[t].at = "none"
      BY <1>1, <2>1
    <2>3. QED
      BY <1>1, <2>2, QuietStep
  <1>2. CASE Retry(s)
    BY <1>0, <1>1, <1>2 DEF Retry, Active, Runner, TypeOK
  <1>3. CASE GiveUp(s)
    BY <1>0, <1>1, <1>3 DEF GiveUp, Active, Runner, TypeOK
  <1>4. CASE Reimbursed(s)
    BY <1>0, <1>1, <1>4 DEF Reimbursed, Active, Runner, TypeOK
  <1>5. ASSUME NEW records \in SUBSET Spawn, Answer(s, records) PROVE IInv'
    BY <1>0, <1>1, <1>5 DEF Answer, Active, Runner, TypeOK
  <1>6. ASSUME NEW x \in Spawn, Filter(s, x) PROVE IInv'
    BY <1>0, <1>1, <1>6 DEF Filter, Active, Runner, TypeOK
  <1>7. CASE ReadPool(s)
    BY <1>0, <1>1, <1>7 DEF ReadPool, Active, Runner, TypeOK
  <1>8. CASE WritePool(s)
    <2>1. runner'[s].at = "done" /\ \A t \in Scan \ {s} : runner'[t] = runner[t] /\ pools'[t] = pools[t]
      BY <1>8 DEF WritePool, TypeOK, Runner
    <2>2. UNCHANGED <<approval, sweep>>
      BY <1>8 DEF WritePool
    <2>3. "done" \notin Active
      BY DEF Active
    <2>4. QED
      BY <2>1, <2>2, <2>3 DEF IInv, HeldWhileRunning, NothingBeforeStart
  <1>9. QED
    BY <1>2, <1>3, <1>4, <1>5, <1>6, <1>7, <1>8 DEF RunnerStep

LEMMA StepIInv == TypeOK /\ IInv /\ [Next]_vars => IInv'
  <1> SUFFICES ASSUME TypeOK, IInv, [Next]_vars PROVE IInv'
    OBVIOUS
  <1>1. ASSUME NEW s \in Scan, NEW p \in Subscriber, Create(s, p) PROVE IInv'
    <2>1. runner[s].at = "none" /\ runner'[s].at = "searching"
      BY <1>1 DEF Create, NewRunner, TypeOK
    <2>2. \A t \in Scan \ {s} : runner'[t] = runner[t] /\ pools'[t] = pools[t]
      BY <1>1 DEF Create, TypeOK
    <2>3. pools'[s] # NoPool /\ pools'[s].status = "collecting"
      <3>1. pools'[s] = [owner |-> p, created |-> now, status |-> "collecting", spawns |-> {}]
        BY <1>1 DEF Create, TypeOK
      <3>2. pools'[s] \in Pool
        BY <3>1 DEF Pool, TypeOK
      <3>3. QED
        BY <3>1, <3>2, NoPoolAssumption
    <2>4. UNCHANGED <<approval, sweep>>
      BY <1>1 DEF Create
    <2>5. QED
      BY <2>1, <2>2, <2>3, <2>4 DEF IInv, HeldWhileRunning, NothingBeforeStart
  <1>2. ASSUME NEW s \in Scan, RunnerStep(s) PROVE IInv'
    BY <1>2, RunnerIInv
  <1>2a. ASSUME NEW s \in Scan, Throw(s) PROVE IInv'
    <2>1. runner'[s].at = "broken" /\ \A t \in Scan \ {s} : runner'[t] = runner[t]
      BY <1>2a DEF Throw, TypeOK, Runner
    <2>2. "broken" \notin Active
      BY DEF Active
    <2>3. UNCHANGED <<pools, approval, sweep>>
      BY <1>2a DEF Throw
    <2>4. QED
      BY <2>1, <2>2, <2>3, QuietStep
  <1>3. ASSUME NEW a \in Approval, NEW s \in Scan, NEW caller, ApproveRead(a, s, caller) PROVE IInv'
    <2>1. pools[s] # NoPool /\ approval'[a].scan = s
      BY <1>3 DEF ApproveRead, TypeOK
    <2>2. \A b \in Approval \ {a} : approval'[b] = approval[b]
      BY <1>3 DEF ApproveRead, TypeOK
    <2>3. UNCHANGED <<pools, runner, sweep>>
      BY <1>3 DEF ApproveRead
    <2>4. QED
      BY <2>1, <2>2, <2>3 DEF IInv, HeldWhileRunning, NothingBeforeStart
  <1>4. ASSUME NEW a \in Approval, NEW s \in Scan, ApproveResume(a, s) PROVE IInv'
    <2>1. approval[a] # NoApproval /\ approval[a].scan = s /\ approval[a].row \in Pool
      BY <1>4, Shapes DEF ApproveResume
    <2>2. pools'[s] = [approval[a].row EXCEPT !.status = "broadcast"]
      BY <1>4 DEF ApproveResume, TypeOK
    <2>3. pools'[s] # NoPool /\ pools'[s].status = "broadcast"
      BY <2>1, <2>2, NoPoolAssumption DEF Pool
    <2>4. runner[s].at # "none"
      BY <2>1 DEF IInv, NothingBeforeStart
    <2>5. \A t \in Scan \ {s} : pools'[t] = pools[t]
      BY <1>4 DEF ApproveResume, TypeOK
    <2>6. /\ runner' = runner /\ sweep'.at = sweep.at
          /\ sweep.at = "read" => sweep'.snap = sweep.snap
          /\ sweep.at = "deleting" => sweep'.doomed = sweep.doomed
      BY <1>4, ResumeSweep DEF ApproveResume
    <2>7. \A b \in Approval : approval'[b] = approval[b] \/ approval'[b] = NoApproval
      BY <1>4 DEF ApproveResume, TypeOK
    <2>8. QED
      BY <2>3, <2>4, <2>5, <2>6, <2>7 DEF IInv, HeldWhileRunning, NothingBeforeStart
  <1>5. ASSUME Sweep PROVE IInv'
    <2>1. CASE SweepRead
      BY <2>1 DEF SweepRead, IInv, HeldWhileRunning, NothingBeforeStart
    <2>2. CASE SweepDecide
      <3>1. sweep.at = "read" /\ sweep'.at = "deleting"
        BY <2>2 DEF SweepDecide
      <3>2. \A s \in sweep'.doomed :
               s \in Scan /\ sweep.snap[s] # NoPool /\ sweep.snap[s].status \in {"failed", "pending"}
        BY <2>2 DEF SweepDecide, Stale
      <3>3. \A s \in sweep'.doomed : runner[s].at \notin Active /\ runner[s].at # "none"
        BY <3>1, <3>2 DEF IInv, HeldWhileRunning, NothingBeforeStart
      <3>4. QED
        BY <2>2, <3>1, <3>3 DEF SweepDecide, IInv, HeldWhileRunning, NothingBeforeStart
    <2>3. ASSUME NEW s \in Scan, SweepDelete(s) PROVE IInv'
      <3>1. sweep.at = "deleting" /\ s \in sweep.doomed
        BY <2>3 DEF SweepDelete
      <3>2. runner[s].at \notin Active
        BY <3>1 DEF IInv, HeldWhileRunning
      <3>3. sweep \in [at: {"deleting"}, doomed: SUBSET Scan, approved: SUBSET Scan]
        BY <3>1 DEF TypeOK, Asleep
      <3>4. sweep'.at = "deleting" /\ sweep'.doomed \subseteq sweep.doomed
        BY <2>3, <3>3 DEF SweepDelete
      <3>5. pools'[s] = NoPool /\ \A t \in Scan \ {s} : pools'[t] = pools[t]
        BY <2>3 DEF SweepDelete, TypeOK
      <3>6. UNCHANGED <<runner, approval>>
        BY <2>3 DEF SweepDelete
      <3>7. QED
        BY <3>1, <3>2, <3>4, <3>5, <3>6 DEF IInv, HeldWhileRunning, NothingBeforeStart
    <2>4. CASE SweepEnd
      BY <2>4 DEF SweepEnd, Asleep, IInv, HeldWhileRunning, NothingBeforeStart
    <2>5. QED
      BY <1>5, <2>1, <2>2, <2>3, <2>4 DEF Sweep
  <1>6. ASSUME Reload PROVE IInv'
    <2>1. ASSUME NEW s \in Scan
          PROVE  runner'[s].at \notin Active /\ (runner'[s].at = "none" => runner[s].at = "none")
      <3>1. CASE runner[s].at \in Active
        <4>1. runner'[s] = [runner[s] EXCEPT !.at = "killed", !.row = NoPool, !.todo = {}]
          BY <1>6, <3>1 DEF Reload
        <4>2. runner'[s].at = "killed"
          BY <4>1 DEF TypeOK, Runner
        <4>3. QED
          BY <4>2 DEF Active
      <3>2. CASE runner[s].at \notin Active
        BY <1>6, <3>2 DEF Reload
      <3>3. QED
        BY <3>1, <3>2
    <2>2. UNCHANGED pools /\ sweep' = Asleep /\ \A a \in Approval : approval'[a] = NoApproval
      BY <1>6 DEF Reload
    <2>3. QED
      BY <2>1, <2>2 DEF Asleep, IInv, HeldWhileRunning, NothingBeforeStart
  <1>7. ASSUME (\E x \in Spawn : Observe(x)) \/ Tick \/ UNCHANGED vars PROVE IInv'
    BY <1>7 DEF Observe, Tick, vars, IInv, HeldWhileRunning, NothingBeforeStart
  <1>8. QED
    BY <1>1, <1>2, <1>2a, <1>3, <1>4, <1>5, <1>6, <1>7 DEF Next

(* No scan loses its pool to the discard tick while its runner is at work. *)
THEOREM PoolsHeld == Spec => []HeldWhileRunning
  <1>1. Init => IInv
    BY DEF Init, IInv, HeldWhileRunning, NothingBeforeStart, NewRunner, Active, NoApproval, Asleep
  <1>2. IInv => HeldWhileRunning
    BY DEF IInv
  <1>3. QED
    BY <1>1, <1>2, InitTypeOK, StepTypeOK, StepIInv, PTL DEF Spec
-----------------------------------------------------------------------------

(* Every row of a scan anybody holds: the store, its runner, an approval,  *)
(* the discard tick.                                                       *)
Held(s) ==
    ({pools[s], runner[s].row}
        \cup {approval[a].row : a \in {b \in Approval : approval[b] # NoApproval /\ approval[b].scan = s}}
        \cup (IF sweep.at = "read" THEN {sweep.snap[s]} ELSE {})) \ {NoPool}

(* A row with a result, or with spawns, is one the runner ended with. *)
Tells(s, row) ==
    /\ row.status = "pending" => runner[s].at = "done" /\ runner[s].result = "pending"
                                    /\ row.spawns = runner[s].found
    /\ row.status = "failed" => runner[s].at = "done" /\ runner[s].result = "failed" /\ row.spawns = {}
    /\ row.status = "collecting" => row.spawns = {}
    /\ row.spawns # {} => runner[s].at = "done" /\ runner[s].result = "pending"
                               /\ row.spawns = runner[s].found

(* Where a runner is tells what it has found out and what it has read, and *)
(* it leaves no pool that is still collecting.                             *)
Phase(s) ==
    /\ runner[s].at = "filtering" => runner[s].result = "pending"
    /\ runner[s].at = "reimbursed" => runner[s].result = "failed"
    /\ runner[s].at = "writing" => runner[s].result # "none" /\ runner[s].row # NoPool
    /\ runner[s].at # "writing" => runner[s].row = NoPool
    /\ runner[s].at = "done" /\ pools[s] # NoPool => pools[s].status # "collecting"

Told(s) == \A row \in Held(s) : Tells(s, row)

OneAge(s) == \A r1, r2 \in Held(s) : r1.created = r2.created

(* A row the tick is about to delete was stale, and whoever still holds a  *)
(* copy of it cannot make it fresh again.                                  *)
DoomedIsStale(s) ==
    sweep.at = "deleting" /\ s \in sweep.doomed =>
        /\ runner[s].at = "done"
        /\ \A row \in Held(s) : now - row.created >= Grace /\ \A x \in row.spawns : ~ Live(x)

SharedIsFound(s) == shared[s] # {} => runner[s].at = "done" /\ shared[s] = runner[s].found

Sound(s) == Phase(s) /\ Told(s) /\ OneAge(s) /\ DoomedIsStale(s) /\ SharedIsFound(s)

OutcomeInv == \A s \in Scan : Sound(s)

LEMMA HeldRows ==
    ASSUME TypeOK, NEW s \in Scan
    PROVE  /\ Held(s) \subseteq Pool
           /\ \A row \in Pool : /\ row.created \in Nat
                                /\ row.status \in {"collecting", "pending", "failed", "broadcast"}
                                /\ row.spawns \in SUBSET Spawn
           /\ runner[s] \in Runner
  <1>1. pools[s] \in Pool \cup {NoPool} /\ runner[s] \in Runner
    BY DEF TypeOK
  <1>2. runner[s].row \in Pool \cup {NoPool}
    BY <1>1 DEF Runner
  <1>3. sweep.at = "read" => sweep.snap[s] \in Pool \cup {NoPool}
    BY Shapes
  <1>4. Held(s) \subseteq Pool
    BY <1>1, <1>2, <1>3, Shapes DEF Held
  <1>5. QED
    BY <1>1, <1>4 DEF Pool

(* A row goes on telling the truth: a runner that is done is done for good,*)
(* and nothing was told of one that is not.                                *)
LEMMA TellsKept ==
    ASSUME NEW s, NEW row, Tells(s, row), runner[s].at = "done" => runner'[s] = runner[s]
    PROVE  Tells(s, row)'
  BY DEF Tells

(* What a step must leave alone for a scan to stay sound: it makes no new  *)
(* row, shares nothing and dooms nothing.                                  *)
LEMMA Quiet ==
    ASSUME TypeOK, NEW s \in Scan, Sound(s),
           now \in Nat, now' \in Nat, now <= now',
           shared'[s] = shared[s],
           runner[s].at = "done" => runner'[s] = runner[s],
           pools'[s] \in {pools[s], NoPool},
           runner'[s].row \in Held(s) \cup {NoPool},
           \A a \in Approval : approval'[a] # NoApproval /\ approval'[a].scan = s =>
               approval'[a] = approval[a] \/ approval'[a].row = pools[s],
           sweep'.at = "read" => sweep'.snap[s] \in Held(s) \cup {NoPool},
           sweep'.at = "deleting" /\ s \in sweep'.doomed => sweep.at = "deleting" /\ s \in sweep.doomed,
           Phase(s)'
    PROVE  Sound(s)'
  <1>1. Held(s)' \subseteq Held(s)
    BY DEF Held
  <1>2. Told(s)' /\ OneAge(s)'
    BY <1>1, TellsKept DEF Sound, Told, OneAge
  <1>3. DoomedIsStale(s)'
    <2> SUFFICES ASSUME sweep'.at = "deleting", s \in sweep'.doomed
                 PROVE  /\ runner'[s].at = "done"
                        /\ \A row \in Held(s)' : /\ now' - row.created >= Grace
                                                  /\ \A x \in row.spawns : ~ DespawnAt[x] > now'
      BY DEF DoomedIsStale, Live
    <2>1. sweep.at = "deleting" /\ s \in sweep.doomed
      OBVIOUS
    <2>2. /\ runner[s].at = "done"
          /\ \A row \in Held(s) : now - row.created >= Grace /\ \A x \in row.spawns : ~ DespawnAt[x] > now
      BY <2>1 DEF Sound, DoomedIsStale, Live
    <2>3. \A row \in Held(s) : row.created \in Nat /\ row.spawns \in SUBSET Spawn
      BY HeldRows
    <2>4. \A row \in Held(s)' : now' - row.created >= Grace
      BY <1>1, <2>2, <2>3, BoundsAssumption
    <2>5. ASSUME NEW row \in Held(s)', NEW x \in row.spawns PROVE ~ DespawnAt[x] > now'
      <3>1. x \in Spawn /\ ~ DespawnAt[x] > now
        BY <1>1, <2>2, <2>3, <2>5
      <3>2. QED
        BY <3>1, DespawnAssumption
    <2>6. QED
      BY <2>2, <2>4, <2>5
  <1>4. SharedIsFound(s)'
    BY DEF Sound, SharedIsFound
  <1>5. QED
    BY <1>2, <1>3, <1>4 DEF Sound

(* The runner's steps up to its put. *)
LEMMA RunnerQuiet ==
    ASSUME TypeOK, IInv, OutcomeInv, NEW s \in Scan, NEW t \in Scan, RunnerStep(s), ~ WritePool(s)
    PROVE  Sound(t)'
  <1>1. Sound(t) /\ Sound(s) /\ runner[s] \in Runner /\ now \in Nat
    BY HeldRows DEF OutcomeInv, TypeOK
  <1>2. UNCHANGED <<pools, approval, sweep, shared, now>> /\ runner[s].at \notin {"done", "killed", "none"}
    BY DEF RunnerStep, Retry, GiveUp, Reimbursed, Answer, Filter, ReadPool
  <1>3. t # s => runner'[t] = runner[t]
    BY DEF RunnerStep, Retry, GiveUp, Reimbursed, Answer, Filter, ReadPool, TypeOK
  <1>4. /\ runner'[s].at \notin {"done", "killed", "none"}
        /\ runner'[s].row \in {runner[s].row, pools[s]}
    <2> USE DEF TypeOK, Runner
    <2>1. CASE Retry(s)
      BY <1>1, <2>1 DEF Retry
    <2>2. CASE GiveUp(s)
      BY <1>1, <2>2 DEF GiveUp
    <2>3. CASE Reimbursed(s)
      BY <1>1, <2>3 DEF Reimbursed
    <2>4. ASSUME NEW records \in SUBSET Spawn, Answer(s, records)
          PROVE  runner'[s].at \notin {"done", "killed", "none"} /\ runner'[s].row \in {runner[s].row, pools[s]}
      BY <1>1, <2>4 DEF Answer
    <2>5. ASSUME NEW x \in Spawn, Filter(s, x)
          PROVE  runner'[s].at \notin {"done", "killed", "none"} /\ runner'[s].row \in {runner[s].row, pools[s]}
      BY <1>1, <2>5 DEF Filter
    <2>6. CASE ReadPool(s)
      BY <1>1, <2>6 DEF ReadPool
    <2>7. QED
      BY <2>1, <2>2, <2>3, <2>4, <2>5, <2>6 DEF RunnerStep
  <1>5. runner'[t].row \in Held(t) \cup {NoPool}
    BY <1>3, <1>4 DEF Held
  <1>6. Phase(s)'
    <2> USE DEF Phase, TypeOK, Runner
    <2>0. Phase(s)
      BY <1>1 DEF Sound
    <2>1. CASE Retry(s)
      BY <1>1, <2>0, <2>1 DEF Retry
    <2>2. CASE GiveUp(s)
      BY <1>1, <2>0, <2>2 DEF GiveUp
    <2>3. CASE Reimbursed(s)
      BY <1>1, <2>0, <2>3 DEF Reimbursed
    <2>4. ASSUME NEW records \in SUBSET Spawn, Answer(s, records) PROVE Phase(s)'
      BY <1>1, <2>0, <2>4 DEF Answer
    <2>5. ASSUME NEW x \in Spawn, Filter(s, x) PROVE Phase(s)'
      BY <1>1, <2>0, <2>5 DEF Filter
    <2>6. CASE ReadPool(s)
      <3>1. pools[s] # NoPool
        BY <2>6 DEF ReadPool, IInv, HeldWhileRunning, Active
      <3>2. QED
        BY <1>1, <2>0, <2>6, <3>1 DEF ReadPool
    <2>7. QED
      BY <2>1, <2>2, <2>3, <2>4, <2>5, <2>6 DEF RunnerStep
  <1>7. Phase(t)'
    BY <1>1, <1>2, <1>3, <1>6 DEF Sound, Phase
  <1>8. sweep'.at = "read" => sweep'.snap[t] \in Held(t) \cup {NoPool}
    BY <1>2 DEF Held
  <1>9. runner[t].at = "done" => runner'[t] = runner[t]
    BY <1>2, <1>3
  <1>10. QED
    BY <1>1, <1>2, <1>5, <1>7, <1>8, <1>9, Quiet

(* The runner's put: the row it has read, with its result.                 *)
LEMMA WriteSound ==
    ASSUME TypeOK, IInv, OutcomeInv, NEW s \in Scan, NEW t \in Scan, WritePool(s)
    PROVE  Sound(t)'
  <1> DEFINE old == runner[s].row
             new == Settled(runner[s])
  <1>1. Sound(t) /\ Sound(s) /\ runner[s] \in Runner /\ now \in Nat
    BY HeldRows DEF OutcomeInv, TypeOK
  <1>2. /\ UNCHANGED <<approval, sweep, shared, now>>
        /\ runner' = [runner EXCEPT ![s].at = "done", ![s].row = NoPool]
        /\ runner[s].at = "writing" /\ old # NoPool
        /\ pools' = [pools EXCEPT ![s] = new]
    BY <1>1 DEF WritePool, Sound, Phase
  <1>3. CASE t # s
    <2>1. runner'[t] = runner[t] /\ pools'[t] = pools[t]
      BY <1>2, <1>3 DEF TypeOK
    <2>2. runner'[t].row \in Held(t) \cup {NoPool}
          /\ (sweep'.at = "read" => sweep'.snap[t] \in Held(t) \cup {NoPool})
      BY <1>2, <2>1 DEF Held
    <2>3. Phase(t)'
      BY <1>1, <2>1 DEF Sound, Phase
    <2>4. UNCHANGED <<approval, sweep, shared, now>>
      BY <1>2
    <2>5. QED
      BY <1>1, <2>1, <2>2, <2>3, <2>4, Quiet
  <1>4. CASE t = s
    <2>1. /\ runner'[s] = [runner[s] EXCEPT !.at = "done", !.row = NoPool]
          /\ runner'[s].at = "done" /\ runner'[s].row = NoPool
          /\ runner'[s].found = runner[s].found /\ runner'[s].result = runner[s].result
          /\ pools'[s] = new
      BY <1>1, <1>2 DEF TypeOK, Runner
    <2>2. old \in Held(s) /\ old \in Pool
      BY <1>1, <1>2 DEF Held, Runner
    <2>3. runner[s].result \in {"pending", "failed"}
      BY <1>1, <1>2 DEF Sound, Phase, Runner
    <2>4. Tells(s, old) /\ old.spawns = {}
      BY <1>1, <1>2, <2>2 DEF Sound, Told, Tells
    <2>5. /\ new.created = old.created /\ new.status = runner[s].result
          /\ new.status = "pending" => new.spawns = runner[s].found
          /\ new.status = "failed" => new.spawns = {}
      BY <2>2, <2>3, <2>4 DEF Settled, Pool
    <2>6. Held(s)' \subseteq Held(s) \cup {new}
      BY <1>2, <2>1 DEF Held
    <2>7. \A row : row = new => Tells(s, row)'
      BY <2>1, <2>3, <2>5 DEF Tells
    <2>8. Told(s)'
      BY <1>1, <1>2, <2>6, <2>7, TellsKept DEF Sound, Told
    <2>9. OneAge(s)'
      BY <1>1, <2>2, <2>5, <2>6 DEF Sound, OneAge
    <2>10. Phase(s)'
      BY <2>1, <2>3, <2>5 DEF Phase
    <2>11. DoomedIsStale(s)' /\ SharedIsFound(s)'
      BY <1>1, <1>2 DEF Sound, DoomedIsStale, SharedIsFound
    <2>12. QED
      BY <1>4, <2>8, <2>9, <2>10, <2>11 DEF Sound
  <1>5. QED
    BY <1>3, <1>4

(* An approval's put: the row it has read, as broadcast, its spawns shared.*)
LEMMA ApproveSound ==
    ASSUME TypeOK, IInv, OutcomeInv, NEW a \in Approval, NEW s \in Scan, NEW t \in Scan,
           ApproveResume(a, s)
    PROVE  Sound(t)'
  <1> DEFINE old == approval[a].row
             new == [old EXCEPT !.status = "broadcast"]
  <1>1. Sound(t) /\ Sound(s) /\ runner[s] \in Runner /\ now \in Nat
    BY HeldRows DEF OutcomeInv, TypeOK
  <1>2. /\ UNCHANGED <<runner, now>>
        /\ sweep'.at = sweep.at
        /\ sweep.at = "read" => sweep'.snap = sweep.snap
        /\ sweep.at = "deleting" => sweep'.doomed = sweep.doomed
        /\ approval[a] # NoApproval /\ approval[a].scan = s
        /\ pools' = [pools EXCEPT ![s] = new]
        /\ shared' = [shared EXCEPT ![s] = @ \cup old.spawns]
        /\ \A b \in Approval : approval'[b] # NoApproval => approval'[b] = approval[b]
    BY ResumeSweep DEF ApproveResume, TypeOK
  <1>3. CASE t # s
    <2>1. shared'[t] = shared[t] /\ pools'[t] = pools[t]
      BY <1>2, <1>3 DEF TypeOK
    <2>2. runner'[t].row \in Held(t) \cup {NoPool}
          /\ (sweep'.at = "read" => sweep'.snap[t] \in Held(t) \cup {NoPool})
      BY <1>2 DEF Held
    <2>3. Phase(t)'
      BY <1>1, <1>2, <2>1 DEF Sound, Phase
    <2>4. /\ runner'[t] = runner[t] /\ now' = now
          /\ sweep'.at = "deleting" /\ t \in sweep'.doomed => sweep.at = "deleting" /\ t \in sweep.doomed
          /\ \A b \in Approval : approval'[b] # NoApproval => approval'[b] = approval[b]
      BY <1>2
    <2>5. QED
      BY <1>1, <2>1, <2>2, <2>3, <2>4, Quiet
  <1>4. CASE t = s
    <2>1. old \in Pool /\ old \in Held(s)
      BY <1>2, Shapes, NoPoolAssumption DEF Held
    <2>2. /\ new.created = old.created /\ new.status = "broadcast"
          /\ new.spawns = old.spawns /\ pools'[s] = new
      BY <1>2, <2>1 DEF Pool, TypeOK
    <2>3. Held(s)' \subseteq Held(s) \cup {new}
      BY <1>2, <2>2 DEF Held
    <2>4. Tells(s, old)
      BY <1>1, <2>1 DEF Sound, Told
    <2>5. \A row : row = new => Tells(s, row)'
      BY <1>2, <2>2, <2>4 DEF Tells
    <2>6. Told(s)'
      BY <1>1, <1>2, <2>3, <2>5, TellsKept DEF Sound, Told
    <2>7. OneAge(s)'
      BY <1>1, <2>1, <2>2, <2>3 DEF Sound, OneAge
    <2>8. Phase(s)'
      BY <1>1, <1>2, <2>2 DEF Sound, Phase
    <2>9. DoomedIsStale(s)'
      <3> SUFFICES ASSUME sweep.at = "deleting", s \in sweep.doomed, NEW row \in Held(s)'
                   PROVE  /\ runner[s].at = "done"
                          /\ now - row.created >= Grace /\ \A x \in row.spawns : ~ Live(x)
        BY <1>1, <1>2 DEF Sound, DoomedIsStale, Live
      <3>1. /\ runner[s].at = "done"
            /\ \A r \in Held(s) : now - r.created >= Grace /\ \A x \in r.spawns : ~ Live(x)
        BY <1>1 DEF Sound, DoomedIsStale
      <3>2. PICK r \in Held(s) : r.created = row.created /\ r.spawns = row.spawns
        BY <2>1, <2>2, <2>3
      <3>3. QED
        BY <3>1, <3>2
    <2>10. shared'[s] = shared[s] \cup old.spawns
      BY <1>2 DEF TypeOK
    <2>11. SharedIsFound(s)'
      BY <1>1, <1>2, <2>4, <2>10 DEF Sound, SharedIsFound, Tells
    <2>12. QED
      BY <1>4, <2>6, <2>7, <2>8, <2>9, <2>11 DEF Sound
  <1>5. QED
    BY <1>3, <1>4

LEMMA SweepSound ==
    ASSUME TypeOK, IInv, OutcomeInv, Sweep, NEW t \in Scan
    PROVE  Sound(t)'
  <1>1. Sound(t) /\ now \in Nat
    BY DEF OutcomeInv, TypeOK
  <1>2. UNCHANGED <<runner, approval, shared, now>>
    BY DEF Sweep, SweepRead, SweepDecide, SweepDelete, SweepEnd
  <1>3. runner'[t].row \in Held(t) \cup {NoPool} /\ pools[t] \in Held(t) \cup {NoPool}
    BY <1>2 DEF Held
  <1>4. ASSUME pools'[t] \in {pools[t], NoPool},
               sweep'.at = "read" => sweep'.snap[t] \in Held(t) \cup {NoPool},
               sweep'.at = "deleting" /\ t \in sweep'.doomed => sweep.at = "deleting" /\ t \in sweep.doomed
        PROVE  Sound(t)'
    <2>1. Phase(t)'
      BY <1>1, <1>2, <1>4 DEF Sound, Phase
    <2>2. QED
      BY <1>1, <1>2, <1>3, <1>4, <2>1, Quiet
  <1>5. CASE SweepRead
    <2>1. pools' = pools /\ sweep'.at = "read" /\ sweep'.snap = pools
      BY <1>5 DEF SweepRead
    <2>2. QED
      BY <1>3, <1>4, <2>1
  <1>6. CASE SweepDecide
    <2>1. /\ sweep.at = "read" /\ sweep'.at = "deleting" /\ pools' = pools
          /\ sweep'.doomed = {s \in Scan : Stale(sweep.snap[s])}
      BY <1>6 DEF SweepDecide
    <2>2. Held(t)' \subseteq Held(t)
      BY <1>2, <2>1 DEF Held
    <2>3. Phase(t)' /\ Told(t)' /\ OneAge(t)' /\ SharedIsFound(t)'
      BY <1>1, <1>2, <2>1, <2>2, TellsKept DEF Sound, Phase, Told, OneAge, SharedIsFound
    <2>4. ASSUME Stale(sweep.snap[t])
          PROVE  /\ runner[t].at = "done"
                 /\ \A row \in Held(t) : now - row.created >= Grace /\ \A x \in row.spawns : ~ Live(x)
      <3> DEFINE seen == sweep.snap[t]
      <3>1. seen \in Held(t) /\ seen.status \in {"failed", "pending"} /\ now - seen.created >= Grace
        BY <2>1, <2>4 DEF Stale, Held
      <3>2. runner[t].at = "done" /\ runner[t].result = seen.status
            /\ (seen.status = "pending" => seen.spawns = runner[t].found)
        BY <1>1, <3>1 DEF Sound, Told, Tells
      <3>3. \A row \in Held(t) : row.created = seen.created
        BY <1>1, <3>1 DEF Sound, OneAge
      <3>4. ASSUME NEW row \in Held(t), NEW x \in row.spawns PROVE ~ Live(x)
        <4>1. runner[t].result = "pending" /\ row.spawns = runner[t].found
          BY <1>1, <3>4 DEF Sound, Told, Tells
        <4>2. QED
          BY <2>4, <3>2, <3>4, <4>1 DEF Stale
      <3>5. QED
        BY <3>1, <3>2, <3>3, <3>4
    <2>5. DoomedIsStale(t)'
      BY <1>2, <2>1, <2>2, <2>4 DEF DoomedIsStale, Live
    <2>6. QED
      BY <2>3, <2>5 DEF Sound
  <1>7. ASSUME NEW s \in Scan, SweepDelete(s) PROVE Sound(t)'
    <2>1. /\ sweep.at = "deleting" /\ sweep \in [at: {"deleting"}, doomed: SUBSET Scan, approved: SUBSET Scan]
          /\ pools'[t] \in {pools[t], NoPool}
      BY <1>7 DEF SweepDelete, TypeOK, Asleep
    <2>2. sweep'.at = "deleting" /\ sweep'.doomed \subseteq sweep.doomed
      BY <1>7, <2>1 DEF SweepDelete
    <2>3. QED
      BY <1>4, <2>1, <2>2
  <1>8. CASE SweepEnd
    <2>1. pools' = pools /\ sweep'.at = "asleep"
      BY <1>8 DEF SweepEnd, Asleep
    <2>2. QED
      BY <1>4, <2>1
  <1>9. QED
    BY <1>5, <1>6, <1>7, <1>8 DEF Sweep

LEMMA StepOutcome == TypeOK /\ IInv /\ OutcomeInv /\ [Next]_vars => OutcomeInv'
  <1> SUFFICES ASSUME TypeOK, IInv, OutcomeInv, [Next]_vars, NEW t \in Scan PROVE Sound(t)'
    BY DEF OutcomeInv
  <1>0. Sound(t) /\ now \in Nat /\ runner[t] \in Runner
    BY HeldRows DEF OutcomeInv, TypeOK
  <1>1. ASSUME NEW s \in Scan, NEW p \in Subscriber, Create(s, p) PROVE Sound(t)'
    <2>1. UNCHANGED <<approval, sweep, shared, now>>
      BY <1>1 DEF Create
    <2>2. CASE t # s
      <3>1. runner'[t] = runner[t] /\ pools'[t] = pools[t]
        BY <1>1, <2>2 DEF Create, TypeOK
      <3>2. runner'[t].row \in Held(t) \cup {NoPool}
            /\ (sweep'.at = "read" => sweep'.snap[t] \in Held(t) \cup {NoPool})
        BY <2>1, <3>1 DEF Held
      <3>3. Phase(t)'
        BY <1>0, <3>1 DEF Sound, Phase
      <3>4. QED
        BY <1>0, <2>1, <3>1, <3>2, <3>3, Quiet
    <2>3. CASE t = s
      <3> DEFINE new == [owner |-> p, created |-> now, status |-> "collecting", spawns |-> {}]
      <3>1. /\ runner[t] = NewRunner /\ runner[t].at = "none"
            /\ runner'[t] = [NewRunner EXCEPT !.at = "searching"]
            /\ pools'[t] = new
        BY <1>1, <2>3 DEF Create, TypeOK, NewRunner
      <3>2. runner'[t].at = "searching" /\ runner'[t].row = NoPool
        BY <3>1 DEF NewRunner
      <3>3. /\ sweep.at = "read" => sweep.snap[t] = NoPool
            /\ sweep.at = "deleting" => t \notin sweep.doomed
            /\ \A a \in Approval : approval[a] # NoApproval => approval[a].scan # t
        BY <3>1 DEF IInv, NothingBeforeStart
      <3>4. Held(t)' \subseteq {pools'[t]}
        BY <2>1, <3>2, <3>3 DEF Held
      <3>5. Told(t)' /\ OneAge(t)'
        BY <3>1, <3>4 DEF Told, Tells, OneAge
      <3>6. Phase(t)' /\ DoomedIsStale(t)'
        BY <2>1, <3>2, <3>3 DEF Phase, DoomedIsStale
      <3>7. SharedIsFound(t)'
        BY <1>0, <2>1, <3>1 DEF Sound, SharedIsFound
      <3>8. QED
        BY <3>5, <3>6, <3>7 DEF Sound
    <2>4. QED
      BY <2>2, <2>3
  <1>2. ASSUME NEW s \in Scan, RunnerStep(s) PROVE Sound(t)'
    BY <1>2, RunnerQuiet, WriteSound
  <1>2a. ASSUME NEW s \in Scan, Throw(s) PROVE Sound(t)'
    <2>1. UNCHANGED <<pools, approval, sweep, shared, now>> /\ runner[s].at # "done"
      BY <1>2a DEF Throw, Active
    <2>2. t # s => runner'[t] = runner[t]
      BY <1>2a DEF Throw, TypeOK
    <2>3. t = s => runner'[t].at = "broken" /\ runner'[t].row = NoPool
      BY <1>0, <1>2a DEF Throw, TypeOK, Runner
    <2>4. runner'[t].row \in Held(t) \cup {NoPool}
          /\ (sweep'.at = "read" => sweep'.snap[t] \in Held(t) \cup {NoPool})
      BY <2>1, <2>2, <2>3 DEF Held
    <2>5. Phase(t)'
      BY <1>0, <2>1, <2>2, <2>3 DEF Sound, Phase
    <2>6. runner[t].at = "done" => runner'[t] = runner[t]
      BY <2>1, <2>2
    <2>7. QED
      BY <1>0, <2>1, <2>4, <2>5, <2>6, Quiet
  <1>3. ASSUME NEW a \in Approval, NEW s \in Scan, NEW caller, ApproveRead(a, s, caller) PROVE Sound(t)'
    <2>1. UNCHANGED <<pools, runner, sweep, shared, now>>
      BY <1>3 DEF ApproveRead
    <2>2. \A b \in Approval : approval'[b] = approval[b] \/ (b = a /\ approval'[b].scan = s /\ approval'[b].row = pools[s])
      BY <1>3 DEF ApproveRead, TypeOK
    <2>3. runner'[t].row \in Held(t) \cup {NoPool}
          /\ (sweep'.at = "read" => sweep'.snap[t] \in Held(t) \cup {NoPool})
      BY <2>1 DEF Held
    <2>4. Phase(t)'
      BY <1>0, <2>1 DEF Sound, Phase
    <2>5. QED
      BY <1>0, <2>1, <2>2, <2>3, <2>4, Quiet
  <1>4. ASSUME NEW a \in Approval, NEW s \in Scan, ApproveResume(a, s) PROVE Sound(t)'
    BY <1>4, ApproveSound
  <1>5. ASSUME Sweep PROVE Sound(t)'
    BY <1>5, SweepSound
  <1>6. ASSUME Reload PROVE Sound(t)'
    <2>1. /\ pools' = pools /\ shared' = shared /\ now' = now
          /\ sweep'.at = "asleep" /\ \A a \in Approval : approval'[a] = NoApproval
      BY <1>6 DEF Reload, Asleep
    <2>2. CASE runner[t].at \in Active
      <3>1. runner'[t] = [runner[t] EXCEPT !.at = "killed", !.row = NoPool, !.todo = {}]
        BY <1>6, <2>2 DEF Reload
      <3>2. runner'[t].at = "killed" /\ runner'[t].row = NoPool
        BY <1>0, <3>1 DEF Runner
      <3>3. runner[t].at # "done"
        BY <2>2 DEF Active
      <3>4. Phase(t)'
        BY <3>2 DEF Phase
      <3>5. QED
        BY <1>0, <2>1, <3>2, <3>3, <3>4, Quiet
    <2>3. CASE runner[t].at \notin Active
      <3>1. runner'[t] = runner[t]
        BY <1>6, <2>3 DEF Reload
      <3>2. runner'[t].row \in Held(t) \cup {NoPool}
        BY <3>1 DEF Held
      <3>3. Phase(t)'
        BY <1>0, <2>1, <3>1 DEF Sound, Phase
      <3>4. QED
        BY <1>0, <2>1, <3>1, <3>2, <3>3, Quiet
    <2>4. QED
      BY <2>2, <2>3
  <1>7. ASSUME (\E x \in Spawn : Observe(x)) \/ Tick \/ UNCHANGED vars PROVE Sound(t)'
    <2>1. UNCHANGED <<pools, runner, approval, sweep, shared>> /\ now' \in Nat /\ now <= now'
      BY <1>0, <1>7 DEF Observe, Tick, vars
    <2>2. runner'[t].row \in Held(t) \cup {NoPool}
          /\ (sweep'.at = "read" => sweep'.snap[t] \in Held(t) \cup {NoPool})
      BY <2>1 DEF Held
    <2>3. Phase(t)'
      BY <1>0, <2>1 DEF Sound, Phase
    <2>4. QED
      BY <1>0, <2>1, <2>2, <2>3, Quiet
  <1>8. QED
    BY <1>1, <1>2, <1>2a, <1>3, <1>4, <1>5, <1>6, <1>7 DEF Next

LEMMA InitOutcome == Init => IInv /\ OutcomeInv
  <1> SUFFICES ASSUME Init PROVE IInv /\ OutcomeInv
    OBVIOUS
  <1>1. IInv
    BY DEF Init, IInv, HeldWhileRunning, NothingBeforeStart, NewRunner, Active, NoApproval, Asleep
  <1>2. ASSUME NEW s \in Scan PROVE Sound(s)
    <2>1. pools[s] = NoPool /\ runner[s].row = NoPool /\ runner[s].at = "none" /\ shared[s] = {}
      BY DEF Init, NewRunner
    <2>2. sweep.at = "asleep" /\ \A a \in Approval : approval[a] = NoApproval
      BY DEF Init, Asleep
    <2>3. Held(s) = {}
      BY <2>1, <2>2 DEF Held
    <2>4. QED
      BY <2>1, <2>2, <2>3 DEF Sound, Phase, Told, OneAge, DoomedIsStale, SharedIsFound
  <1>3. QED
    BY <1>1, <1>2 DEF OutcomeInv

LEMMA OutcomeCorrect == Spec => [](TypeOK /\ IInv /\ OutcomeInv)
  BY InitTypeOK, InitOutcome, StepTypeOK, StepIInv, StepOutcome, PTL DEF Spec

(* What getScanResults tells the requester is what the scan came to,       *)
(* whichever copies of its row were put back in between.                   *)
THEOREM StatusIsHonest == Spec => []StatusTellsOutcome
  <1>1. TypeOK /\ IInv /\ OutcomeInv => StatusTellsOutcome
    <2> SUFFICES ASSUME TypeOK, IInv, OutcomeInv, NEW s \in Scan, pools[s] # NoPool
                 PROVE  /\ Tells(s, pools[s])
                        /\ pools[s].status = "collecting" =>
                               runner[s].at \in Active \cup {"killed", "broken"}
      BY DEF StatusTellsOutcome, Tells
    <2>1. pools[s] \in Held(s)
      BY DEF Held
    <2>2. Tells(s, pools[s])
      BY <2>1 DEF OutcomeInv, Sound, Told
    <2>3. runner[s].at # "none"
      BY DEF IInv, NothingBeforeStart
    <2>4. pools[s].status = "collecting" => runner[s].at # "done"
      BY DEF OutcomeInv, Sound, Phase
    <2>5. runner[s].at \in Active \cup {"none", "done", "killed", "broken"}
      BY DEF TypeOK, Runner
    <2>6. QED
      BY <2>2, <2>3, <2>4, <2>5
  <1>2. QED
    BY <1>1, OutcomeCorrect, PTL

(* Approvals, however often and however late they write, publish nothing   *)
(* of a scan but what its runner ended with.                               *)
THEOREM SharesResults == Spec => []OnlyResultsShared
  <1>1. OutcomeInv => OnlyResultsShared
    BY DEF OutcomeInv, Sound, SharedIsFound, OnlyResultsShared
  <1>2. QED
    BY <1>1, OutcomeCorrect, PTL

(* Nothing but the discard tick takes a row out of the store. *)
LEMMA OnlyTheTickDiscards ==
    ASSUME TypeOK, [Next]_vars, NEW s \in Scan, pools[s] # NoPool, pools'[s] = NoPool
    PROVE  sweep.at = "deleting" /\ s \in sweep.doomed
  <1>1. ASSUME NEW t \in Scan, SweepDelete(t) PROVE sweep.at = "deleting" /\ s \in sweep.doomed
    BY <1>1 DEF SweepDelete, TypeOK
  <1>2. ASSUME NEW t \in Scan, NEW p \in Subscriber, Create(t, p) PROVE FALSE
    <2>1. [owner |-> p, created |-> now, status |-> "collecting", spawns |-> {}] \in Pool
      BY DEF Pool, TypeOK
    <2>2. QED
      BY <1>2, <2>1, NoPoolAssumption DEF Create, TypeOK
  <1>3. ASSUME NEW a \in Approval, NEW t \in Scan, ApproveResume(a, t) PROVE FALSE
    <2>1. approval[a].row \in Pool
      BY <1>3, Shapes DEF ApproveResume
    <2>2. [approval[a].row EXCEPT !.status = "broadcast"] \in Pool
      BY <2>1 DEF Pool
    <2>3. QED
      BY <1>3, <2>2, NoPoolAssumption DEF ApproveResume, TypeOK
  <1>4. ASSUME NEW t \in Scan, RunnerStep(t) PROVE FALSE
    <2>1. CASE WritePool(t)
      <3>1. runner[t] \in Runner
        BY DEF TypeOK
      <3>2. runner[t].row # NoPool => Settled(runner[t]) \in Pool
        BY <3>1 DEF Runner, Settled, Pool
      <3>3. QED
        BY <2>1, <3>2, NoPoolAssumption DEF WritePool, TypeOK
    <2>2. CASE ~ WritePool(t)
      BY <1>4, <2>2 DEF RunnerStep, Retry, GiveUp, Reimbursed, Answer, Filter, ReadPool
    <2>3. QED
      BY <2>1, <2>2
  <1>5. QED
    BY <1>1, <1>2, <1>3, <1>4
       DEF Next, vars, Throw, ApproveRead, Observe, Sweep, SweepRead, SweepDecide, SweepEnd, Reload, Tick

(* A row the tick has read, or means to delete, as finished is so still,   *)
(* unless it has been approved under the tick.                             *)
Sighted(s) ==
    LET Finished == pools[s] = NoPool \/ pools[s].status \in {"pending", "failed"}
    IN  /\ sweep.at = "deleting" /\ s \in sweep.doomed => Finished \/ s \in sweep.approved
        /\ sweep.at = "read" /\ sweep.snap[s] # NoPool /\ sweep.snap[s].status \in {"pending", "failed"} =>
               Finished \/ s \in sweep.approved

SightInv == \A s \in Scan : Sighted(s)

LEMMA StepSight == TypeOK /\ IInv /\ SightInv /\ [Next]_vars => SightInv'
  <1> SUFFICES ASSUME TypeOK, IInv, SightInv, [Next]_vars, NEW t \in Scan PROVE Sighted(t)'
    BY DEF SightInv
  <1>0. Sighted(t)
    BY DEF SightInv
  <1>1. ASSUME sweep' = sweep, pools'[t] = pools[t] PROVE Sighted(t)'
    BY <1>0, <1>1 DEF Sighted
  <1>2. ASSUME NEW s \in Scan, NEW p \in Subscriber, Create(s, p) PROVE Sighted(t)'
    <2>1. CASE t # s
      BY <1>1, <1>2, <2>1 DEF Create, TypeOK
    <2>2. CASE t = s
      <3>1. runner[t].at = "none" /\ sweep' = sweep
        BY <1>2, <2>2 DEF Create, NewRunner
      <3>2. /\ sweep.at = "read" => sweep.snap[t] = NoPool
            /\ sweep.at = "deleting" => t \notin sweep.doomed
        BY <3>1 DEF IInv, NothingBeforeStart
      <3>3. QED
        BY <3>1, <3>2 DEF Sighted
    <2>3. QED
      BY <2>1, <2>2
  <1>3. ASSUME NEW s \in Scan, RunnerStep(s) PROVE Sighted(t)'
    <2>1. CASE ~ WritePool(s) \/ t # s
      BY <1>1, <1>3, <2>1
         DEF RunnerStep, Retry, GiveUp, Reimbursed, Answer, Filter, ReadPool, WritePool, TypeOK
    <2>2. CASE WritePool(s) /\ t = s
      <3>1. runner[s].row \in Pool \cup {NoPool}
        BY DEF TypeOK, Runner
      <3>2. runner[s].row # NoPool => Settled(runner[s]).status \in {"pending", "failed"}
        BY <3>1 DEF Settled, Pool
      <3>3. pools'[t] = pools[t] \/ pools'[t].status \in {"pending", "failed"}
        BY <2>2, <3>2 DEF WritePool, TypeOK
      <3>4. sweep' = sweep
        BY <2>2 DEF WritePool
      <3>5. QED
        BY <1>0, <3>3, <3>4 DEF Sighted
    <2>3. QED
      BY <2>1, <2>2
  <1>4. ASSUME NEW a \in Approval, NEW s \in Scan, ApproveResume(a, s) PROVE Sighted(t)'
    <2>1. /\ sweep'.at = sweep.at
          /\ sweep.at = "read" => sweep'.snap = sweep.snap
          /\ sweep.at = "deleting" => sweep'.doomed = sweep.doomed
          /\ sweep.at \in {"read", "deleting"} => sweep'.approved = sweep.approved \cup {s}
      BY <1>4, ResumeSweep
    <2>2. t # s => pools'[t] = pools[t]
      BY <1>4 DEF ApproveResume, TypeOK
    <2>3. QED
      BY <1>0, <2>1, <2>2 DEF Sighted
  <1>5. ASSUME Sweep PROVE Sighted(t)'
    <2>1. CASE SweepRead
      BY <2>1 DEF SweepRead, Sighted
    <2>2. CASE SweepDecide
      <3>1. /\ sweep.at = "read" /\ sweep'.at = "deleting" /\ pools' = pools
            /\ sweep'.doomed = {s \in Scan : Stale(sweep.snap[s])}
            /\ sweep'.approved = sweep.approved
        BY <2>2 DEF SweepDecide
      <3>2. Stale(sweep.snap[t]) => sweep.snap[t] # NoPool /\ sweep.snap[t].status \in {"pending", "failed"}
        BY DEF Stale
      <3>3. QED
        BY <1>0, <3>1, <3>2 DEF Sighted
    <2>3. ASSUME NEW s \in Scan, SweepDelete(s) PROVE Sighted(t)'
      <3>1. sweep \in [at: {"deleting"}, doomed: SUBSET Scan, approved: SUBSET Scan]
        BY <2>3 DEF SweepDelete, TypeOK, Asleep
      <3>2. sweep'.at = "deleting" /\ sweep'.doomed \subseteq sweep.doomed /\ sweep'.approved = sweep.approved
        BY <2>3, <3>1 DEF SweepDelete
      <3>3. pools'[t] \in {pools[t], NoPool}
        BY <2>3 DEF SweepDelete, TypeOK
      <3>4. QED
        BY <1>0, <3>1, <3>2, <3>3 DEF Sighted
    <2>4. CASE SweepEnd
      BY <2>4 DEF SweepEnd, Asleep, Sighted
    <2>5. QED
      BY <1>5, <2>1, <2>2, <2>3, <2>4 DEF Sweep
  <1>6. ASSUME Reload PROVE Sighted(t)'
    BY <1>6 DEF Reload, Asleep, Sighted
  <1>7. QED
    BY <1>1, <1>2, <1>3, <1>4, <1>5, <1>6 DEF Next, vars, Throw, ApproveRead, Observe, Tick

(* The discard tick, working from a snapshot, takes no row before its      *)
(* time, and the record of an approved scan only when the approval came    *)
(* between its look at the pools and its delete.                           *)
THEOREM DiscardsStale == Spec => DiscardOnlyStale
  <1> DEFINE Fair(s) == pools[s] # NoPool /\ pools'[s] = NoPool =>
                /\ now - pools[s].created >= Grace
                /\ pools[s].status # "collecting"
                /\ \A x \in pools[s].spawns : ~ Live(x)
                /\ pools[s].status = "broadcast" => s \in sweep.approved
  <1>1. Init => SightInv
    BY DEF Init, Asleep, SightInv, Sighted
  <1>2. Spec => []SightInv
    BY <1>1, StepSight, OutcomeCorrect, PTL DEF Spec
  <1>3. TypeOK /\ IInv /\ OutcomeInv /\ SightInv /\ [Next]_vars => [\A s \in Scan : Fair(s)]_vars
    <2> SUFFICES ASSUME TypeOK, IInv, OutcomeInv, SightInv, [Next]_vars, NEW s \in Scan,
                        pools[s] # NoPool, pools'[s] = NoPool
                 PROVE  Fair(s)
      OBVIOUS
    <2>1. pools[s] \in Held(s) /\ pools[s] \in Pool /\ Sound(s)
      BY DEF Held, TypeOK, OutcomeInv
    <2>2. sweep.at = "deleting" /\ s \in sweep.doomed
      BY OnlyTheTickDiscards
    <2>3. pools[s].status = "broadcast" => s \in sweep.approved
      BY <2>2 DEF SightInv, Sighted
    <2>4. QED
      BY <2>1, <2>2, <2>3 DEF Sound, DoomedIsStale, Phase
  <1>4. QED
    BY <1>2, <1>3, OutcomeCorrect, PTL DEF Spec, DiscardOnlyStale
-----------------------------------------------------------------------------

(* Each step of the service is a step of the ledger, or none of its steps. *)
LEMMA LedgerStep == [ServiceNext]_serviceVars => [Ledger!Next]_(Ledger!vars)
  <1> SUFFICES ASSUME [ServiceNext]_serviceVars PROVE Ledger!Next \/ UNCHANGED Ledger!vars
    OBVIOUS
  <1>1. ASSUME NEW c \in Call, NEW p \in Subscriber, Request(c, p) PROVE Ledger!Next
    BY <1>1 DEF Request, Ledger!Next
  <1>2. ASSUME NEW c \in Call, Respond(c) PROVE Ledger!Next
    BY <1>2 DEF Respond, Ledger!Next
  <1>3. ASSUME NEW p \in Subscriber, RemoveSubscriber(p) PROVE Ledger!Next
    BY <1>3 DEF RemoveSubscriber, Ledger!Next
  <1>4. ASSUME NEW s \in Scan, ScanStep(s) PROVE Ledger!Next \/ UNCHANGED Ledger!vars
    <2>1. CASE Start(s)
      BY <2>1 DEF Start, Create, ledgerVars, Ledger!vars
    <2>2. CASE Serve(s)
      BY <2>2 DEF Serve, Ledger!Next
    <2>3. CASE Fail(s)
      BY <2>3 DEF Fail, Ledger!Next
    <2>4. CASE Reimburse(s)
      BY <2>4 DEF Reimburse, Ledger!Next
    <2>5. CASE RunPool(s)
      BY <2>5 DEF RunPool, Retry, Answer, ReadPool, WritePool, Filter, ledgerVars, Ledger!vars
    <2>6. QED
      BY <1>4, <2>1, <2>2, <2>3, <2>4, <2>5 DEF ScanStep
  <1>4a. ASSUME NEW s \in Scan, Break(s) \/ StartFails(s) PROVE Ledger!Next \/ UNCHANGED Ledger!vars
    BY <1>4a DEF Break, Throw, StartFails, ledgerVars, Ledger!vars, Ledger!Next
  <1>5. ASSUME NEW a \in Approval, NEW s \in Scan, Approve(a, s) PROVE UNCHANGED Ledger!vars
    BY <1>5 DEF Approve, ApproveRead, ApproveResume, ledgerVars, Ledger!vars
  <1>6. ASSUME NEW x \in Spawn, Discover(x) PROVE UNCHANGED Ledger!vars
    BY <1>6 DEF Discover, Observe, ledgerVars, Ledger!vars
  <1>7. CASE Discard
    BY <1>7 DEF Discard, Sweep, SweepRead, SweepDecide, SweepDelete, SweepEnd, ledgerVars, Ledger!vars
  <1>8. CASE ReloadPage \/ Pass
    BY <1>8 DEF ReloadPage, Pass, Ledger!Next
  <1>9. CASE UNCHANGED serviceVars
    BY <1>9 DEF serviceVars, Ledger!vars
  <1>10. QED
    BY <1>1, <1>2, <1>3, <1>4, <1>4a, <1>5, <1>6, <1>7, <1>8, <1>9 DEF ServiceNext

(* Whatever the pools, their runners and approvals do, the ledger is       *)
(* charged and refunded as it is on its own: what ScanLedgerProofs shows   *)
(* of it holds of the service.                                             *)
THEOREM LedgerImplemented == ServiceSpec => ImplementsLedger
  <1>1. ServiceInit => Ledger!Init
    BY DEF ServiceInit
  <1>2. QED
    BY <1>1, LedgerStep, PTL DEF ServiceSpec, ImplementsLedger, Ledger!Spec
-----------------------------------------------------------------------------

(* What the two halves share of the ledger: who a handler and a scan       *)
(* belong to.                                                              *)
Entry(s) ==
    \/ scan[s] = Ledger!Free
    \/ /\ scan[s].st # "free" /\ scan[s].pk \in Subscriber
       /\ scan[s] = [st |-> scan[s].st, pk |-> scan[s].pk, row |-> scan[s].row]

Entries ==
    /\ call = [c \in Call |-> call[c]] /\ scan = [s \in Scan |-> scan[s]]
    /\ \A c \in Call : call[c].op # "idle" => call[c].pk \in Subscriber
    /\ \A s \in Scan : Entry(s)

(* What the ledger has written of a scan, told by where its runner is.     *)
Stage(s) ==
    LET at == runner[s].at
        st == scan[s].st
    IN  /\ at = "none" => st \in {"free", "charged", "lost"}
        /\ at = "searching" => st = "charged"
        /\ at = "refunding" => st = "refunding"
        /\ at = "filtering" => st = "charged"
        /\ at = "reimbursed" => st = "refunded"
        /\ at \in {"writing", "done"} =>
              \/ runner[s].result = "pending" /\ st = IF at = "done" THEN "served" ELSE "charged"
              \/ runner[s].result = "failed" /\ st = "refunded"
        /\ at \in {"killed", "broken"} => st \in {"refunded", "lost"}

(* Every copy of a scan's row names the subscriber who was charged. *)
Owned(s) == \A row \in Held(s) : scan[s] # Ledger!Free /\ row.owner = scan[s].pk

(* Only an answer finds anything. *)
Fruitless(s) ==
    runner[s].at \in {"none", "searching", "refunding", "reimbursed"} \/ runner[s].result = "failed" =>
        runner[s].found = {}

ServiceInv ==
    /\ TypeOK /\ IInv /\ OutcomeInv /\ Entries
    /\ \A s \in Scan : Stage(s) /\ Owned(s) /\ Fruitless(s)

LEMMA CallEntry ==
    ASSUME Entries, NEW c \in Call, NEW new, call' = [call EXCEPT ![c] = new], scan' = scan,
           new.op # "idle" => new.pk \in Subscriber
    PROVE  Entries'
  <1>1. call' = [d \in Call |-> call'[d]]
    BY DEF Entries
  <1>2. \A d \in Call : call'[d] = IF d = c THEN new ELSE call[d]
    BY DEF Entries
  <1>3. \A d \in Call : call'[d].op # "idle" => call'[d].pk \in Subscriber
    BY <1>2 DEF Entries
  <1>4. QED
    BY <1>1, <1>3 DEF Entries, Entry

LEMMA ScanEntry ==
    ASSUME Entries, NEW s \in Scan, Entry(s)',
           scan' = [t \in Scan |-> scan'[t]], \A t \in Scan \ {s} : scan'[t] = scan[t],
           call' = [d \in Call |-> call'[d]],
           \A d \in Call : call'[d].op # "idle" => call'[d].pk \in Subscriber
    PROVE  Entries'
  <1>1. \A t \in Scan : Entry(t)'
    BY DEF Entries, Entry
  <1>2. QED
    BY <1>1 DEF Entries

(* The answer and the refund of a scan: the subscriber stays. *)
LEMMA RunnerEntry ==
    ASSUME Entries, NEW s \in Scan, Ledger!Serve(s) \/ Ledger!RefundRead(s) \/ Ledger!RefundResume(s)
    PROVE  /\ Entries'
           /\ scan[s] # Ledger!Free /\ scan'[s] # Ledger!Free /\ scan'[s].pk = scan[s].pk
           /\ \A t \in Scan \ {s} : scan'[t] = scan[t]
           /\ Ledger!Serve(s) => scan[s].st = "charged" /\ scan'[s].st = "served"
           /\ Ledger!RefundRead(s) => scan[s].st = "charged" /\ scan'[s].st = "refunding"
           /\ Ledger!RefundResume(s) => scan[s].st = "refunding" /\ scan'[s].st = "refunded"
  <1>1. scan[s].st \in {"charged", "refunding"} /\ UNCHANGED call
    BY DEF Ledger!Serve, Ledger!RefundRead, Ledger!RefundResume
  <1>2. scan[s] # Ledger!Free
    BY <1>1 DEF Ledger!Free
  <1>3. scan[s] = [st |-> scan[s].st, pk |-> scan[s].pk, row |-> scan[s].row] /\ scan[s].pk \in Subscriber
    BY <1>2 DEF Entries, Entry
  <1>4. /\ scan' = [t \in Scan |-> scan'[t]]
        /\ \A t \in Scan \ {s} : scan'[t] = scan[t]
    BY DEF Entries, Ledger!Serve, Ledger!RefundRead, Ledger!RefundResume
  <1>5. CASE Ledger!Serve(s)
    <2>1. scan'[s] = [scan[s] EXCEPT !.st = "served"]
      BY <1>5 DEF Entries, Ledger!Serve
    <2>2. scan'[s] = [st |-> "served", pk |-> scan[s].pk, row |-> scan[s].row]
      BY <1>3, <2>1
    <2>3. scan'[s].st = "served" /\ scan'[s].pk = scan[s].pk
      BY <2>2
    <2>4. Entry(s)' /\ scan'[s] # Ledger!Free
      BY <1>3, <2>2, <2>3 DEF Entry, Ledger!Free
    <2>5. Entries'
      BY <1>1, <1>4, <2>4, ScanEntry DEF Entries
    <2>6. scan[s].st = "charged" /\ ~ Ledger!RefundResume(s) /\ ~ Ledger!RefundRead(s)
      BY <1>3, <1>5, <2>3 DEF Ledger!Serve, Ledger!RefundResume, Ledger!RefundRead, Entries
    <2>7. QED
      BY <1>2, <1>4, <2>3, <2>4, <2>5, <2>6
  <1>6. CASE Ledger!RefundRead(s)
    <2>1. PICK read : scan'[s] = [scan[s] EXCEPT !.st = "refunding", !.row = read]
      BY <1>6 DEF Entries, Ledger!RefundRead
    <2>2. scan'[s] = [st |-> "refunding", pk |-> scan[s].pk, row |-> read]
      BY <1>3, <2>1
    <2>3. scan'[s].st = "refunding" /\ scan'[s].pk = scan[s].pk
      BY <2>2
    <2>4. Entry(s)' /\ scan'[s] # Ledger!Free
      BY <1>3, <2>2, <2>3 DEF Entry, Ledger!Free
    <2>5. Entries'
      BY <1>1, <1>4, <2>4, ScanEntry DEF Entries
    <2>6. scan[s].st = "charged" /\ ~ Ledger!RefundResume(s) /\ ~ Ledger!Serve(s)
      BY <1>3, <1>6, <2>3 DEF Ledger!Serve, Ledger!RefundResume, Ledger!RefundRead, Entries
    <2>7. QED
      BY <1>2, <1>4, <1>6, <2>3, <2>4, <2>5, <2>6
  <1>7. CASE Ledger!RefundResume(s)
    <2>1. scan'[s] = [scan[s] EXCEPT !.st = "refunded", !.row = NoRow]
      BY <1>7 DEF Entries, Ledger!RefundResume
    <2>2. scan'[s] = [st |-> "refunded", pk |-> scan[s].pk, row |-> NoRow]
      BY <1>3, <2>1
    <2>3. scan'[s].st = "refunded" /\ scan'[s].pk = scan[s].pk
      BY <2>2
    <2>4. Entry(s)' /\ scan'[s] # Ledger!Free
      BY <1>3, <2>2, <2>3 DEF Entry, Ledger!Free
    <2>5. Entries'
      BY <1>1, <1>4, <2>4, ScanEntry DEF Entries
    <2>6. scan[s].st = "refunding" /\ ~ Ledger!RefundRead(s) /\ ~ Ledger!Serve(s)
      BY <1>7 DEF Ledger!Serve, Ledger!RefundResume, Ledger!RefundRead
    <2>7. QED
      BY <1>2, <1>4, <1>7, <2>3, <2>4, <2>5, <2>6
  <1>8. QED
    BY <1>5, <1>6, <1>7

(* What throws loses its charge, and the subscriber stays. *)
LEMMA LoseEntry ==
    ASSUME Entries, NEW s \in Scan, Ledger!Lose(s)
    PROVE  /\ Entries'
           /\ scan[s] # Ledger!Free /\ scan'[s] # Ledger!Free /\ scan'[s].pk = scan[s].pk
           /\ scan'[s].st = "lost"
           /\ \A t \in Scan \ {s} : scan'[t] = scan[t]
  <1>1. scan[s].st \in {"charged", "refunding"} /\ UNCHANGED call
    BY DEF Ledger!Lose
  <1>2. scan[s] # Ledger!Free
    BY <1>1 DEF Ledger!Free
  <1>3. scan[s] = [st |-> scan[s].st, pk |-> scan[s].pk, row |-> scan[s].row] /\ scan[s].pk \in Subscriber
    BY <1>2 DEF Entries, Entry
  <1>4. /\ scan' = [t \in Scan |-> scan'[t]]
        /\ \A t \in Scan \ {s} : scan'[t] = scan[t]
        /\ scan'[s] = [scan[s] EXCEPT !.st = "lost", !.row = NoRow]
    BY DEF Entries, Ledger!Lose
  <1>5. scan'[s] = [st |-> "lost", pk |-> scan[s].pk, row |-> NoRow]
    BY <1>3, <1>4
  <1>6. scan'[s].st = "lost" /\ scan'[s].pk = scan[s].pk
    BY <1>5
  <1>7. Entry(s)' /\ scan'[s] # Ledger!Free
    BY <1>3, <1>5, <1>6 DEF Entry, Ledger!Free
  <1>8. Entries'
    BY <1>1, <1>4, <1>7, ScanEntry DEF Entries
  <1>9. QED
    BY <1>2, <1>4, <1>6, <1>7, <1>8

(* A page load ends every handler, and gives up what it was waiting for. *)
LEMMA ReloadEntry ==
    ASSUME Entries, Ledger!Reload
    PROVE  /\ Entries'
           /\ \A s \in Scan :
                 /\ scan[s] # Ledger!Free => scan'[s] # Ledger!Free /\ scan'[s].pk = scan[s].pk
                 /\ scan[s].st \in {"charged", "refunding"} => scan'[s].st = "lost"
                 /\ scan[s].st \notin {"charged", "refunding"} => scan'[s] = scan[s]
  <1>1. ASSUME NEW s \in Scan
        PROVE  /\ Entry(s)'
               /\ scan[s] # Ledger!Free => scan'[s] # Ledger!Free /\ scan'[s].pk = scan[s].pk
               /\ scan[s].st \in {"charged", "refunding"} => scan'[s].st = "lost"
               /\ scan[s].st \notin {"charged", "refunding"} => scan'[s] = scan[s]
    <2>1. CASE scan[s].st \in {"charged", "refunding"}
      <3>1. /\ scan[s].pk \in Subscriber
            /\ scan[s] = [st |-> scan[s].st, pk |-> scan[s].pk, row |-> scan[s].row]
        BY <2>1 DEF Entries, Entry, Ledger!Free
      <3>2. scan'[s] = [scan[s] EXCEPT !.st = "lost", !.row = NoRow]
        BY <2>1 DEF Ledger!Reload
      <3>3. scan'[s] = [st |-> "lost", pk |-> scan[s].pk, row |-> NoRow]
        BY <3>1, <3>2
      <3>4. scan'[s].st = "lost" /\ scan'[s].pk = scan[s].pk
        BY <3>3
      <3>5. scan'[s] # Ledger!Free
        BY <3>4 DEF Ledger!Free
      <3>6. QED
        BY <2>1, <3>1, <3>3, <3>4, <3>5 DEF Entry
    <2>2. CASE scan[s].st \notin {"charged", "refunding"}
      <3>1. scan'[s] = scan[s]
        BY <2>2 DEF Ledger!Reload
      <3>2. QED
        BY <2>2, <3>1 DEF Entries, Entry
    <2>3. QED
      BY <2>1, <2>2
  <1>2. scan' = [s \in Scan |-> scan'[s]] /\ call' = [c \in Call |-> Ledger!Idle]
    BY DEF Ledger!Reload
  <1>3. \A c \in Call : call'[c].op = "idle"
    BY <1>2 DEF Ledger!Idle
  <1>4. call' = [c \in Call |-> call'[c]]
    BY <1>2
  <1>5. QED
    BY <1>1, <1>2, <1>3, <1>4 DEF Entries

LEMMA StepEntries == Entries /\ [Ledger!Next]_(Ledger!vars) => Entries'
  <1> SUFFICES ASSUME Entries, [Ledger!Next]_(Ledger!vars) PROVE Entries'
    OBVIOUS
  <1>0. "authorize" # "idle" /\ "check" # "idle" /\ "set" # "idle"
    OBVIOUS
  <1>1. ASSUME NEW c \in Call, NEW p \in Subscriber, NEW op, Ledger!Read(c, op, p) PROVE Entries'
    <2>1. PICK new : new = [op |-> op, pk |-> p, row |-> subs[p]]
      OBVIOUS
    <2>2. new.pk \in Subscriber
      BY <2>1
    <2>3. call' = [call EXCEPT ![c] = new] /\ scan' = scan
      BY <1>1, <2>1 DEF Ledger!Read
    <2>4. QED
      BY <2>2, <2>3, CallEntry
  <1>2. ASSUME NEW c \in Call, Ledger!Finish(c), scan' = scan PROVE Entries'
    <2>1. PICK new : new = Ledger!Idle
      OBVIOUS
    <2>2. new.op = "idle"
      BY <2>1 DEF Ledger!Idle
    <2>3. call' = [call EXCEPT ![c] = new]
      BY <1>2, <2>1 DEF Ledger!Finish
    <2>4. QED
      BY <1>2, <2>2, <2>3, CallEntry
  <1>3. ASSUME NEW c \in Call, NEW s \in Scan, Ledger!AuthorizeCharge(c, s) PROVE Entries'
    <2>1. call[c].pk \in Subscriber
      BY <1>3 DEF Ledger!AuthorizeCharge, Entries
    <2>2. call' = [call EXCEPT ![c] = Ledger!Idle] /\ Ledger!Idle.op = "idle"
      BY <1>3 DEF Ledger!AuthorizeCharge, Ledger!Finish, Ledger!Idle
    <2>3. call' = [d \in Call |-> call'[d]]
      BY <2>2 DEF Entries
    <2>4. \A d \in Call : call'[d] = call[d] \/ call'[d].op = "idle"
      BY <2>2 DEF Entries
    <2>5. \A d \in Call : call'[d].op # "idle" => call'[d].pk \in Subscriber
      BY <2>4 DEF Entries
    <2>6. scan' = [scan EXCEPT ![s] = [st |-> "charged", pk |-> call[c].pk, row |-> NoRow]]
      BY <1>3 DEF Ledger!AuthorizeCharge
    <2>7. /\ scan' = [t \in Scan |-> scan'[t]] /\ \A t \in Scan \ {s} : scan'[t] = scan[t]
          /\ scan'[s] = [st |-> "charged", pk |-> call[c].pk, row |-> NoRow]
      BY <2>6 DEF Entries
    <2>8. Entry(s)'
      BY <2>1, <2>7 DEF Entry
    <2>9. QED
      BY <2>3, <2>5, <2>7, <2>8, ScanEntry
  <1>4. ASSUME NEW s \in Scan, Ledger!Serve(s) \/ Ledger!RefundRead(s) \/ Ledger!RefundResume(s)
        PROVE  Entries'
    BY <1>4, RunnerEntry
  <1>4a. ASSUME NEW s \in Scan, Ledger!Lose(s) PROVE Entries'
    BY <1>4a, LoseEntry
  <1>5. ASSUME UNCHANGED <<call, scan>> PROVE Entries'
    BY <1>5 DEF Entries, Entry
  <1>6. ASSUME Ledger!Reload PROVE Entries'
    BY <1>6, ReloadEntry
  <1>7. QED
    BY <1>1, <1>2, <1>3, <1>4, <1>4a, <1>5, <1>6
       DEF Ledger!Next, Ledger!vars, Ledger!AuthorizeRead, Ledger!CheckRead, Ledger!SetRead,
           Ledger!AuthorizeReject, Ledger!CheckResume, Ledger!SetReject, Ledger!SetResume,
           Ledger!Remove, Ledger!Tick

(* Each step of the service is a step of the pools, or none of its steps:  *)
(* a request starts a scan only for a subscriber the ledger has charged.   *)
LEMMA PoolsStep == Entries /\ [ServiceNext]_serviceVars => [Next]_vars
  <1> SUFFICES ASSUME Entries, [ServiceNext]_serviceVars PROVE Next \/ UNCHANGED vars
    OBVIOUS
  <1>1. ASSUME NEW c \in Call, NEW p \in Subscriber, Request(c, p) PROVE UNCHANGED vars
    BY <1>1 DEF Request, Ledger!AuthorizeRead, Ledger!CheckRead, Ledger!SetRead, Ledger!Read, poolVars, vars
  <1>2. ASSUME NEW c \in Call, Respond(c) PROVE UNCHANGED vars
    BY <1>2 DEF Respond, Ledger!AuthorizeReject, Ledger!CheckResume, Ledger!SetReject,
                Ledger!SetResume, Ledger!AuthorizeCharge, poolVars, vars
  <1>3. ASSUME NEW p \in Subscriber, RemoveSubscriber(p) PROVE UNCHANGED vars
    BY <1>3 DEF RemoveSubscriber, Ledger!Remove, poolVars, vars
  <1>4. ASSUME NEW s \in Scan, ScanStep(s) PROVE Next
    <2>1. CASE Start(s)
      <3>1. scan[s].pk \in Subscriber
        BY <2>1 DEF Start, Entries, Entry, Ledger!Free
      <3>2. QED
        BY <2>1, <3>1 DEF Start, Next
    <2>2. CASE RunPool(s)
      BY <2>2 DEF RunPool, RunnerStep, Next
    <2>3. CASE Serve(s) \/ Fail(s) \/ Reimburse(s)
      BY <2>3 DEF Serve, Fail, Reimburse, RunnerStep, Next
    <2>4. QED
      BY <1>4, <2>1, <2>2, <2>3 DEF ScanStep
  <1>4a. ASSUME NEW s \in Scan, Break(s) \/ StartFails(s) PROVE Next \/ UNCHANGED vars
    BY <1>4a DEF Break, StartFails, Ledger!Lose, Next, poolVars, vars
  <1>5. ASSUME NEW a \in Approval, NEW s \in Scan, Approve(a, s) PROVE Next
    BY <1>5 DEF Approve, Next
  <1>6. ASSUME NEW x \in Spawn, Discover(x) PROVE Next
    BY <1>6 DEF Discover, Next
  <1>7. CASE Discard \/ ReloadPage \/ Pass
    BY <1>7 DEF Discard, ReloadPage, Pass, Next
  <1>8. CASE UNCHANGED serviceVars
    BY <1>8 DEF serviceVars, vars
  <1>9. QED
    BY <1>1, <1>2, <1>3, <1>4, <1>4a, <1>5, <1>6, <1>7, <1>8 DEF ServiceNext

LEMMA StepFruitless ==
    ASSUME TypeOK, OutcomeInv, \A s \in Scan : Fruitless(s), [Next]_vars
    PROVE  \A s \in Scan : Fruitless(s)'
  <1> SUFFICES ASSUME NEW s \in Scan PROVE Fruitless(s)'
    OBVIOUS
  <1>0. runner[s] \in Runner /\ Fruitless(s) /\ Phase(s)
    BY DEF TypeOK, OutcomeInv, Sound
  <1>1. ASSUME NEW t \in Scan, NEW p \in Subscriber, Create(t, p) PROVE Fruitless(s)'
    <2>1. t = s => runner[s].at = "none" /\ runner'[s].found = runner[s].found
      BY <1>1 DEF Create, NewRunner, TypeOK, Runner
    <2>2. t # s => runner'[s] = runner[s]
      BY <1>1 DEF Create, TypeOK
    <2>3. QED
      BY <1>0, <2>1, <2>2 DEF Fruitless
  <1>2. ASSUME NEW t \in Scan, RunnerStep(t) PROVE Fruitless(s)'
    <2>1. CASE t # s
      <3>1. runner'[s] = runner[s]
        BY <1>2, <2>1
           DEF RunnerStep, Retry, GiveUp, Reimbursed, Answer, Filter, ReadPool, WritePool, TypeOK
      <3>2. QED
        BY <1>0, <3>1 DEF Fruitless
    <2>2. CASE t = s
      <3> USE DEF TypeOK, Runner, Fruitless
      <3>1. CASE Retry(s)
        BY <1>0, <3>1 DEF Retry
      <3>2. CASE GiveUp(s)
        BY <1>0, <3>2 DEF GiveUp
      <3>3. CASE Reimbursed(s)
        BY <1>0, <3>3 DEF Reimbursed
      <3>4. ASSUME NEW records \in SUBSET Spawn, Answer(s, records) PROVE Fruitless(s)'
        BY <1>0, <3>4 DEF Answer
      <3>5. ASSUME NEW x \in Spawn, Filter(s, x) PROVE Fruitless(s)'
        BY <1>0, <3>5 DEF Filter, Phase
      <3>6. CASE ReadPool(s)
        BY <1>0, <3>6 DEF ReadPool, Phase
      <3>7. CASE WritePool(s)
        BY <1>0, <3>7 DEF WritePool
      <3>8. QED
        BY <1>2, <2>2, <3>1, <3>2, <3>3, <3>4, <3>5, <3>6, <3>7 DEF RunnerStep
    <2>3. QED
      BY <2>1, <2>2
  <1>2a. ASSUME NEW t \in Scan, Throw(t) PROVE Fruitless(s)'
    <2>1. t # s => runner'[s] = runner[s]
      BY <1>2a DEF Throw, TypeOK
    <2>2. t = s => runner'[s] = [runner[s] EXCEPT !.at = "broken", !.row = NoPool, !.todo = {}]
      BY <1>2a DEF Throw, TypeOK
    <2>3. QED
      BY <1>0, <2>1, <2>2 DEF Fruitless, Runner
  <1>3. CASE Reload
    <2>1. CASE runner[s].at \in Active
      <3>1. runner'[s] = [runner[s] EXCEPT !.at = "killed", !.row = NoPool, !.todo = {}]
        BY <1>3, <2>1 DEF Reload
      <3>2. QED
        BY <1>0, <3>1 DEF Fruitless, Runner
    <2>2. CASE runner[s].at \notin Active
      BY <1>0, <1>3, <2>2 DEF Reload, Fruitless
    <2>3. QED
      BY <2>1, <2>2
  <1>4. CASE UNCHANGED runner
    BY <1>0, <1>4 DEF Fruitless
  <1>5. QED
    BY <1>1, <1>2, <1>2a, <1>3, <1>4
       DEF Next, vars, ApproveRead, ApproveResume, Observe, Tick,
           Sweep, SweepRead, SweepDecide, SweepDelete, SweepEnd

LEMMA InitService == ServiceInit => ServiceInv
  <1> SUFFICES ASSUME ServiceInit PROVE ServiceInv
    OBVIOUS
  <1>1. TypeOK /\ IInv /\ OutcomeInv
    BY InitTypeOK, InitOutcome DEF ServiceInit
  <1>2. Entries
    BY DEF ServiceInit, Ledger!Init, Ledger!Idle, Entries, Entry
  <1>3. ASSUME NEW s \in Scan PROVE Stage(s) /\ Owned(s) /\ Fruitless(s)
    <2>1. runner[s].at = "none" /\ runner[s].found = {} /\ scan[s].st = "free"
      BY DEF ServiceInit, Init, NewRunner, Ledger!Init, Ledger!Free
    <2>2. pools[s] = NoPool /\ runner[s].row = NoPool
      BY DEF ServiceInit, Init, NewRunner
    <2>3. sweep.at = "asleep" /\ \A a \in Approval : approval[a] = NoApproval
      BY DEF ServiceInit, Init, Asleep
    <2>4. Held(s) = {}
      BY <2>2, <2>3 DEF Held
    <2>5. QED
      BY <2>1, <2>4 DEF Stage, Owned, Fruitless
  <1>4. QED
    BY <1>1, <1>2, <1>3 DEF ServiceInv

(* A row is put by the request that made it or by whoever read a copy: no  *)
(* step gives it to another subscriber.                                    *)
LEMMA RowsKeepOwner ==
    ASSUME TypeOK, [Next]_vars, NEW s \in Scan, NEW row \in Held(s)'
    PROVE  \/ \E old \in Held(s) : old.owner = row.owner
           \/ \E p \in Subscriber : Create(s, p) /\ row.owner = p
  <1>0. row # NoPool
    BY DEF Held
  <1>1. CASE row \in Held(s)
    BY <1>1
  <1>2. ASSUME NEW t \in Scan, NEW p \in Subscriber, Create(t, p), row \notin Held(s)
        PROVE  t = s /\ row.owner = p
    <2>1. UNCHANGED <<approval, sweep>> /\ runner'[s].row = runner[s].row
      BY <1>2 DEF Create, TypeOK, Runner
    <2>2. row = pools'[s] /\ pools'[s] # pools[s]
      BY <1>2, <2>1 DEF Held
    <2>3. t = s /\ row = [owner |-> p, created |-> now, status |-> "collecting", spawns |-> {}]
      BY <1>2, <2>2 DEF Create, TypeOK
    <2>4. QED
      BY <2>3
  <1>3. ASSUME NEW t \in Scan, RunnerStep(t), row \notin Held(s)
        PROVE  \E old \in Held(s) : old.owner = row.owner
    <2>1. UNCHANGED <<approval, sweep>>
      BY <1>3 DEF RunnerStep, Retry, GiveUp, Reimbursed, Answer, Filter, ReadPool, WritePool
    <2>2. runner'[s].row \in {runner[s].row, pools[s], NoPool}
      <3>1. CASE t # s
        BY <1>3, <3>1
           DEF RunnerStep, Retry, GiveUp, Reimbursed, Answer, Filter, ReadPool, WritePool, TypeOK
      <3>2. CASE t = s
        <4> USE DEF TypeOK, Runner
        <4>1. CASE Retry(s)
          BY <4>1 DEF Retry
        <4>2. CASE GiveUp(s)
          BY <4>2 DEF GiveUp
        <4>3. CASE Reimbursed(s)
          BY <4>3 DEF Reimbursed
        <4>4. ASSUME NEW records \in SUBSET Spawn, Answer(s, records)
              PROVE  runner'[s].row = runner[s].row
          BY <4>4 DEF Answer
        <4>5. ASSUME NEW x \in Spawn, Filter(s, x) PROVE runner'[s].row = runner[s].row
          BY <4>5 DEF Filter
        <4>6. CASE ReadPool(s)
          BY <4>6 DEF ReadPool
        <4>7. CASE WritePool(s)
          BY <4>7 DEF WritePool
        <4>8. QED
          BY <1>3, <3>2, <4>1, <4>2, <4>3, <4>4, <4>5, <4>6, <4>7 DEF RunnerStep
      <3>3. QED
        BY <3>1, <3>2
    <2>3. row = pools'[s] /\ pools'[s] # pools[s]
      BY <1>0, <1>3, <2>1, <2>2 DEF Held
    <2>4. WritePool(t)
      BY <1>3, <2>3 DEF RunnerStep, Retry, GiveUp, Reimbursed, Answer, Filter, ReadPool
    <2>5. t = s /\ runner[s].row # NoPool /\ row = Settled(runner[s])
      BY <2>3, <2>4 DEF WritePool, TypeOK
    <2>6. runner[s].row \in Held(s) /\ runner[s].row \in Pool
      BY <2>5 DEF Held, TypeOK, Runner
    <2>7. row.owner = runner[s].row.owner
      BY <2>5, <2>6 DEF Settled, Pool
    <2>8. QED
      BY <2>6, <2>7
  <1>3a. ASSUME NEW t \in Scan, Throw(t) PROVE row \in Held(s)
    <2>1. UNCHANGED <<pools, approval, sweep>> /\ runner'[s].row \in {runner[s].row, NoPool}
      BY <1>3a DEF Throw, TypeOK, Runner
    <2>2. QED
      BY <1>0, <2>1 DEF Held
  <1>4. ASSUME NEW a \in Approval, NEW t \in Scan, NEW caller, ApproveRead(a, t, caller)
        PROVE  row \in Held(s)
    <2>1. UNCHANGED <<pools, runner, sweep>>
      BY <1>4 DEF ApproveRead
    <2>2. \A b \in Approval : approval'[b] # NoApproval /\ approval'[b].scan = s =>
             approval'[b] = approval[b] \/ approval'[b].row = pools[s]
      BY <1>4 DEF ApproveRead, TypeOK
    <2>3. QED
      BY <1>0, <2>1, <2>2 DEF Held
  <1>5. ASSUME NEW a \in Approval, NEW t \in Scan, ApproveResume(a, t), row \notin Held(s)
        PROVE  \E old \in Held(s) : old.owner = row.owner
    <2>1. /\ runner' = runner /\ sweep'.at = sweep.at
          /\ sweep.at = "read" => sweep'.snap = sweep.snap
          /\ \A b \in Approval : approval'[b] \in {approval[b], NoApproval}
      BY <1>5, ResumeSweep DEF ApproveResume, TypeOK
    <2>2. row = pools'[s] /\ pools'[s] # pools[s]
      BY <1>0, <1>5, <2>1 DEF Held
    <2>3. t = s /\ row = [approval[a].row EXCEPT !.status = "broadcast"]
      BY <1>5, <2>2 DEF ApproveResume, TypeOK
    <2>4. approval[a] # NoApproval /\ approval[a].scan = s /\ approval[a].row \in Pool
      BY <1>5, <2>3, Shapes DEF ApproveResume
    <2>5. approval[a].row \in Held(s)
      BY <2>4, NoPoolAssumption DEF Held
    <2>6. row.owner = approval[a].row.owner
      BY <2>3, <2>4 DEF Pool
    <2>7. QED
      BY <2>5, <2>6
  <1>6. ASSUME Sweep PROVE row \in Held(s)
    <2>1. UNCHANGED <<runner, approval>>
      BY <1>6 DEF Sweep, SweepRead, SweepDecide, SweepDelete, SweepEnd
    <2>2. pools'[s] \in {pools[s], NoPool}
      BY <1>6 DEF Sweep, SweepRead, SweepDecide, SweepDelete, SweepEnd, TypeOK
    <2>3. sweep'.at = "read" => sweep'.snap = pools
      <3>1. ASSUME NEW t \in Scan, SweepDelete(t) PROVE sweep'.at = "deleting"
        <4>1. sweep \in [at: {"deleting"}, doomed: SUBSET Scan, approved: SUBSET Scan]
          BY <3>1 DEF SweepDelete, TypeOK, Asleep
        <4>2. QED
          BY <3>1, <4>1 DEF SweepDelete
      <3>2. CASE SweepRead \/ SweepDecide \/ SweepEnd
        BY <3>2 DEF SweepRead, SweepDecide, SweepEnd, Asleep
      <3>3. QED
        BY <1>6, <3>1, <3>2 DEF Sweep
    <2>4. QED
      BY <1>0, <2>1, <2>2, <2>3 DEF Held
  <1>7. ASSUME Reload PROVE row \in Held(s)
    <2>1. pools' = pools /\ sweep'.at # "read" /\ \A a \in Approval : approval'[a] = NoApproval
      BY <1>7 DEF Reload, Asleep
    <2>2. runner'[s].row \in {runner[s].row, NoPool}
      <3>1. CASE runner[s].at \in Active
        <4>1. runner'[s] = [runner[s] EXCEPT !.at = "killed", !.row = NoPool, !.todo = {}]
          BY <1>7, <3>1 DEF Reload
        <4>2. QED
          BY <4>1 DEF TypeOK, Runner
      <3>2. CASE runner[s].at \notin Active
        BY <1>7, <3>2 DEF Reload
      <3>3. QED
        BY <3>1, <3>2
    <2>3. QED
      BY <1>0, <2>1, <2>2 DEF Held
  <1>8. ASSUME (\E x \in Spawn : Observe(x)) \/ Tick \/ UNCHANGED vars PROVE row \in Held(s)
    BY <1>8 DEF Observe, Tick, vars, Held
  <1>9. QED
    BY <1>1, <1>2, <1>3, <1>3a, <1>4, <1>5, <1>6, <1>7, <1>8 DEF Next

(* A scan that a step of the service leaves where it is. *)
Untouched(s) ==
    runner'[s].at = runner[s].at /\ runner'[s].result = runner[s].result /\ scan'[s] = scan[s]

(* What a step does to one scan: its stages go hand in hand, the ledger    *)
(* keeps to the subscriber it has charged, and only the request starts a   *)
(* runner.                                                                 *)
Follows(s) ==
    /\ Stage(s)'
    /\ scan[s] # Ledger!Free => scan'[s] # Ledger!Free /\ scan'[s].pk = scan[s].pk
    /\ runner[s].at = "none" => runner'[s].at # "searching"

LEMMA UntouchedFollows == ASSUME NEW s, Stage(s), Untouched(s) PROVE Follows(s)
  BY DEF Stage, Untouched, Follows

LEMMA RespondFollows ==
    ASSUME ServiceInv, NEW s \in Scan, NEW c \in Call, Respond(c)
    PROVE  Follows(s)
  <1>0. Stage(s) /\ runner[s] \in Runner /\ UNCHANGED runner
    BY DEF ServiceInv, TypeOK, Respond, poolVars
  <1>1. ASSUME NEW t \in Scan, Ledger!AuthorizeCharge(c, t) PROVE Follows(s)
    <2>1. scan' = [scan EXCEPT ![t] = [st |-> "charged", pk |-> call[c].pk, row |-> NoRow]] /\ scan[t] = Ledger!Free
      BY <1>1 DEF Ledger!AuthorizeCharge
    <2>2. CASE t = s
      <3>1. scan'[s].st = "charged" /\ scan[s] = Ledger!Free
        BY <2>1, <2>2 DEF ServiceInv, Entries
      <3>2. runner[s].at = "none"
        BY <1>0, <3>1 DEF Stage, Runner, Active, Ledger!Free
      <3>3. QED
        BY <1>0, <3>1, <3>2 DEF Follows, Stage
    <2>3. CASE t # s
      <3>1. scan'[s] = scan[s]
        BY <2>1, <2>3 DEF ServiceInv, Entries
      <3>2. QED
        BY <1>0, <3>1, UntouchedFollows DEF Untouched
    <2>4. QED
      BY <2>2, <2>3
  <1>2. ASSUME UNCHANGED scan PROVE Follows(s)
    BY <1>0, <1>2, UntouchedFollows DEF Untouched
  <1>3. QED
    BY <1>1, <1>2
       DEF Respond, Ledger!AuthorizeReject, Ledger!CheckResume, Ledger!SetReject, Ledger!SetResume

(* The steps of a runner, which each half takes its part of. *)
LEMMA RunnerFollows ==
    ASSUME ServiceInv, NEW s \in Scan, ScanStep(s), ~ Start(s)
    PROVE  Follows(s)
  <1>0. Stage(s) /\ Phase(s) /\ runner[s] \in Runner /\ Entries
    BY DEF ServiceInv, TypeOK, OutcomeInv, Sound
  <1> USE DEF TypeOK, Runner
  <1>1. CASE Serve(s)
    <2>1. /\ scan'[s].st = "served" /\ scan[s].st = "charged"
          /\ scan'[s] # Ledger!Free /\ scan'[s].pk = scan[s].pk
      BY <1>0, <1>1, RunnerEntry DEF Serve
    <2>2. runner'[s].at = "done" /\ runner[s].at = "writing" /\ runner'[s].result = "pending"
      BY <1>0, <1>1 DEF Serve, WritePool, ServiceInv
    <2>3. QED
      BY <2>1, <2>2 DEF Follows, Stage
  <1>2. CASE Fail(s)
    <2>1. /\ scan'[s].st = "refunding" /\ scan[s].st = "charged"
          /\ scan'[s] # Ledger!Free /\ scan'[s].pk = scan[s].pk
      BY <1>0, <1>2, RunnerEntry DEF Fail
    <2>2. runner'[s].at = "refunding" /\ runner[s].at = "searching"
      BY <1>0, <1>2 DEF Fail, GiveUp, ServiceInv
    <2>3. QED
      BY <2>1, <2>2 DEF Follows, Stage
  <1>3. CASE Reimburse(s)
    <2>1. /\ scan'[s].st = "refunded" /\ scan[s].st = "refunding"
          /\ scan'[s] # Ledger!Free /\ scan'[s].pk = scan[s].pk
      BY <1>0, <1>3, RunnerEntry DEF Reimburse
    <2>2. runner'[s].at = "reimbursed" /\ runner[s].at = "refunding"
      BY <1>0, <1>3 DEF Reimburse, Reimbursed, ServiceInv
    <2>3. QED
      BY <2>1, <2>2 DEF Follows, Stage
  <1>4. CASE RunPool(s)
    <2>0. UNCHANGED scan
      BY <1>4 DEF RunPool, ledgerVars
    <2>1. CASE Retry(s)
      <3>1. runner'[s].at = runner[s].at /\ runner'[s].result = runner[s].result
        BY <1>0, <2>1 DEF Retry, ServiceInv
      <3>2. QED
        BY <1>0, <2>0, <3>1, UntouchedFollows DEF Untouched
    <2>2. ASSUME NEW x \in Spawn, Filter(s, x) PROVE Follows(s)
      <3>1. runner'[s].at = runner[s].at /\ runner'[s].result = runner[s].result
        BY <1>0, <2>2 DEF Filter, ServiceInv
      <3>2. QED
        BY <1>0, <2>0, <3>1, UntouchedFollows DEF Untouched
    <2>3. CASE ReadPool(s)
      <3>1. /\ runner'[s].at = "writing" /\ runner'[s].result = runner[s].result
            /\ runner[s].at \in {"reimbursed", "filtering"}
        BY <1>0, <2>3 DEF ReadPool, ServiceInv
      <3>2. QED
        BY <1>0, <2>0, <3>1 DEF Follows, Stage, Phase
    <2>4. ASSUME runner[s].result = "failed", WritePool(s) PROVE Follows(s)
      <3>1. /\ runner'[s].at = "done" /\ runner'[s].result = "failed"
            /\ runner[s].at = "writing"
        BY <1>0, <2>4 DEF WritePool, ServiceInv
      <3>2. QED
        BY <1>0, <2>0, <2>4, <3>1 DEF Follows, Stage
    <2>4a. ASSUME NEW records \in SUBSET Spawn, Answer(s, records) PROVE Follows(s)
      <3>1. runner'[s].at = "filtering" /\ runner[s].at = "searching"
        BY <1>0, <2>4a DEF Answer, ServiceInv
      <3>2. QED
        BY <1>0, <2>0, <3>1 DEF Follows, Stage
    <2>5. QED
      BY <1>4, <2>1, <2>2, <2>3, <2>4, <2>4a DEF RunPool
  <1>5. QED
    BY <1>1, <1>2, <1>3, <1>4 DEF ScanStep

(* One that throws, and a request that fails to start one.                 *)
LEMMA BrokenFollows ==
    ASSUME ServiceInv, NEW s \in Scan, Break(s) \/ StartFails(s)
    PROVE  Follows(s)
  <1>0. Stage(s) /\ runner[s] \in Runner /\ Entries
    BY DEF ServiceInv, TypeOK
  <1>1. ASSUME Ledger!Lose(s)
        PROVE  /\ scan'[s].st = "lost"
               /\ scan'[s] # Ledger!Free /\ scan'[s].pk = scan[s].pk
    BY <1>0, <1>1, LoseEntry
  <1>2. CASE Break(s)
    <2>1. runner'[s].at = "broken" /\ runner[s].at \in Active \ {"searching"}
      BY <1>0, <1>2 DEF Break, Throw, ServiceInv, TypeOK, Runner
    <2>2. CASE scan[s].st \in {"charged", "refunding"}
      <3>1. Ledger!Lose(s)
        BY <1>2, <2>2 DEF Break
      <3>2. runner[s].at # "none"
        BY <2>1 DEF Active
      <3>3. QED
        BY <1>1, <2>1, <3>1, <3>2 DEF Follows, Stage
    <2>3. CASE scan[s].st \notin {"charged", "refunding"}
      <3>1. scan'[s] = scan[s]
        BY <1>2, <2>3 DEF Break, ledgerVars
      <3>2. scan[s].st = "refunded"
        BY <1>0, <2>1, <2>3 DEF Stage, Active
      <3>3. QED
        BY <2>1, <3>1, <3>2 DEF Follows, Stage
    <2>4. QED
      BY <2>2, <2>3
  <1>3. CASE StartFails(s)
    <2>1. Ledger!Lose(s) /\ runner'[s] = runner[s] /\ runner[s].at = "none"
      BY <1>3 DEF StartFails, poolVars, NewRunner
    <2>2. QED
      BY <1>1, <2>1 DEF Follows, Stage
  <1>4. QED
    BY <1>2, <1>3

(* A runner, and a request that starts one, touch no other scan. *)
LEMMA OthersFollow ==
    ASSUME ServiceInv, NEW s \in Scan, NEW t \in Scan \ {s},
           ScanStep(t) \/ Break(t) \/ StartFails(t)
    PROVE  Follows(s)
  <1>1. scan'[s] = scan[s]
    <2>1. CASE Serve(t) \/ Fail(t) \/ Reimburse(t)
      BY <2>1, RunnerEntry DEF ServiceInv, Serve, Fail, Reimburse
    <2>2. CASE Start(t) \/ RunPool(t)
      BY <2>2 DEF Start, RunPool, ledgerVars
    <2>3. CASE Break(t) \/ StartFails(t)
      BY <2>3, LoseEntry DEF ServiceInv, Break, StartFails, ledgerVars
    <2>4. QED
      BY <2>1, <2>2, <2>3 DEF ScanStep
  <1>2. runner'[s] = runner[s]
    BY DEF ScanStep, Start, Create, Serve, Answer, Fail, GiveUp, Reimburse, Reimbursed,
           RunPool, Retry, ReadPool, WritePool, Filter, Break, Throw, StartFails, poolVars,
           ServiceInv, TypeOK
  <1>3. QED
    BY <1>1, <1>2, UntouchedFollows DEF Untouched, ServiceInv

LEMMA ReloadFollows ==
    ASSUME ServiceInv, NEW s \in Scan, ReloadPage
    PROVE  Follows(s)
  <1>0. Stage(s) /\ runner[s] \in Runner
    BY DEF ServiceInv, TypeOK
  <1>1. /\ scan[s] # Ledger!Free => scan'[s] # Ledger!Free /\ scan'[s].pk = scan[s].pk
        /\ scan[s].st \in {"charged", "refunding"} => scan'[s].st = "lost"
        /\ scan[s].st \notin {"charged", "refunding"} => scan'[s] = scan[s]
    BY ReloadEntry DEF ReloadPage, ServiceInv
  <1>2. CASE runner[s].at \in Active
    <2>1. runner'[s] = [runner[s] EXCEPT !.at = "killed", !.row = NoPool, !.todo = {}]
      BY <1>2 DEF ReloadPage, Reload
    <2>2. runner'[s].at = "killed"
      BY <1>0, <2>1 DEF Runner
    <2>3. QED
      BY <1>0, <1>1, <1>2, <2>2 DEF Follows, Stage, Active
  <1>3. CASE runner[s].at \notin Active
    <2>1. runner'[s] = runner[s]
      BY <1>3 DEF ReloadPage, Reload
    <2>2. runner[s].at \in {"none", "done", "killed", "broken"}
      BY <1>0, <1>3 DEF Runner
    <2>3. QED
      BY <1>0, <1>1, <2>1, <2>2 DEF Follows, Stage
  <1>4. QED
    BY <1>2, <1>3

LEMMA StepService == ServiceInv /\ [ServiceNext]_serviceVars => ServiceInv'
  <1> SUFFICES ASSUME ServiceInv, [ServiceNext]_serviceVars PROVE ServiceInv'
    OBVIOUS
  <1>1. [Next]_vars
    BY PoolsStep DEF ServiceInv
  <1>2. TypeOK' /\ IInv' /\ OutcomeInv'
    BY <1>1, StepTypeOK, StepIInv, StepOutcome DEF ServiceInv
  <1>3. Entries'
    BY LedgerStep, StepEntries DEF ServiceInv
  <1>4. ASSUME NEW s \in Scan, Follows(s) PROVE Stage(s)' /\ Owned(s)'
    <2>1. ASSUME NEW row \in Held(s)' PROVE scan'[s] # Ledger!Free /\ row.owner = scan'[s].pk
      <3>1. ~ \E p \in Subscriber : Create(s, p)
        BY <1>4 DEF Follows, Create, NewRunner, ServiceInv, TypeOK
      <3>2. PICK old \in Held(s) : old.owner = row.owner
        BY <1>1, <2>1, <3>1, RowsKeepOwner DEF ServiceInv
      <3>3. QED
        BY <1>4, <3>2 DEF Follows, ServiceInv, Owned
    <2>2. Owned(s)'
      BY <2>1 DEF Owned
    <2>3. QED
      BY <1>4, <2>2 DEF Follows
  <1>5. ASSUME NEW s \in Scan, Start(s) PROVE Stage(s)' /\ Owned(s)'
    <2>1. /\ scan[s].st = "charged" /\ scan'[s] = scan[s] /\ Create(s, scan[s].pk)
          /\ scan[s] # Ledger!Free
      BY <1>5 DEF Start, ledgerVars, Ledger!Free
    <2>2. runner'[s].at = "searching"
      BY <2>1 DEF Create, ServiceInv, TypeOK
    <2>3. pools'[s].owner = scan[s].pk /\ pools'[s] # NoPool
      <3>1. pools'[s] = [owner |-> scan[s].pk, created |-> now, status |-> "collecting", spawns |-> {}]
        BY <2>1 DEF Create, ServiceInv, TypeOK
      <3>2. scan[s].pk \in Subscriber
        BY <2>1 DEF ServiceInv, Entries, Entry
      <3>3. pools'[s] \in Pool
        BY <3>1, <3>2 DEF Pool, ServiceInv, TypeOK
      <3>4. QED
        BY <3>1, <3>3, NoPoolAssumption
    <2>4. ASSUME NEW row \in Held(s)' PROVE row.owner = scan'[s].pk
      <3>1. CASE \E old \in Held(s) : old.owner = row.owner
        BY <2>1, <3>1 DEF ServiceInv, Owned
      <3>2. ASSUME NEW p \in Subscriber, Create(s, p), row.owner = p PROVE row.owner = scan'[s].pk
        <4>1. pools'[s] = [owner |-> p, created |-> now, status |-> "collecting", spawns |-> {}]
          BY <3>2 DEF Create, ServiceInv, TypeOK
        <4>2. QED
          BY <2>1, <2>3, <3>2, <4>1
      <3>3. QED
        BY <1>1, <3>1, <3>2, RowsKeepOwner DEF ServiceInv
    <2>5. QED
      BY <2>1, <2>2, <2>4 DEF Stage, Owned
  <1>6. ASSUME NEW s \in Scan, Untouched(s) PROVE Follows(s)
    BY <1>6, UntouchedFollows DEF ServiceInv
  <1>7. ASSUME NEW s \in Scan, UNCHANGED <<scan, runner>> PROVE Follows(s)
    BY <1>6, <1>7 DEF Untouched
  <1>8. ASSUME NEW s \in Scan, ~ Start(s) PROVE Follows(s)
    <2>1. ASSUME NEW c \in Call, NEW p \in Subscriber, Request(c, p) PROVE UNCHANGED <<scan, runner>>
      BY <2>1 DEF Request, Ledger!AuthorizeRead, Ledger!CheckRead, Ledger!SetRead, Ledger!Read, poolVars
    <2>2. ASSUME NEW c \in Call, Respond(c) PROVE Follows(s)
      BY <2>2, RespondFollows
    <2>3. ASSUME NEW p \in Subscriber, RemoveSubscriber(p) PROVE UNCHANGED <<scan, runner>>
      BY <2>3 DEF RemoveSubscriber, Ledger!Remove, poolVars
    <2>4. ASSUME NEW t \in Scan, ScanStep(t) PROVE Follows(s)
      BY <1>8, <2>4, RunnerFollows, OthersFollow
    <2>4a. ASSUME NEW t \in Scan, Break(t) \/ StartFails(t) PROVE Follows(s)
      BY <2>4a, BrokenFollows, OthersFollow
    <2>5. ASSUME NEW a \in Approval, NEW t \in Scan, Approve(a, t) PROVE UNCHANGED <<scan, runner>>
      BY <2>5 DEF Approve, ApproveRead, ApproveResume, ledgerVars
    <2>6. ASSUME NEW x \in Spawn, Discover(x) PROVE UNCHANGED <<scan, runner>>
      BY <2>6 DEF Discover, Observe, ledgerVars
    <2>7. CASE Discard
      BY <1>7, <2>7 DEF Discard, Sweep, SweepRead, SweepDecide, SweepDelete, SweepEnd, ledgerVars
    <2>8. CASE ReloadPage
      BY <2>8, ReloadFollows
    <2>9. CASE Pass \/ UNCHANGED serviceVars
      BY <1>7, <2>9 DEF Pass, Ledger!Tick, Tick, serviceVars
    <2>10. QED
      BY <1>7, <2>1, <2>2, <2>3, <2>4, <2>4a, <2>5, <2>6, <2>7, <2>8, <2>9 DEF ServiceNext
  <1>9. \A s \in Scan : Fruitless(s)'
    BY <1>1, StepFruitless DEF ServiceInv
  <1>10. QED
    BY <1>2, <1>3, <1>4, <1>5, <1>8, <1>9 DEF ServiceInv

LEMMA ServiceCorrect == ServiceSpec => []ServiceInv
  BY InitService, StepService, PTL DEF ServiceSpec

(* The safety half of ImplementsPools: whatever the ledger does in         *)
(* between, requests and page loads included, the pools take the steps of  *)
(* their own specification, so what is proved of them above holds of the   *)
(* service.                                                                *)
THEOREM PoolsImplemented == ServiceSpec => Spec
  <1>1. ServiceInit => Init
    BY DEF ServiceInit
  <1>2. ServiceInv => Entries
    BY DEF ServiceInv
  <1>3. QED
    BY <1>1, <1>2, PoolsStep, ServiceCorrect, PTL DEF ServiceSpec, Spec

(* A pool belongs to whoever was charged for it, a result that can be read *)
(* or was published is paid for, "failed" is said only once the refund is  *)
(* made, and neither a reload nor an exception leaves a runner and the     *)
(* ledger at odds about a scan.                                            *)
THEOREM ServiceAgrees == ServiceSpec => []HalvesAgree
  <1>1. ServiceInv => HalvesAgree
    <2> SUFFICES ASSUME ServiceInv PROVE HalvesAgree
      OBVIOUS
    <2>1. ASSUME NEW s \in Scan, pools[s] # NoPool
          PROVE  /\ scan[s] # Ledger!Free /\ scan[s].pk = pools[s].owner
                 /\ pools[s].status = "pending" => scan[s].st = "served"
                 /\ pools[s].status = "failed" => scan[s].st = "refunded"
      <3>1. pools[s] \in Held(s)
        BY <2>1 DEF Held
      <3>2. Tells(s, pools[s])
        BY <3>1 DEF ServiceInv, OutcomeInv, Sound, Told
      <3>3. Stage(s) /\ Owned(s)
        BY DEF ServiceInv
      <3>4. QED
        BY <3>1, <3>2, <3>3 DEF Tells, Stage, Owned
    <2>2. ASSUME NEW s \in Scan
          PROVE  /\ shared[s] # {} => scan[s].st = "served"
                 /\ runner[s].at \in {"none", "searching"} => scan[s].st \in {"free", "charged", "lost"}
                 /\ scan[s].st = "charged" =>
                       runner[s].at \in {"none", "searching", "filtering", "writing"}
                 /\ scan[s].st = "refunding" => runner[s].at = "refunding"
                 /\ scan[s].st = "lost" => runner[s].at \in {"none", "killed", "broken"}
                 /\ runner[s].at = "done" => scan[s].st \in {"served", "refunded"}
                 /\ runner[s].at = "broken" => scan[s].st \in {"refunded", "lost"}
      <3>1. Stage(s) /\ runner[s].at \in Active \cup {"none", "done", "killed", "broken"}
        BY DEF ServiceInv, TypeOK, Runner
      <3>2. shared[s] # {} => runner[s].at = "done" /\ runner[s].found # {}
        BY DEF ServiceInv, OutcomeInv, Sound, SharedIsFound
      <3>3. Fruitless(s)
        BY DEF ServiceInv
      <3>4. QED
        BY <3>1, <3>2, <3>3 DEF Stage, Active, Fruitless
    <2>3. QED
      BY <2>1, <2>2 DEF HalvesAgree, PaidForWhatItShows
  <1>2. QED
    BY <1>1, ServiceCorrect, PTL
=============================================================================
