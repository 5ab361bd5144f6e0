--------------------------- MODULE RelayLinkProofs ---------------------------
(***************************************************************************)
(* That a request is carried out at most once, and that an answer comes    *)
(* from its own request's handler, for any number of calls and of handlers *)
(* in flight and any delays within the replay window.                      *)
(***************************************************************************)
EXTENDS RelayLink, TLAPS

LEMMA OlderType ==
    ASSUME NEW limit \in Nat, NEW n \in 0 .. limit
    PROVE  Older(n, limit) \in 0 .. limit /\ Older(n, limit) >= n
  BY DEF Older

LEMMA JobForms ==
    ASSUME TypeOK, NEW j \in Job
    PROVE  /\ job[j].at \in {"idle", "looking", "marking", "running"}
           /\ job[j] = Idle <=> job[j].at = "idle"
           /\ job[j].at # "idle" => job[j] \in JobRecord /\ job[j].call \in Call
  BY DEF TypeOK, JobRecord, Idle

(* Ages stay within their bounds, and jobs within their forms.             *)
LEMMA TickType == ASSUME TypeOK, Tick PROVE TypeOK'
  <1>1. StaleAfter \in Nat /\ ReplayWindow + 1 \in Nat /\ MaxDelay + 1 \in Nat
    BY WindowAssumption
  <1>2. quiet' \in 0 .. StaleAfter
    BY <1>1, OlderType DEF Tick, TypeOK
  <1>3. marked' \in [Call -> {Unmarked} \cup 0 .. (ReplayWindow + 1)]
    BY <1>1, OlderType DEF Tick, TypeOK
  <1>4. age' \in [Call -> 0 .. (MaxDelay + 1)]
    BY <1>1, OlderType DEF Tick, TypeOK
  <1>5. QED
    BY <1>2, <1>3, <1>4 DEF Tick, TypeOK

LEMMA JobStepType ==
    ASSUME TypeOK, NEW j \in Job,
           LookUp(j) \/ Mark(j) \/ \E arrives \in BOOLEAN : Reply(j, arrives)
    PROVE  TypeOK'
  <1>1. CASE LookUp(j)
    <2>1. job[j] \in JobRecord
      BY <1>1, JobForms DEF LookUp
    <2>2. job' \in [Job -> {Idle} \cup JobRecord]
      BY <1>1, <2>1 DEF LookUp, TypeOK, JobRecord
    <2>3. QED
      BY <1>1, <2>2 DEF LookUp, TypeOK
  <1>2. CASE Mark(j)
    <2>1. job[j] \in JobRecord
      BY <1>2, JobForms DEF Mark
    <2>2. job' \in [Job -> {Idle} \cup JobRecord]
      BY <1>2, <2>1 DEF Mark, TypeOK, JobRecord
    <2>3. marked' \in [Call -> {Unmarked} \cup 0 .. (ReplayWindow + 1)] /\ ran' \in [Call -> Nat]
      BY <1>2, <2>1, WindowAssumption DEF Mark, TypeOK, JobRecord
    <2>4. QED
      BY <1>2, <2>2, <2>3 DEF Mark, TypeOK
  <1>3. CASE \E arrives \in BOOLEAN : Reply(j, arrives)
    BY <1>3, WindowAssumption DEF Reply, TypeOK
  <1>4. QED
    BY <1>1, <1>2, <1>3

LEMMA TypeStep == TypeOK /\ [Next]_vars => TypeOK'
  <1> SUFFICES ASSUME TypeOK, [Next]_vars PROVE TypeOK'
    OBVIOUS
  <1>1. CASE Tick
    BY <1>1, TickType
  <1>2. CASE Break
    BY <1>2 DEF Break, TypeOK
  <1>3. CASE Heartbeat
    BY <1>3, WindowAssumption DEF Heartbeat, TypeOK
  <1>4. CASE Reconnect
    BY <1>4 DEF Reconnect, TypeOK
  <1>5. CASE \E c \in Call : Send(c) \/ Timeout(c)
    BY <1>5 DEF Send, Timeout, TypeOK
  <1>6. CASE \E c \in Call, j \in Job : Deliver(c, j)
    BY <1>6, WindowAssumption DEF Deliver, Hand, TypeOK, JobRecord
  <1>7. CASE \E j \in Job : LookUp(j) \/ Mark(j) \/ \E arrives \in BOOLEAN : Reply(j, arrives)
    BY <1>7, JobStepType
  <1>8. CASE Prune
    BY <1>8 DEF Prune, TypeOK
  <1>9. CASE Reload
    BY <1>9, WindowAssumption DEF Reload, TypeOK
  <1>10. CASE UNCHANGED vars
    BY <1>10 DEF vars, TypeOK
  <1>11. QED
    BY <1>1, <1>2, <1>3, <1>4, <1>5, <1>6, <1>7, <1>8, <1>9, <1>10 DEF Next

LEMMA InitType == Init => TypeOK
  BY WindowAssumption DEF Init, TypeOK

(* The states of pool, calls and handlers stay well formed.                *)
THEOREM TypeCorrect == Spec => []TypeOK
  BY InitType, TypeStep, PTL DEF Spec

-----------------------------------------------------------------------------

Young(j) == job[j].at \in {"looking", "marking"}

(* An event that is being looked up or marked was handed over a moment     *)
(* ago: the pool is the one that handed it, nobody else works on it, and   *)
(* there is no reason to reconnect.                                        *)
YoungIsFresh ==
    /\ \A j \in Job : Young(j) =>
          /\ quiet = 0
          /\ job[j].call \in heard
          /\ InFlight(job[j].call)
    /\ \A i, j \in Job : Young(i) /\ Young(j) /\ job[i].call = job[j].call => i = j
    /\ \A j \in Job : job[j].at = "marking" => marked[job[j].call] = Unmarked

(* A row is forgotten only when its event is delivered no more. *)
MarkOutlivesEvent ==
    /\ \A c \in Call : marked[c] # Unmarked => age[c] >= marked[c] \/ age[c] = MaxDelay + 1
    /\ \A c \in Call : marked[c] # Unmarked => call[c] # "unsent"
    /\ \A c \in Call : ran[c] # 0 /\ marked[c] = Unmarked => ~ InFlight(c)

Runs ==
    /\ \A c \in Call : ran[c] <= 1
    /\ \A c \in Call : ran[c] # 0 => call[c] # "unsent"
    /\ \A j \in Job : job[j].at = "running" => ran[job[j].call] = 1
    /\ \A c \in Call : call[c] = "answered" => ran[c] = 1

IInv == TypeOK /\ YoungIsFresh /\ MarkOutlivesEvent /\ Runs

LEMMA TickKeeps == ASSUME IInv, Tick PROVE YoungIsFresh' /\ MarkOutlivesEvent' /\ Runs'
  <1>1. \A j \in Job : job'[j] = job[j] /\ ~ Young(j) /\ ~ Young(j)'
    BY DEF Tick, Young
  <1>2. YoungIsFresh'
    BY <1>1 DEF YoungIsFresh, Young
  <1>3. call' = call /\ ran' = ran /\ MaxDelay \in Nat /\ ReplayWindow \in Nat
    BY WindowAssumption DEF Tick
  <1>4. ASSUME NEW c \in Call
        PROVE  /\ marked[c] = Unmarked <=> marked'[c] = Unmarked
               /\ marked'[c] # Unmarked => age'[c] >= marked'[c] \/ age'[c] = MaxDelay + 1
               /\ call[c] # "unsent" => age'[c] >= age[c]
    <2>1. /\ marked'[c] = IF marked[c] = Unmarked THEN Unmarked
                          ELSE Older(marked[c], ReplayWindow + 1)
          /\ call[c] # "unsent" => age'[c] = Older(age[c], MaxDelay + 1)
      BY DEF Tick
    <2>2. /\ age[c] \in 0 .. (MaxDelay + 1)
          /\ marked[c] # Unmarked => marked[c] \in 0 .. (ReplayWindow + 1)
      BY DEF IInv, TypeOK
    <2>3. marked[c] # Unmarked =>
            /\ call[c] # "unsent"
            /\ age[c] >= marked[c] \/ age[c] = MaxDelay + 1
      BY DEF IInv, MarkOutlivesEvent
    <2>4. QED
      BY <1>3, <2>1, <2>2, <2>3, UnmarkedAssumption DEF Older
  <1>5. \A c \in Call : ran[c] # 0 => call[c] # "unsent"
    BY DEF IInv, Runs
  <1>6. \A c \in Call : age[c] \in Nat /\ age'[c] \in Nat
    BY <1>3, TickType DEF IInv, TypeOK
  <1>7. \A c \in Call : ran[c] # 0 /\ InFlight(c)' => InFlight(c)
    BY <1>3, <1>4, <1>5, <1>6 DEF InFlight
  <1>8. MarkOutlivesEvent'
    BY <1>3, <1>4, <1>7 DEF IInv, MarkOutlivesEvent
  <1>9. Runs'
    BY <1>1, <1>3 DEF IInv, Runs
  <1>10. QED
    BY <1>2, <1>8, <1>9

LEMMA CallKeeps ==
    ASSUME IInv, NEW c \in Call, Send(c) \/ Timeout(c)
    PROVE  YoungIsFresh' /\ MarkOutlivesEvent' /\ Runs'
  <1>1. /\ UNCHANGED <<quiet, heard, marked, job, age, ran>>
        /\ \A d \in Call : call[d] # "unsent" => call'[d] # "unsent"
        /\ \A d \in Call : call'[d] = "answered" => call[d] = "answered"
        /\ \A d \in Call : call[d] = "unsent" /\ call'[d] # "unsent" => ran[d] = 0
    BY DEF Send, Timeout, IInv, TypeOK, Runs
  <1>2. YoungIsFresh'
    BY <1>1, JobForms DEF IInv, YoungIsFresh, Young, InFlight
  <1>3. MarkOutlivesEvent'
    BY <1>1 DEF IInv, MarkOutlivesEvent, InFlight
  <1>4. Runs'
    BY <1>1 DEF IInv, Runs
  <1>5. QED
    BY <1>2, <1>3, <1>4

LEMMA DeliverKeeps ==
    ASSUME IInv, NEW c \in Call, NEW j \in Job, Deliver(c, j)
    PROVE  YoungIsFresh' /\ MarkOutlivesEvent' /\ Runs'
  <1>1. /\ UNCHANGED <<marked, call, age, ran>>
        /\ quiet' = 0 /\ heard' = heard \cup {c}
        /\ job' = [job EXCEPT ![j] = [at |-> "looking", call |-> c]]
        /\ c \notin heard /\ InFlight(c)
    BY DEF Deliver, Hand
  <1>2. job'[j] = [at |-> "looking", call |-> c] /\ \A i \in Job \ {j} : job'[i] = job[i]
    BY <1>1 DEF IInv, TypeOK
  <1>3. \A i \in Job : Young(i) => job[i].call # c
    BY <1>1 DEF IInv, YoungIsFresh
  <1>4. YoungIsFresh'
    BY <1>1, <1>2, <1>3 DEF IInv, YoungIsFresh, Young, InFlight
  <1>5. MarkOutlivesEvent' /\ Runs'
    BY <1>1, <1>2 DEF IInv, MarkOutlivesEvent, Runs, InFlight
  <1>6. QED
    BY <1>4, <1>5

LEMMA LookUpKeeps ==
    ASSUME IInv, NEW j \in Job, LookUp(j)
    PROVE  YoungIsFresh' /\ MarkOutlivesEvent' /\ Runs'
  <1>1. /\ UNCHANGED <<quiet, heard, marked, call, age, ran>>
        /\ Young(j) /\ job[j] \in JobRecord
        /\ \A i \in Job \ {j} : job'[i] = job[i]
        /\ job'[j] = IF marked[job[j].call] = Unmarked
                     THEN [job[j] EXCEPT !.at = "marking"] ELSE Idle
    BY JobForms DEF LookUp, Young, IInv, TypeOK
  <1>2. \/ job'[j].at = "idle"
        \/ job'[j].at = "marking" /\ job'[j].call = job[j].call /\ marked[job[j].call] = Unmarked
    BY <1>1 DEF JobRecord, Idle
  <1>3. \A i \in Job : Young(i)' => Young(i) /\ (job'[i].call = job[i].call)
    BY <1>1, <1>2 DEF Young
  <1>4. YoungIsFresh'
    <2>1. \A i \in Job : Young(i)' => quiet' = 0 /\ job'[i].call \in heard' /\ InFlight(job[i].call)'
      BY <1>1, <1>3 DEF IInv, YoungIsFresh, InFlight
    <2>2. \A i, k \in Job : Young(i)' /\ Young(k)' /\ (job'[i].call = job'[k].call) => i = k
      BY <1>3 DEF IInv, YoungIsFresh
    <2>3. \A i \in Job : job'[i].at = "marking" => marked'[job'[i].call] = Unmarked
      BY <1>1, <1>2 DEF IInv, YoungIsFresh
    <2>4. QED
      BY <2>1, <2>2, <2>3 DEF YoungIsFresh, Young, InFlight
  <1>5. MarkOutlivesEvent'
    BY <1>1 DEF IInv, MarkOutlivesEvent, InFlight
  <1>6. Runs'
    BY <1>1, <1>2 DEF IInv, Runs
  <1>7. QED
    BY <1>4, <1>5, <1>6

LEMMA MarkKeeps ==
    ASSUME IInv, NEW j \in Job, Mark(j)
    PROVE  YoungIsFresh' /\ MarkOutlivesEvent' /\ Runs'
  <1> DEFINE c == job[j].call
  <1>1. /\ UNCHANGED <<quiet, heard, call, age>>
        /\ Young(j) /\ job[j] \in JobRecord /\ c \in Call
        /\ \A i \in Job \ {j} : job'[i] = job[i]
        /\ job'[j].at = "running" /\ job'[j].call = c
        /\ marked' = [marked EXCEPT ![c] = 0]
        /\ ran' = [ran EXCEPT ![c] = @ + 1]
    BY JobForms DEF Mark, Young, IInv, TypeOK, JobRecord
  <1>2. marked[c] = Unmarked /\ InFlight(c) /\ \A i \in Job \ {j} : Young(i) => job[i].call # c
    BY <1>1 DEF IInv, YoungIsFresh, Mark
  <1>3. ran[c] = 0 /\ ran'[c] = 1 /\ \A d \in Call \ {c} : ran'[d] = ran[d]
    BY <1>1, <1>2 DEF IInv, MarkOutlivesEvent, TypeOK
  <1>4. marked'[c] = 0 /\ \A d \in Call \ {c} : marked'[d] = marked[d]
    BY <1>1 DEF IInv, TypeOK
  <1>5. \A i \in Job : Young(i)' => i # j /\ Young(i)
    BY <1>1 DEF Young
  <1>6. YoungIsFresh'
    BY <1>1, <1>2, <1>4, <1>5, JobForms DEF IInv, YoungIsFresh, Young, InFlight
  <1>7. age[c] \in Nat /\ call[c] # "unsent"
    BY <1>1, <1>2, WindowAssumption DEF InFlight, IInv, TypeOK
  <1>8. MarkOutlivesEvent'
    BY <1>1, <1>3, <1>4, <1>7, UnmarkedAssumption DEF IInv, MarkOutlivesEvent, InFlight
  <1>9. Runs'
    BY <1>1, <1>3, <1>7, JobForms DEF IInv, Runs
  <1>10. QED
    BY <1>6, <1>8, <1>9

LEMMA ReplyKeeps ==
    ASSUME IInv, NEW j \in Job, NEW arrives \in BOOLEAN, Reply(j, arrives)
    PROVE  YoungIsFresh' /\ MarkOutlivesEvent' /\ Runs'
  <1>1. /\ UNCHANGED <<heard, marked, age, ran>>
        /\ (quiet' = 0) \/ (quiet' = quiet)
        /\ job[j].at = "running" /\ job[j] \in JobRecord
        /\ job'[j] = Idle /\ \A i \in Job \ {j} : job'[i] = job[i]
        /\ \A d \in Call : (call'[d] = call[d])
                             \/ ((call[d] = "waiting") /\ (call'[d] = "answered") /\ (d = job[j].call))
    <2>1. /\ UNCHANGED <<heard, marked, age, ran>>
          /\ job[j].at = "running"
          /\ job' = [job EXCEPT ![j] = Idle]
      BY DEF Reply
    <2>2. (quiet' = 0) \/ (quiet' = quiet)
      BY DEF Reply
    <2>3. job[j] \in JobRecord
      BY <2>1, JobForms DEF IInv, TypeOK, JobRecord, Idle
    <2>4. (job'[j] = Idle) /\ \A i \in Job \ {j} : job'[i] = job[i]
      BY <2>1 DEF IInv, TypeOK
    <2>5. \A d \in Call : call'[d] = IF arrives /\ Takes(job[j].call, d) THEN "answered" ELSE call[d]
      BY DEF Reply
    <2>6. \A d \in Call : (call'[d] = call[d])
                             \/ ((call[d] = "waiting") /\ (call'[d] = "answered") /\ (d = job[j].call))
      BY <2>5 DEF Takes
    <2>7. QED
      BY <2>1, <2>2, <2>3, <2>4, <2>6
  <1>2. \A d \in Call : call[d] = "unsent" <=> call'[d] = "unsent"
    BY <1>1
  <1>3. job'[j].at = "idle"
    BY <1>1 DEF Idle
  <1>4. YoungIsFresh'
    BY <1>1, <1>2, <1>3, JobForms DEF IInv, YoungIsFresh, Young, InFlight
  <1>5. MarkOutlivesEvent'
    BY <1>1, <1>2 DEF IInv, MarkOutlivesEvent, InFlight
  <1>6. Runs'
    BY <1>1, <1>2, <1>3 DEF IInv, Runs
  <1>7. QED
    BY <1>4, <1>5, <1>6

LEMMA PruneKeeps == ASSUME IInv, Prune PROVE YoungIsFresh' /\ MarkOutlivesEvent' /\ Runs'
  <1>1. /\ UNCHANGED <<quiet, heard, job, call, age, ran>>
        /\ \A c \in Call : marked'[c] = IF Forgotten(c) THEN Unmarked ELSE marked[c]
    BY DEF Prune
  <1>2. YoungIsFresh'
    BY <1>1, JobForms DEF IInv, YoungIsFresh, Young, InFlight
  <1>3. ASSUME NEW c \in Call, Forgotten(c) PROVE ~ InFlight(c)
    <2>1. marked[c] \in Nat /\ marked[c] > ReplayWindow /\ age[c] \in Nat
      BY <1>3, WindowAssumption DEF Forgotten, IInv, TypeOK
    <2>2. age[c] >= marked[c] \/ age[c] = MaxDelay + 1
      BY <1>3 DEF Forgotten, IInv, MarkOutlivesEvent
    <2>3. QED
      BY <2>1, <2>2, WindowAssumption DEF InFlight
  <1>4. MarkOutlivesEvent'
    BY <1>1, <1>3 DEF IInv, MarkOutlivesEvent, InFlight
  <1>5. Runs'
    BY <1>1 DEF IInv, Runs
  <1>6. QED
    BY <1>2, <1>4, <1>5

LEMMA KeepsStep == IInv /\ [Next]_vars => IInv'
  <1> SUFFICES ASSUME IInv, [Next]_vars PROVE YoungIsFresh' /\ MarkOutlivesEvent' /\ Runs'
    BY TypeStep DEF IInv
  <1>1. CASE Tick
    BY <1>1, TickKeeps
  <1>2. CASE \E c \in Call : Send(c) \/ Timeout(c)
    BY <1>2, CallKeeps
  <1>3. CASE \E c \in Call, j \in Job : Deliver(c, j)
    BY <1>3, DeliverKeeps
  <1>4. CASE \E j \in Job : LookUp(j) \/ Mark(j) \/ \E arrives \in BOOLEAN : Reply(j, arrives)
    BY <1>4, LookUpKeeps, MarkKeeps, ReplyKeeps
  <1>5. CASE Prune
    BY <1>5, PruneKeeps
  <1>6. CASE Reconnect \/ Reload
    <2>1. \A j \in Job : ~ Young(j)'
      BY <1>6, WindowAssumption, JobForms
      DEF Reconnect, Reload, Young, Idle, IInv, YoungIsFresh, TypeOK
    <2>2. UNCHANGED <<marked, call, age, ran>> /\ \A j \in Job : job'[j] = job[j] \/ job'[j] = Idle
      BY <1>6 DEF Reconnect, Reload
    <2>3. YoungIsFresh'
      BY <2>1 DEF YoungIsFresh, Young
    <2>4. MarkOutlivesEvent'
      BY <2>2 DEF IInv, MarkOutlivesEvent, InFlight
    <2>5. Runs'
      BY <2>2 DEF IInv, Runs, Idle
    <2>6. QED
      BY <2>3, <2>4, <2>5
  <1>7. CASE Break \/ Heartbeat \/ UNCHANGED vars
    <2>1. /\ UNCHANGED <<heard, marked, job, call, age, ran>>
          /\ quiet' = 0 \/ quiet' = quiet
      BY <1>7 DEF Break, Heartbeat, vars
    <2>2. YoungIsFresh'
      BY <2>1 DEF IInv, YoungIsFresh, Young, InFlight
    <2>3. MarkOutlivesEvent' /\ Runs'
      BY <2>1 DEF IInv, MarkOutlivesEvent, Runs, InFlight
    <2>4. QED
      BY <2>2, <2>3
  <1>8. QED
    BY <1>1, <1>2, <1>3, <1>4, <1>5, <1>6, <1>7 DEF Next

LEMMA InitKeeps == Init => IInv
  <1>1. Init => YoungIsFresh /\ MarkOutlivesEvent /\ Runs
    BY DEF Init, YoungIsFresh, Young, MarkOutlivesEvent, Runs, Idle
  <1>2. QED
    BY <1>1, InitType DEF IInv

(* A request is carried out at most once: what a job is looking up was     *)
(* handed over just now, so the pool that would hand it again is not near, *)
(* and what was marked is remembered until no relay delivers it.           *)
THEOREM HandledTheorem == Spec => []HandledAtMostOnce
  <1>1. IInv => HandledAtMostOnce
    BY DEF IInv, Runs, HandledAtMostOnce
  <1>2. QED
    BY <1>1, InitKeeps, KeepsStep, PTL DEF Spec

(* A call that was answered was carried out, by its own handler.           *)
THEOREM AnsweredTheorem == Spec => []AnsweredIsHandled
  <1>1. IInv => AnsweredIsHandled
    BY DEF IInv, Runs, AnsweredIsHandled
  <1>2. QED
    BY <1>1, InitKeeps, KeepsStep, PTL DEF Spec
=============================================================================
