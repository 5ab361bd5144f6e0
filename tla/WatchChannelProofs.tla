------------------------- MODULE WatchChannelProofs -------------------------
(***************************************************************************)
(* The search chain, its gate and the watch channel, for every number of   *)
(* requesters, entries, groups and retries.                                *)
(*                                                                         *)
(* The two parts of the pacing need each other: an answer releases the     *)
(* gate only because it is its caller's one search (OneSearchEach), and    *)
(* what the loop does with its answer depends on the gate (GateIsHonest).  *)
(* A leak is counted together with the call that may still leak (OneSent). *)
(* The connector's own invariant rests on what the pacing proves of its    *)
(* special search.                                                         *)
(***************************************************************************)
EXTENDS WatchChannel, TLAPS

(* queue holds the callers of S, each once. *)
Lists(q, S) ==
    /\ q \in Seq(Caller)
    /\ {q[i] : i \in DOMAIN q} = S
    /\ \A i, j \in DOMAIN q : q[i] = q[j] => i = j

(* The rest of the state's shape: only an idle batch or search is reset. *)
IdleIsReset ==
    /\ quest.at = "idle" => quest = NoBatch
    /\ watch.at = "idle" => watch = NoAlert
    /\ loop.at \in {"waiting", "queued", "building"} => loop.left > 0

(* The loop has a call in the chain that is not out yet. *)
Pending == loop.at = "queued" /\ ~ (line = "calling" /\ Head(queue) = "loop")

OneSent == IsPaused => leaked = 0 \/ (leaked = 1 /\ ~ Pending)

OncePerDate == autoRuns <= 1 /\ (ranToday = "no" => autoRuns = 0)

PacingInv == TypeOK /\ GateIsHonest /\ OneSearchEach /\ IdleIsReset /\ OneSent /\ OncePerDate

(* What a check knows, and what memory, storage and the searches agree on. *)
ConnectorInv ==
    /\ ConnectorTypeOK
    /\ saved <=> spent
    /\ watch # NoAlert <=> check.at = "searching"
    /\ check.at = "idle" => check = NoCheck
    /\ seen => spent \/ (check.at = "saving" /\ check.last)
    /\ check.at = "saving" /\ ~ check.last => ~ seen /\ ~ spent
    /\ check.at = "asking" /\ ~ check.early => loaded /\ (seen <=> saved)
    /\ check.at = "saving" /\ check.again => check.early

-----------------------------------------------------------------------------

LEMMA AppendLists ==
    ASSUME NEW q, NEW S, Lists(q, S), NEW c \in Caller, c \notin S
    PROVE  /\ Lists(Append(q, c), S \cup {c})
           /\ Append(q, c) # <<>>
           /\ q # <<>> => Head(Append(q, c)) = Head(q)
  <1>1. q \in Seq(Caller) /\ DOMAIN q = 1..Len(q) /\ Len(q) \in Nat
    BY DEF Lists
  <1>2. /\ Append(q, c) \in Seq(Caller) /\ Len(Append(q, c)) = Len(q) + 1
        /\ DOMAIN Append(q, c) = 1..(Len(q) + 1)
        /\ \A i \in 1..Len(q) : Append(q, c)[i] = q[i]
        /\ Append(q, c)[Len(q) + 1] = c
    BY <1>1
  <1>3. \A i \in DOMAIN q : q[i] \in S
    BY DEF Lists
  <1>4. \A i, j \in DOMAIN Append(q, c) : Append(q, c)[i] = Append(q, c)[j] => i = j
    <2> SUFFICES ASSUME NEW i \in 1..(Len(q) + 1), NEW j \in 1..(Len(q) + 1),
                        Append(q, c)[i] = Append(q, c)[j]
                 PROVE  i = j
      BY <1>2
    <2>1. CASE i \in 1..Len(q) /\ j \in 1..Len(q)
      BY <1>1, <1>2, <2>1 DEF Lists
    <2>2. CASE i = Len(q) + 1 \/ j = Len(q) + 1
      BY <1>1, <1>2, <1>3, <2>2
    <2>3. QED
      BY <1>1, <2>1, <2>2
  <1>5. {Append(q, c)[i] : i \in DOMAIN Append(q, c)} = S \cup {c}
    <2>1. {Append(q, c)[i] : i \in DOMAIN Append(q, c)} \subseteq S \cup {c}
      BY <1>1, <1>2, <1>3
    <2>2. \A x \in S : \E i \in DOMAIN q : x = q[i]
      BY DEF Lists
    <2>3. QED
      BY <1>1, <1>2, <2>1, <2>2
  <1>6. Append(q, c) # <<>>
    BY <1>1, <1>2
  <1>7. ASSUME q # <<>> PROVE Head(Append(q, c)) = Head(q)
    <2>1. 1 \in 1..Len(q) /\ Head(q) = q[1]
      BY <1>1, <1>7
    <2>2. Head(Append(q, c)) = Append(q, c)[1]
      BY <1>2, <1>6
    <2>3. QED
      BY <1>2, <2>1, <2>2
  <1>8. QED
    BY <1>2, <1>4, <1>5, <1>6, <1>7 DEF Lists

LEMMA TailLists ==
    ASSUME NEW q, NEW S, Lists(q, S), q # <<>>
    PROVE  Head(q) \in S /\ Head(q) \in Caller /\ Lists(Tail(q), S \ {Head(q)})
  <1>1. /\ q \in Seq(Caller) /\ DOMAIN q = 1..Len(q) /\ Len(q) \in Nat \ {0}
        /\ Head(q) = q[1] /\ 1 \in DOMAIN q
    BY DEF Lists
  <1>2. /\ Tail(q) \in Seq(Caller) /\ DOMAIN Tail(q) = 1..(Len(q) - 1)
        /\ \A i \in 1..(Len(q) - 1) : Tail(q)[i] = q[i + 1]
    BY <1>1
  <1>3. \A i \in 1..(Len(q) - 1) : i + 1 \in DOMAIN q /\ i + 1 # 1
    BY <1>1
  <1>4. \A i, j \in DOMAIN Tail(q) : Tail(q)[i] = Tail(q)[j] => i = j
    <2> SUFFICES ASSUME NEW i \in 1..(Len(q) - 1), NEW j \in 1..(Len(q) - 1), Tail(q)[i] = Tail(q)[j]
                 PROVE  i = j
      BY <1>2
    <2>1. q[i + 1] = q[j + 1] /\ i + 1 \in DOMAIN q /\ j + 1 \in DOMAIN q
      BY <1>2, <1>3
    <2>2. i + 1 = j + 1
      BY <2>1 DEF Lists
    <2>3. QED
      BY <2>2
  <1>5. \A i \in DOMAIN Tail(q) : Tail(q)[i] \in S \ {Head(q)}
    BY <1>1, <1>2, <1>3 DEF Lists
  <1>6. \A x \in S \ {Head(q)} : \E i \in DOMAIN Tail(q) : x = Tail(q)[i]
    <2> SUFFICES ASSUME NEW x \in S \ {Head(q)} PROVE \E i \in DOMAIN Tail(q) : x = Tail(q)[i]
      OBVIOUS
    <2>1. PICK k \in DOMAIN q : x = q[k]
      BY DEF Lists
    <2>2. k - 1 \in DOMAIN Tail(q) /\ (k - 1) + 1 = k
      BY <1>1, <1>2, <2>1
    <2>3. x = Tail(q)[k - 1]
      BY <1>2, <2>1, <2>2
    <2>4. QED
      BY <2>2, <2>3
  <1>7. {Tail(q)[i] : i \in DOMAIN Tail(q)} = S \ {Head(q)}
    BY <1>5, <1>6
  <1>8. Head(q) \in S /\ Head(q) \in Caller
    BY <1>1 DEF Lists
  <1>9. QED
    BY <1>2, <1>4, <1>7, <1>8 DEF Lists

(* Awaiting as a function of the state of its callers. *)
Waiters(rq, l, q, w) ==
    rq \cup {c \in {"loop"} : l.at = "queued"} \cup {c \in {"quest"} : q.at = "queued"}
       \cup {c \in {"watch"} : w.at = "queued"}

LEMMA WaitersAre ==
    ASSUME NEW rq, rq \subseteq Requester, NEW l, NEW q, NEW w
    PROVE  /\ "loop" \in Waiters(rq, l, q, w) <=> l.at = "queued"
           /\ "quest" \in Waiters(rq, l, q, w) <=> q.at = "queued"
           /\ "watch" \in Waiters(rq, l, q, w) <=> w.at = "queued"
           /\ \A r \in Requester : r \in Waiters(rq, l, q, w) <=> r \in rq
           /\ Waiters(rq, l, q, w) \subseteq Caller
  BY RequesterAssumption DEF Waiters, Caller

LEMMA QueueLists ==
    ASSUME TypeOK
    PROVE  OneSearchEach <=> Lists(queue, Waiters(request, loop, quest, watch))
                                /\ (line = "calling" => queue # <<>>)
  BY DEF OneSearchEach, Lists, Awaiting, Waiters, TypeOK

(* The loop goes on from more, which holds everybody's search but its own: *)
(* it has none, or its own has just been answered.                         *)
LEMMA LoopMoves ==
    ASSUME PacingInv, NEW more, NEW left \in 0..Entries,
           Lists(more, Waiters(request, Resting, quest, watch)),
           LoopGoesOn(left, more),
           ~ Pending,
           UNCHANGED <<reasons, quest, watch, request, ranToday, autoRuns, leaked>>,
           line' \in {"free", "calling", "gap"},
           line' = "calling" => more # <<>>
    PROVE  PacingInv'
  <1>1. /\ more \in Seq(Caller) /\ "loop" \in Caller
        /\ "loop" \notin Waiters(request, Resting, quest, watch)
    BY WaitersAre DEF Lists, Caller, PacingInv, TypeOK, Resting
  <1>2. \/ /\ loop' = Resting /\ queue' = more
        \/ /\ IsPaused /\ left > 0
           /\ loop' = [at |-> "waiting", left |-> left] /\ queue' = more
        \/ /\ ~ IsPaused /\ left > 0
           /\ loop' = [at |-> "queued", left |-> left] /\ queue' = Append(more, "loop")
    BY BoundsAssumption DEF LoopGoesOn
  <1>3. Lists(queue', Waiters(request, loop', quest, watch)) /\ (line' = "calling" => queue' # <<>>)
    <2>1. CASE loop'.at # "queued" /\ queue' = more
      <3>1. Waiters(request, loop', quest, watch) = Waiters(request, Resting, quest, watch)
        BY <2>1 DEF Waiters, Resting
      <3>2. QED
        BY <2>1, <3>1
    <2>2. CASE loop'.at = "queued" /\ queue' = Append(more, "loop")
      <3>1. Waiters(request, loop', quest, watch) = Waiters(request, Resting, quest, watch) \cup {"loop"}
        BY <2>2 DEF Waiters, Resting
      <3>2. Lists(Append(more, "loop"), Waiters(request, Resting, quest, watch) \cup {"loop"})
            /\ Append(more, "loop") # <<>>
        BY <1>1, AppendLists
      <3>3. QED
        BY <2>2, <3>1, <3>2
    <2>3. QED
      BY <1>2, <2>1, <2>2 DEF Resting
  <1>4. TypeOK'
    <2>1. loop' \in [at: {"resting", "waiting", "queued", "building", "stopped"}, left: 0..Entries]
      BY <1>2, BoundsAssumption DEF Resting
    <2>2. queue' \in Seq(Caller)
      BY <1>3 DEF Lists
    <2>3. QED
      BY <2>1, <2>2 DEF PacingInv, TypeOK
  <1>5. OneSearchEach'
    BY <1>3, <1>4 DEF Lists, OneSearchEach, Awaiting, Waiters
  <1>6. GateIsHonest' /\ IdleIsReset' /\ OncePerDate'
    BY <1>2 DEF PacingInv, GateIsHonest, IdleIsReset, OncePerDate, Resting, IsPaused
  <1>7. OneSent'
    BY <1>2 DEF PacingInv, OneSent, IsPaused, Pending, Resting
  <1>8. QED
    BY <1>4, <1>5, <1>6, <1>7 DEF PacingInv

(* A reason is given up, by whoever held it, with the chain at more. *)
LEMMA ResumeMoves ==
    ASSUME PacingInv, NEW more, NEW reason, Resume(reason, more),
           Lists(more, Waiters(request, loop, quest', watch')),
           UNCHANGED <<request, ranToday, autoRuns>>,
           quest' \in [at: {"idle", "queued", "sleeping", "building"}, left: 0..Groups,
                       attempt: 0..QuestRetries, cancel: BOOLEAN],
           watch' \in [at: {"idle", "queued", "sleeping", "building"}, attempt: 0..WatchRetries],
           quest'.at = "idle" => quest' = NoBatch,
           watch'.at = "idle" => watch' = NoAlert,
           "quest-scan" \in reasons \ {reason} <=> quest'.at # "idle",
           "watch-channel" \in reasons \ {reason} <=> watch'.at # "idle",
           line' \in {"free", "calling", "gap"},
           line' = "calling" => more # <<>>,
           line = "calling" /\ Head(queue) = "loop" => line' = "calling" /\ Head(more) = "loop"
    PROVE  PacingInv'
  <1>1. /\ reasons' = reasons \ {reason} /\ leaked' = leaked
        /\ \/ /\ reasons' = {} /\ loop.at = "waiting"
              /\ loop' = [loop EXCEPT !.at = "queued"] /\ queue' = Append(more, "loop")
           \/ /\ reasons' # {} \/ loop.at # "waiting"
              /\ loop' = loop /\ queue' = more
    BY DEF Resume
  <1>2. /\ loop \in [at: {"resting", "waiting", "queued", "building", "stopped"}, left: 0..Entries]
        /\ request \subseteq Requester /\ "loop" \in Caller
        /\ "loop" \in Waiters(request, loop, quest', watch') <=> loop.at = "queued"
    BY WaitersAre DEF PacingInv, TypeOK, Caller
  <1>3. /\ loop' \in [at: {"resting", "waiting", "queued", "building", "stopped"}, left: 0..Entries]
        /\ loop'.left = loop.left /\ loop'.at \in {loop.at, "queued"}
        /\ loop'.at # loop.at => loop.at = "waiting" /\ loop'.at = "queued"
    BY <1>1, <1>2
  <1>4. Lists(queue', Waiters(request, loop', quest', watch')) /\ (line' = "calling" => queue' # <<>>)
    <2>1. CASE loop.at = "waiting" /\ loop'.at = "queued" /\ queue' = Append(more, "loop")
      <3>1. Waiters(request, loop', quest', watch') = Waiters(request, loop, quest', watch') \cup {"loop"}
        BY <2>1 DEF Waiters
      <3>2. Lists(Append(more, "loop"), Waiters(request, loop, quest', watch') \cup {"loop"})
            /\ Append(more, "loop") # <<>>
        BY <1>2, <2>1, AppendLists
      <3>3. QED
        BY <2>1, <3>1, <3>2
    <2>2. CASE loop' = loop /\ queue' = more
      BY <2>2
    <2>3. QED
      BY <1>1, <1>2, <2>1, <2>2
  <1>5. TypeOK'
    <2>1. queue' \in Seq(Caller)
      BY <1>4 DEF Lists
    <2>2. reasons' \subseteq Reason
      BY <1>1 DEF PacingInv, TypeOK
    <2>3. QED
      BY <1>1, <1>3, <2>1, <2>2 DEF PacingInv, TypeOK
  <1>6. OneSearchEach'
    BY <1>4, <1>5 DEF Lists, OneSearchEach, Awaiting, Waiters
  <1>7. GateIsHonest'
    BY <1>1, <1>2 DEF GateIsHonest, IsPaused, PacingInv
  <1>8. IdleIsReset' /\ OncePerDate'
    BY <1>3 DEF PacingInv, IdleIsReset, OncePerDate
  <1>9. OneSent'
    BY <1>1, <1>2 DEF PacingInv, OneSent, IsPaused, Pending
  <1>10. QED
    BY <1>5, <1>6, <1>7, <1>8, <1>9 DEF PacingInv

(* A caller other than the loop chains a search, and may shut the gate.    *)
LEMMA JoinMoves ==
    ASSUME PacingInv, NEW c \in Caller, c # "loop",
           c \notin Waiters(request, loop, quest, watch),
           queue' = Append(queue, c),
           Waiters(request', loop, quest', watch') = Waiters(request, loop, quest, watch) \cup {c},
           UNCHANGED <<loop, line>>,
           \/ UNCHANGED <<reasons, leaked>>
           \/ \E reason \in Reason : Pause(reason),
           request' \subseteq Requester,
           quest' \in [at: {"idle", "queued", "sleeping", "building"}, left: 0..Groups,
                       attempt: 0..QuestRetries, cancel: BOOLEAN],
           watch' \in [at: {"idle", "queued", "sleeping", "building"}, attempt: 0..WatchRetries],
           quest'.at = "idle" => quest' = NoBatch,
           watch'.at = "idle" => watch' = NoAlert,
           "quest-scan" \in reasons' <=> quest'.at # "idle",
           "watch-channel" \in reasons' <=> watch'.at # "idle",
           ranToday' \in {"no", "unsaved", "saved"} /\ autoRuns' \in Nat,
           OncePerDate'
    PROVE  PacingInv'
  <1>1. /\ reasons \subseteq reasons' /\ reasons' \subseteq Reason /\ leaked' \in Nat
        /\ IsPaused => leaked' = leaked
        /\ ~ IsPaused /\ IsPaused' => leaked' = 0
    BY DEF PacingInv, TypeOK, Pause, IsPaused
  <1>2. Lists(queue, Waiters(request, loop, quest, watch)) /\ (line = "calling" => queue # <<>>)
    BY QueueLists DEF PacingInv
  <1>3. /\ Lists(queue', Waiters(request', loop', quest', watch'))
        /\ queue' # <<>>
        /\ line = "calling" => Head(queue') = Head(queue)
    BY <1>2, AppendLists
  <1>4. TypeOK'
    <2>1. queue' \in Seq(Caller)
      BY <1>3 DEF Lists
    <2>2. QED
      BY <1>1, <2>1 DEF PacingInv, TypeOK
  <1>5. OneSearchEach'
    BY <1>3, <1>4 DEF Lists, OneSearchEach, Awaiting, Waiters
  <1>6. GateIsHonest' /\ IdleIsReset'
    BY <1>1 DEF PacingInv, GateIsHonest, IdleIsReset, IsPaused
  <1>7. OneSent'
    BY <1>1, <1>3 DEF PacingInv, OneSent, Pending, IsPaused
  <1>8. QED
    BY <1>4, <1>5, <1>6, <1>7 DEF PacingInv

LEMMA StartPassInv == ASSUME PacingInv, StartPass PROVE PacingInv'
  <1>1. loop = Resting /\ LoopGoesOn(Entries, queue) /\ Entries \in 0..Entries
    BY BoundsAssumption DEF StartPass
  <1>2. Lists(queue, Waiters(request, Resting, quest, watch)) /\ (line = "calling" => queue # <<>>)
    BY <1>1, QueueLists DEF PacingInv
  <1>3. ~ Pending /\ line \in {"free", "calling", "gap"} /\ line' = line
    BY <1>1 DEF StartPass, Pending, Resting, PacingInv, TypeOK
  <1>4. UNCHANGED <<reasons, quest, watch, request, ranToday, autoRuns, leaked>>
    BY DEF StartPass
  <1>5. QED
    BY <1>1, <1>2, <1>3, <1>4, LoopMoves

LEMMA LoopBuiltInv == ASSUME PacingInv, LoopBuilt PROVE PacingInv'
  <1>1. /\ loop.at = "building" /\ LoopGoesOn(loop.left - 1, queue)
        /\ UNCHANGED <<reasons, quest, watch, request, line, ranToday, autoRuns, leaked>>
    BY DEF LoopBuilt
  <1>2. loop.left - 1 \in 0..Entries
    BY <1>1, BoundsAssumption DEF PacingInv, IdleIsReset, TypeOK
  <1>3. Waiters(request, Resting, quest, watch) = Waiters(request, loop, quest, watch)
    BY <1>1 DEF Waiters, Resting
  <1>4. Lists(queue, Waiters(request, Resting, quest, watch)) /\ (line = "calling" => queue # <<>>)
    BY <1>3, QueueLists DEF PacingInv
  <1>5. ~ Pending /\ line' \in {"free", "calling", "gap"}
    BY <1>1 DEF Pending, PacingInv, TypeOK
  <1>6. QED
    BY <1>1, <1>2, <1>4, <1>5, LoopMoves

LEMMA LoopThrowsInv == ASSUME PacingInv, LoopThrows PROVE PacingInv'
  <1>1. /\ loop.at \in {"resting", "building"} /\ loop' = Stopped
        /\ UNCHANGED <<reasons, quest, watch, request, queue, line, ranToday, autoRuns, leaked>>
    BY DEF LoopThrows, Resting
  <1>2. loop'.at = "stopped" /\ loop' \in [at: {"resting", "waiting", "queued", "building", "stopped"},
                                           left: 0..Entries]
    BY <1>1, BoundsAssumption DEF Stopped
  <1>3. TypeOK'
    BY <1>1, <1>2 DEF PacingInv, TypeOK
  <1>4. OneSearchEach'
    BY <1>1, <1>2 DEF PacingInv, OneSearchEach, Awaiting
  <1>5. GateIsHonest' /\ IdleIsReset' /\ OncePerDate' /\ OneSent'
    BY <1>1, <1>2 DEF PacingInv, GateIsHonest, IdleIsReset, OncePerDate, OneSent, Pending, IsPaused
  <1>6. QED
    BY <1>3, <1>4, <1>5 DEF PacingInv

LEMMA ToggleInv == ASSUME PacingInv, ToggleManual PROVE PacingInv'
  <1>1. UNCHANGED <<quest, watch, request, line, ranToday, autoRuns>>
    BY DEF ToggleManual
  <1>2. Lists(queue, Waiters(request, loop, quest, watch)) /\ (line = "calling" => queue # <<>>)
    BY QueueLists DEF PacingInv
  <1>3. CASE IsPaused
    <2>1. Resume("manual", queue)
      BY <1>3 DEF ToggleManual
    <2>2. /\ "quest-scan" \in reasons \ {"manual"} <=> quest'.at # "idle"
          /\ "watch-channel" \in reasons \ {"manual"} <=> watch'.at # "idle"
          /\ quest'.at = "idle" => quest' = NoBatch
          /\ watch'.at = "idle" => watch' = NoAlert
          /\ quest' \in [at: {"idle", "queued", "sleeping", "building"}, left: 0..Groups,
                         attempt: 0..QuestRetries, cancel: BOOLEAN]
          /\ watch' \in [at: {"idle", "queued", "sleeping", "building"}, attempt: 0..WatchRetries]
          /\ line' \in {"free", "calling", "gap"}
      BY <1>1 DEF PacingInv, GateIsHonest, IdleIsReset, TypeOK
    <2>3. QED
      BY <1>1, <1>2, <2>1, <2>2, ResumeMoves
  <1>4. CASE ~ IsPaused
    <2>1. /\ reasons = {} /\ reasons' = {"manual"} /\ leaked' = 0
          /\ loop' = loop /\ queue' = queue
      BY <1>4 DEF ToggleManual, Pause, IsPaused
    <2>2. TypeOK'
      BY <1>1, <2>1 DEF PacingInv, TypeOK, Reason
    <2>3. GateIsHonest' /\ IdleIsReset' /\ OncePerDate' /\ OneSent'
      BY <1>1, <2>1 DEF PacingInv, GateIsHonest, IdleIsReset, OncePerDate, OneSent, IsPaused
    <2>4. OneSearchEach'
      BY <1>1, <2>1 DEF PacingInv, OneSearchEach, Awaiting
    <2>5. QED
      BY <2>2, <2>3, <2>4 DEF PacingInv
  <1>5. QED
    BY <1>3, <1>4

LEMMA RunBatchInv ==
    ASSUME PacingInv, RunBatch, ranToday' \in {"no", "unsaved", "saved"}, autoRuns' \in Nat, OncePerDate'
    PROVE  PacingInv'
  <1>1. /\ quest = NoBatch /\ quest' = [NoBatch EXCEPT !.at = "queued", !.left = Groups]
        /\ Pause("quest-scan") /\ queue' = Append(queue, "quest")
        /\ UNCHANGED <<loop, watch, request, line>>
    BY DEF RunBatch
  <1>2. /\ quest.at = "idle" /\ quest'.at = "queued"
        /\ quest' \in [at: {"idle", "queued", "sleeping", "building"}, left: 0..Groups,
                       attempt: 0..QuestRetries, cancel: BOOLEAN]
    <2>1. quest' = [at |-> "queued", left |-> Groups, attempt |-> 0, cancel |-> FALSE]
      BY <1>1 DEF NoBatch
    <2>2. Groups \in 0..Groups /\ 0 \in 0..QuestRetries
      BY BoundsAssumption
    <2>3. QED
      BY <1>1, <2>1, <2>2 DEF NoBatch
  <1>3. /\ "quest" \notin Waiters(request, loop, quest, watch)
        /\ Waiters(request', loop, quest', watch') = Waiters(request, loop, quest, watch) \cup {"quest"}
    BY <1>1, <1>2, RequesterAssumption DEF Waiters, PacingInv, TypeOK
  <1>4. reasons' = reasons \cup {"quest-scan"} /\ "quest-scan" \in Reason /\ "quest" \in Caller
    BY <1>1 DEF Pause, Reason, Caller
  <1>5. /\ request' \subseteq Requester
        /\ watch' \in [at: {"idle", "queued", "sleeping", "building"}, attempt: 0..WatchRetries]
        /\ watch'.at = "idle" => watch' = NoAlert
        /\ "quest-scan" \in reasons' <=> quest'.at # "idle"
        /\ "watch-channel" \in reasons' <=> watch'.at # "idle"
    BY <1>1, <1>2, <1>4 DEF PacingInv, TypeOK, IdleIsReset, GateIsHonest
  <1>6. QED
    BY <1>1, <1>2, <1>3, <1>4, <1>5, JoinMoves

LEMMA AlertInv == ASSUME PacingInv, Alert PROVE PacingInv'
  <1>1. /\ watch = NoAlert /\ watch' = [NoAlert EXCEPT !.at = "queued"]
        /\ Pause("watch-channel") /\ queue' = Append(queue, "watch")
        /\ UNCHANGED <<loop, quest, request, line, ranToday, autoRuns>>
    BY DEF Alert
  <1>2. /\ watch.at = "idle" /\ watch'.at = "queued"
        /\ watch' \in [at: {"idle", "queued", "sleeping", "building"}, attempt: 0..WatchRetries]
    BY <1>1, BoundsAssumption DEF NoAlert
  <1>3. /\ "watch" \notin Waiters(request, loop, quest, watch)
        /\ Waiters(request', loop, quest', watch') = Waiters(request, loop, quest, watch) \cup {"watch"}
    BY <1>1, <1>2, RequesterAssumption DEF Waiters, PacingInv, TypeOK
  <1>4. reasons' = reasons \cup {"watch-channel"} /\ "watch-channel" \in Reason /\ "watch" \in Caller
    BY <1>1 DEF Pause, Reason, Caller
  <1>5. /\ request' \subseteq Requester
        /\ quest' \in [at: {"idle", "queued", "sleeping", "building"}, left: 0..Groups,
                       attempt: 0..QuestRetries, cancel: BOOLEAN]
        /\ quest'.at = "idle" => quest' = NoBatch
        /\ "quest-scan" \in reasons' <=> quest'.at # "idle"
        /\ "watch-channel" \in reasons' <=> watch'.at # "idle"
        /\ ranToday' \in {"no", "unsaved", "saved"} /\ autoRuns' \in Nat /\ OncePerDate'
    BY <1>1, <1>2, <1>4 DEF PacingInv, TypeOK, IdleIsReset, GateIsHonest, OncePerDate
  <1>6. QED
    BY <1>1, <1>2, <1>3, <1>4, <1>5, JoinMoves

LEMMA AskInv == ASSUME PacingInv, NEW r \in Requester, Ask(r) PROVE PacingInv'
  <1>1. /\ r \notin request /\ request' = request \cup {r} /\ queue' = Append(queue, r)
        /\ UNCHANGED <<reasons, loop, quest, watch, line, ranToday, autoRuns, leaked>>
    BY DEF Ask
  <1>2. r \in Caller /\ r \notin {"loop", "quest", "watch"}
    BY RequesterAssumption DEF Caller
  <1>3. /\ r \notin Waiters(request, loop, quest, watch)
        /\ Waiters(request', loop, quest', watch') = Waiters(request, loop, quest, watch) \cup {r}
    BY <1>1, <1>2 DEF Waiters
  <1>4. /\ request' \subseteq Requester
        /\ quest' \in [at: {"idle", "queued", "sleeping", "building"}, left: 0..Groups,
                       attempt: 0..QuestRetries, cancel: BOOLEAN]
        /\ watch' \in [at: {"idle", "queued", "sleeping", "building"}, attempt: 0..WatchRetries]
        /\ quest'.at = "idle" => quest' = NoBatch
        /\ watch'.at = "idle" => watch' = NoAlert
        /\ "quest-scan" \in reasons' <=> quest'.at # "idle"
        /\ "watch-channel" \in reasons' <=> watch'.at # "idle"
        /\ ranToday' \in {"no", "unsaved", "saved"} /\ autoRuns' \in Nat /\ OncePerDate'
    BY <1>1 DEF PacingInv, TypeOK, IdleIsReset, GateIsHonest, OncePerDate
  <1>5. QED
    BY <1>1, <1>2, <1>3, <1>4, JoinMoves

LEMMA RetryInv == ASSUME PacingInv, QuestRetry \/ WatchRetry PROVE PacingInv'
  <1>1. /\ UNCHANGED <<reasons, loop, request, line, ranToday, autoRuns, leaked>>
        /\ request \subseteq Requester
        /\ ranToday' \in {"no", "unsaved", "saved"} /\ autoRuns' \in Nat /\ OncePerDate'
    BY DEF QuestRetry, WatchRetry, PacingInv, TypeOK, OncePerDate
  <1>2. CASE QuestRetry
    <2>1. /\ quest.at = "sleeping" /\ quest' = [quest EXCEPT !.at = "queued"]
          /\ queue' = Append(queue, "quest") /\ watch' = watch
      BY <1>2 DEF QuestRetry
    <2>2. /\ quest'.at = "queued"
          /\ quest' \in [at: {"idle", "queued", "sleeping", "building"}, left: 0..Groups,
                         attempt: 0..QuestRetries, cancel: BOOLEAN]
      BY <2>1 DEF PacingInv, TypeOK
    <2>3. /\ "quest" \notin Waiters(request, loop, quest, watch) /\ "quest" \in Caller
          /\ Waiters(request', loop, quest', watch') = Waiters(request, loop, quest, watch) \cup {"quest"}
      BY <1>1, <2>1, <2>2, RequesterAssumption DEF Waiters, Caller
    <2>4. /\ watch' \in [at: {"idle", "queued", "sleeping", "building"}, attempt: 0..WatchRetries]
          /\ watch'.at = "idle" => watch' = NoAlert
          /\ "quest-scan" \in reasons' <=> quest'.at # "idle"
          /\ "watch-channel" \in reasons' <=> watch'.at # "idle"
      BY <1>1, <2>1, <2>2 DEF PacingInv, TypeOK, IdleIsReset, GateIsHonest
    <2>5. QED
      BY <1>1, <2>1, <2>2, <2>3, <2>4, JoinMoves
  <1>3. CASE WatchRetry
    <2>1. /\ watch.at = "sleeping" /\ watch' = [watch EXCEPT !.at = "queued"]
          /\ queue' = Append(queue, "watch") /\ quest' = quest
      BY <1>3 DEF WatchRetry
    <2>2. /\ watch'.at = "queued"
          /\ watch' \in [at: {"idle", "queued", "sleeping", "building"}, attempt: 0..WatchRetries]
      BY <2>1 DEF PacingInv, TypeOK
    <2>3. /\ "watch" \notin Waiters(request, loop, quest, watch) /\ "watch" \in Caller
          /\ Waiters(request', loop, quest', watch') = Waiters(request, loop, quest, watch) \cup {"watch"}
      BY <1>1, <2>1, <2>2, RequesterAssumption DEF Waiters, Caller
    <2>4. /\ quest' \in [at: {"idle", "queued", "sleeping", "building"}, left: 0..Groups,
                         attempt: 0..QuestRetries, cancel: BOOLEAN]
          /\ quest'.at = "idle" => quest' = NoBatch
          /\ "quest-scan" \in reasons' <=> quest'.at # "idle"
          /\ "watch-channel" \in reasons' <=> watch'.at # "idle"
      BY <1>1, <2>1, <2>2 DEF PacingInv, TypeOK, IdleIsReset, GateIsHonest
    <2>5. QED
      BY <1>1, <2>1, <2>2, <2>3, <2>4, JoinMoves
  <1>4. QED
    BY <1>2, <1>3

(* The head of the chain is answered: the rest lists everybody else. *)
LEMMA Answered ==
    ASSUME PacingInv, line = "calling"
    PROVE  /\ queue # <<>> /\ Head(queue) \in Caller
           /\ Head(queue) \in Waiters(request, loop, quest, watch)
           /\ Lists(Tail(queue), Waiters(request, loop, quest, watch) \ {Head(queue)})
  BY QueueLists, TailLists DEF PacingInv

LEMMA LoopAnsweredInv ==
    ASSUME PacingInv, NEW ok \in BOOLEAN, line = "calling", line' = "gap",
           Head(queue) = "loop", LoopAnswered(ok), UNCHANGED <<ranToday, autoRuns>>
    PROVE  PacingInv'
  <1>1. /\ loop.at = "queued" /\ loop.left > 0
        /\ loop \in [at: {"resting", "waiting", "queued", "building", "stopped"}, left: 0..Entries]
        /\ request \subseteq Requester
    BY Answered, WaitersAre DEF PacingInv, TypeOK, IdleIsReset
  <1>2. Waiters(request, Resting, quest, watch) = Waiters(request, loop, quest, watch) \ {"loop"}
    BY <1>1, RequesterAssumption DEF Waiters, Resting
  <1>3. Lists(Tail(queue), Waiters(request, Resting, quest, watch))
    BY <1>2, Answered
  <1>4. UNCHANGED <<reasons, quest, watch, request, leaked>>
    BY DEF LoopAnswered
  <1>5. CASE ok
    <2>1. loop' = [loop EXCEPT !.at = "building"] /\ queue' = Tail(queue)
      BY <1>5 DEF LoopAnswered
    <2>2. /\ loop'.at = "building" /\ loop'.left = loop.left
          /\ loop' \in [at: {"resting", "waiting", "queued", "building", "stopped"}, left: 0..Entries]
      BY <1>1, <2>1
    <2>3. Waiters(request, loop', quest, watch) = Waiters(request, Resting, quest, watch)
      BY <2>2 DEF Waiters, Resting
    <2>4. Lists(queue', Waiters(request', loop', quest', watch'))
      BY <1>3, <1>4, <2>1, <2>3
    <2>5. TypeOK'
      BY <1>4, <2>2, <2>4 DEF PacingInv, TypeOK, Lists
    <2>6. OneSearchEach'
      BY <2>4, <2>5 DEF Lists, OneSearchEach, Awaiting, Waiters
    <2>7. GateIsHonest' /\ IdleIsReset' /\ OncePerDate' /\ OneSent'
      BY <1>1, <1>4, <2>2
         DEF PacingInv, GateIsHonest, IdleIsReset, OncePerDate, OneSent, IsPaused, Pending
    <2>8. QED
      BY <2>5, <2>6, <2>7 DEF PacingInv
  <1>6. CASE ~ ok
    <2>1. LoopGoesOn(loop.left - 1, Tail(queue)) /\ loop.left - 1 \in 0..Entries
      BY <1>1, <1>6, BoundsAssumption DEF LoopAnswered
    <2>2. ~ Pending
      BY DEF Pending
    <2>3. QED
      BY <1>3, <1>4, <2>1, <2>2, LoopMoves
  <1>7. QED
    BY <1>5, <1>6

(* A caller other than the loop has its answer and leaves the gate alone. *)
LEMMA LeaveMoves ==
    ASSUME PacingInv, line = "calling", line' = "gap", Head(queue) # "loop",
           queue' = Tail(queue),
           Waiters(request', loop, quest', watch') = Waiters(request, loop, quest, watch) \ {Head(queue)},
           UNCHANGED <<reasons, loop, ranToday, autoRuns, leaked>>,
           request' \subseteq Requester,
           quest' \in [at: {"idle", "queued", "sleeping", "building"}, left: 0..Groups,
                       attempt: 0..QuestRetries, cancel: BOOLEAN],
           watch' \in [at: {"idle", "queued", "sleeping", "building"}, attempt: 0..WatchRetries],
           quest'.at = "idle" => quest' = NoBatch,
           watch'.at = "idle" => watch' = NoAlert,
           quest'.at # "idle" <=> quest.at # "idle",
           watch'.at # "idle" <=> watch.at # "idle"
    PROVE  PacingInv'
  <1>1. Lists(queue', Waiters(request', loop', quest', watch'))
    BY Answered
  <1>2. TypeOK'
    BY <1>1 DEF PacingInv, TypeOK, Lists
  <1>3. OneSearchEach'
    BY <1>1, <1>2 DEF Lists, OneSearchEach, Awaiting, Waiters
  <1>4. GateIsHonest' /\ IdleIsReset' /\ OncePerDate' /\ OneSent'
    BY DEF PacingInv, GateIsHonest, IdleIsReset, OncePerDate, OneSent, IsPaused, Pending
  <1>5. QED
    BY <1>2, <1>3, <1>4 DEF PacingInv

LEMMA QuestAnsweredInv ==
    ASSUME PacingInv, NEW ok \in BOOLEAN, line = "calling", line' = "gap",
           Head(queue) = "quest", QuestAnswered(ok), UNCHANGED <<ranToday, autoRuns>>
    PROVE  PacingInv'
  <1>1. /\ quest.at = "queued" /\ request \subseteq Requester
        /\ quest \in [at: {"idle", "queued", "sleeping", "building"}, left: 0..Groups,
                      attempt: 0..QuestRetries, cancel: BOOLEAN]
        /\ watch \in [at: {"idle", "queued", "sleeping", "building"}, attempt: 0..WatchRetries]
        /\ watch.at = "idle" => watch = NoAlert
    BY Answered, WaitersAre DEF PacingInv, TypeOK, IdleIsReset
  <1>2. watch' = watch /\ request' = request
    BY DEF QuestAnswered
  <1>3. ASSUME quest'.at # "queued"
        PROVE  Waiters(request', loop, quest', watch') = Waiters(request, loop, quest, watch) \ {"quest"}
    BY <1>1, <1>2, <1>3, RequesterAssumption DEF Waiters
  <1>4. CASE ok \/ quest.attempt < QuestRetries
    <2>1. /\ queue' = Tail(queue) /\ UNCHANGED <<reasons, loop, leaked>>
          /\ \/ quest' = [quest EXCEPT !.at = "building"]
             \/ quest.attempt < QuestRetries
                /\ quest' = [quest EXCEPT !.at = "sleeping", !.attempt = @ + 1]
      BY <1>1, <1>4 DEF QuestAnswered
    <2>2. quest.attempt < QuestRetries => quest.attempt + 1 \in 0..QuestRetries
      BY <1>1, BoundsAssumption
    <2>3. /\ quest'.at \in {"building", "sleeping"}
          /\ quest' \in [at: {"idle", "queued", "sleeping", "building"}, left: 0..Groups,
                         attempt: 0..QuestRetries, cancel: BOOLEAN]
      BY <1>1, <2>1, <2>2
    <2>4. QED
      BY <1>1, <1>2, <1>3, <2>1, <2>3, LeaveMoves
  <1>5. CASE ~ ok /\ ~ quest.attempt < QuestRetries
    <2>1. quest' = NoBatch /\ Resume("quest-scan", Tail(queue))
      BY <1>5 DEF QuestAnswered
    <2>2. /\ quest'.at = "idle"
          /\ quest' \in [at: {"idle", "queued", "sleeping", "building"}, left: 0..Groups,
                         attempt: 0..QuestRetries, cancel: BOOLEAN]
      <3>1. quest' = [at |-> "idle", left |-> 0, attempt |-> 0, cancel |-> FALSE]
        BY <2>1 DEF NoBatch
      <3>2. 0 \in 0..Groups /\ 0 \in 0..QuestRetries
        BY BoundsAssumption
      <3>3. QED
        BY <3>1, <3>2
    <2>3. Lists(Tail(queue), Waiters(request, loop, quest', watch'))
      BY <1>2, <1>3, <2>2, Answered
    <2>4. /\ "quest-scan" \in reasons \ {"quest-scan"} <=> quest'.at # "idle"
          /\ "watch-channel" \in reasons \ {"quest-scan"} <=> watch'.at # "idle"
      BY <1>2, <2>2 DEF PacingInv, GateIsHonest
    <2>5. QED
      BY <1>1, <1>2, <2>1, <2>2, <2>3, <2>4, ResumeMoves
  <1>6. QED
    BY <1>4, <1>5

LEMMA WatchAnsweredInv ==
    ASSUME PacingInv, NEW ok \in BOOLEAN, line = "calling", line' = "gap",
           Head(queue) = "watch", WatchAnswered(ok), UNCHANGED <<ranToday, autoRuns>>
    PROVE  PacingInv'
  <1>1. /\ watch.at = "queued" /\ request \subseteq Requester
        /\ quest \in [at: {"idle", "queued", "sleeping", "building"}, left: 0..Groups,
                      attempt: 0..QuestRetries, cancel: BOOLEAN]
        /\ watch \in [at: {"idle", "queued", "sleeping", "building"}, attempt: 0..WatchRetries]
        /\ quest.at = "idle" => quest = NoBatch
    BY Answered, WaitersAre DEF PacingInv, TypeOK, IdleIsReset
  <1>2. quest' = quest /\ request' = request
    BY DEF WatchAnswered
  <1>3. ASSUME watch'.at # "queued"
        PROVE  Waiters(request', loop, quest', watch') = Waiters(request, loop, quest, watch) \ {"watch"}
    BY <1>1, <1>2, <1>3, RequesterAssumption DEF Waiters
  <1>4. CASE ok \/ watch.attempt < WatchRetries
    <2>1. /\ queue' = Tail(queue) /\ UNCHANGED <<reasons, loop, leaked>>
          /\ \/ watch' = [watch EXCEPT !.at = "building"]
             \/ watch.attempt < WatchRetries
                /\ watch' = [at |-> "sleeping", attempt |-> watch.attempt + 1]
      BY <1>1, <1>4 DEF WatchAnswered
    <2>2. watch.attempt < WatchRetries => watch.attempt + 1 \in 0..WatchRetries
      BY <1>1, BoundsAssumption
    <2>3. /\ watch'.at \in {"building", "sleeping"}
          /\ watch' \in [at: {"idle", "queued", "sleeping", "building"}, attempt: 0..WatchRetries]
      BY <1>1, <2>1, <2>2
    <2>4. QED
      BY <1>1, <1>2, <1>3, <2>1, <2>3, LeaveMoves
  <1>5. CASE ~ ok /\ ~ watch.attempt < WatchRetries
    <2>1. watch' = NoAlert /\ Resume("watch-channel", Tail(queue))
      BY <1>5 DEF WatchAnswered
    <2>2. /\ watch'.at = "idle"
          /\ watch' \in [at: {"idle", "queued", "sleeping", "building"}, attempt: 0..WatchRetries]
      BY <2>1, BoundsAssumption DEF NoAlert
    <2>3. Lists(Tail(queue), Waiters(request, loop, quest', watch'))
      BY <1>2, <1>3, <2>2, Answered
    <2>4. /\ "quest-scan" \in reasons \ {"watch-channel"} <=> quest'.at # "idle"
          /\ "watch-channel" \in reasons \ {"watch-channel"} <=> watch'.at # "idle"
      BY <1>2, <2>2 DEF PacingInv, GateIsHonest
    <2>5. QED
      BY <1>1, <1>2, <2>1, <2>2, <2>3, <2>4, ResumeMoves
  <1>6. QED
    BY <1>4, <1>5

LEMMA RequestAnsweredInv ==
    ASSUME PacingInv, line = "calling", line' = "gap",
           Head(queue) \in Requester, RequestAnswered, UNCHANGED <<ranToday, autoRuns>>
    PROVE  PacingInv'
  <1>1. /\ request' = request \ {Head(queue)} /\ queue' = Tail(queue)
        /\ UNCHANGED <<reasons, loop, quest, watch, leaked>>
    BY DEF RequestAnswered
  <1>2. Head(queue) \notin {"loop", "quest", "watch"}
    BY RequesterAssumption
  <1>3. Waiters(request', loop, quest', watch') = Waiters(request, loop, quest, watch) \ {Head(queue)}
    BY <1>1, <1>2 DEF Waiters
  <1>4. /\ request' \subseteq Requester
        /\ quest' \in [at: {"idle", "queued", "sleeping", "building"}, left: 0..Groups,
                       attempt: 0..QuestRetries, cancel: BOOLEAN]
        /\ watch' \in [at: {"idle", "queued", "sleeping", "building"}, attempt: 0..WatchRetries]
        /\ quest'.at = "idle" => quest' = NoBatch
        /\ watch'.at = "idle" => watch' = NoAlert
    BY <1>1 DEF PacingInv, TypeOK, IdleIsReset
  <1>5. QED
    BY <1>1, <1>2, <1>3, <1>4, LeaveMoves

LEMMA QuestBuiltInv ==
    ASSUME PacingInv, NEW thrown \in BOOLEAN, QuestBuilt(thrown)
    PROVE  PacingInv'
  <1>1. /\ quest.at = "building" /\ quest \in [at: {"idle", "queued", "sleeping", "building"},
                                              left: 0..Groups, attempt: 0..QuestRetries, cancel: BOOLEAN]
        /\ watch \in [at: {"idle", "queued", "sleeping", "building"}, attempt: 0..WatchRetries]
        /\ watch.at = "idle" => watch = NoAlert
        /\ request \subseteq Requester
        /\ UNCHANGED <<watch, request, line, ranToday, autoRuns>>
        /\ line \in {"free", "calling", "gap"}
        /\ ranToday \in {"no", "unsaved", "saved"} /\ autoRuns \in Nat
    BY DEF QuestBuilt, PacingInv, TypeOK, IdleIsReset
  <1>2. CASE quest.left > 1 /\ ~ quest.cancel /\ ~ thrown
    <2>1. /\ quest' = [quest EXCEPT !.at = "queued", !.left = @ - 1, !.attempt = 0]
          /\ queue' = Append(queue, "quest") /\ UNCHANGED <<reasons, loop, leaked>>
      BY <1>2 DEF QuestBuilt
    <2>2. quest.left - 1 \in 0..Groups /\ 0 \in 0..QuestRetries
      BY <1>1, <1>2, BoundsAssumption
    <2>3. /\ quest'.at = "queued"
          /\ quest' \in [at: {"idle", "queued", "sleeping", "building"}, left: 0..Groups,
                         attempt: 0..QuestRetries, cancel: BOOLEAN]
      BY <1>1, <2>1, <2>2
    <2>4. /\ "quest" \notin Waiters(request, loop, quest, watch) /\ "quest" \in Caller
          /\ Waiters(request', loop, quest', watch') = Waiters(request, loop, quest, watch) \cup {"quest"}
      BY <1>1, <2>3, RequesterAssumption DEF Waiters, Caller
    <2>5. /\ "quest-scan" \in reasons' <=> quest'.at # "idle"
          /\ "watch-channel" \in reasons' <=> watch'.at # "idle"
          /\ OncePerDate'
      BY <1>1, <2>1, <2>3 DEF PacingInv, GateIsHonest, OncePerDate
    <2>6. QED
      BY <1>1, <2>1, <2>3, <2>4, <2>5, JoinMoves
  <1>3. CASE ~ (quest.left > 1 /\ ~ quest.cancel /\ ~ thrown)
    <2>1. quest' = NoBatch /\ Resume("quest-scan", queue)
      BY <1>3 DEF QuestBuilt
    <2>2. /\ quest'.at = "idle"
          /\ quest' \in [at: {"idle", "queued", "sleeping", "building"}, left: 0..Groups,
                         attempt: 0..QuestRetries, cancel: BOOLEAN]
      <3>1. quest' = [at |-> "idle", left |-> 0, attempt |-> 0, cancel |-> FALSE]
        BY <2>1 DEF NoBatch
      <3>2. 0 \in 0..Groups /\ 0 \in 0..QuestRetries
        BY BoundsAssumption
      <3>3. QED
        BY <3>1, <3>2
    <2>3. Waiters(request, loop, quest', watch') = Waiters(request, loop, quest, watch)
      BY <1>1, <2>2 DEF Waiters
    <2>4. Lists(queue, Waiters(request, loop, quest', watch')) /\ (line = "calling" => queue # <<>>)
      BY <2>3, QueueLists DEF PacingInv
    <2>5. /\ "quest-scan" \in reasons \ {"quest-scan"} <=> quest'.at # "idle"
          /\ "watch-channel" \in reasons \ {"quest-scan"} <=> watch'.at # "idle"
      BY <1>1, <2>2 DEF PacingInv, GateIsHonest
    <2>6. QED
      BY <1>1, <2>1, <2>2, <2>4, <2>5, ResumeMoves
  <1>4. QED
    BY <1>2, <1>3

LEMMA WatchBuiltInv == ASSUME PacingInv, WatchBuilt PROVE PacingInv'
  <1>1. /\ watch.at = "building" /\ watch' = NoAlert /\ Resume("watch-channel", queue)
        /\ UNCHANGED <<quest, request, line, ranToday, autoRuns>>
        /\ line \in {"free", "calling", "gap"}
    BY DEF WatchBuilt, PacingInv, TypeOK
  <1>2. /\ watch'.at = "idle"
        /\ watch' \in [at: {"idle", "queued", "sleeping", "building"}, attempt: 0..WatchRetries]
        /\ quest' \in [at: {"idle", "queued", "sleeping", "building"}, left: 0..Groups,
                       attempt: 0..QuestRetries, cancel: BOOLEAN]
        /\ quest'.at = "idle" => quest' = NoBatch
    BY <1>1, BoundsAssumption DEF NoAlert, PacingInv, TypeOK, IdleIsReset
  <1>3. Waiters(request, loop, quest', watch') = Waiters(request, loop, quest, watch)
    BY <1>1, <1>2 DEF Waiters
  <1>4. Lists(queue, Waiters(request, loop, quest', watch')) /\ (line = "calling" => queue # <<>>)
    BY <1>3, QueueLists DEF PacingInv
  <1>5. /\ "quest-scan" \in reasons \ {"watch-channel"} <=> quest'.at # "idle"
        /\ "watch-channel" \in reasons \ {"watch-channel"} <=> watch'.at # "idle"
    BY <1>1, <1>2 DEF PacingInv, GateIsHonest
  <1>6. QED
    BY <1>1, <1>2, <1>4, <1>5, ResumeMoves

LEMMA SendInv == ASSUME PacingInv, Send PROVE PacingInv'
  <1>1. /\ line = "free" /\ queue # <<>> /\ line' = "calling"
        /\ leaked' = IF Head(queue) = "loop" /\ IsPaused THEN leaked + 1 ELSE leaked
        /\ UNCHANGED <<reasons, loop, quest, watch, request, queue, ranToday, autoRuns>>
    BY DEF Send
  <1>2. TypeOK'
    BY <1>1 DEF PacingInv, TypeOK
  <1>3. OneSearchEach'
    BY <1>1 DEF PacingInv, OneSearchEach, Awaiting
  <1>4. GateIsHonest' /\ IdleIsReset' /\ OncePerDate'
    BY <1>1 DEF PacingInv, GateIsHonest, IdleIsReset, OncePerDate, IsPaused
  <1>5. Head(queue) = "loop" => loop.at = "queued"
    <2>1. Lists(queue, Waiters(request, loop, quest, watch)) /\ request \subseteq Requester
      BY QueueLists DEF PacingInv, TypeOK
    <2>2. Head(queue) \in Waiters(request, loop, quest, watch)
      BY <1>1, <2>1, TailLists
    <2>3. QED
      BY <2>1, <2>2, WaitersAre
  <1>6. OneSent'
    BY <1>1, <1>5 DEF PacingInv, OneSent, Pending, IsPaused, TypeOK
  <1>7. QED
    BY <1>2, <1>3, <1>4, <1>6 DEF PacingInv

(* Steps that no search enters or leaves the chain by. *)
LEMMA OtherInv ==
    ASSUME PacingInv, GapEnds \/ CancelBatch \/ Midnight \/ Reload \/ UNCHANGED vars
    PROVE  PacingInv'
  <1>1. CASE GapEnds \/ Midnight \/ UNCHANGED vars
    <2>1. /\ UNCHANGED <<reasons, loop, quest, watch, request, queue, leaked>>
          /\ line' = line \/ (line = "gap" /\ line' = "free")
          /\ (ranToday' = ranToday /\ autoRuns' = autoRuns) \/ (ranToday' = "no" /\ autoRuns' = 0)
      BY <1>1 DEF GapEnds, Midnight, vars
    <2>2. TypeOK'
      <3>1. TypeOK /\ ranToday \in {"no", "unsaved", "saved"} /\ autoRuns \in Nat /\ line \in {"free", "calling", "gap"}
        BY DEF PacingInv, TypeOK
      <3>2. ranToday' \in {"no", "unsaved", "saved"}
        BY <2>1, <3>1
      <3>3. autoRuns' \in Nat /\ line' \in {"free", "calling", "gap"}
        BY <2>1, <3>1
      <3>4. QED
        BY <2>1, <3>1, <3>2, <3>3 DEF TypeOK
    <2>3. OneSearchEach'
      BY <2>1 DEF PacingInv, OneSearchEach, Awaiting
    <2>4. GateIsHonest' /\ IdleIsReset'
      BY <2>1 DEF PacingInv, GateIsHonest, IdleIsReset, IsPaused
    <2>5. OncePerDate' /\ OneSent'
      BY <2>1 DEF PacingInv, OncePerDate, OneSent, Pending, IsPaused
    <2>6. QED
      BY <2>2, <2>3, <2>4, <2>5 DEF PacingInv
  <1>2. CASE CancelBatch
    <2>1. /\ quest # NoBatch /\ quest' = [quest EXCEPT !.cancel = TRUE]
          /\ UNCHANGED <<reasons, loop, watch, request, queue, line, ranToday, autoRuns, leaked>>
      BY <1>2 DEF CancelBatch
    <2>2. /\ quest'.at = quest.at /\ quest.at # "idle"
          /\ quest' \in [at: {"idle", "queued", "sleeping", "building"}, left: 0..Groups,
                         attempt: 0..QuestRetries, cancel: BOOLEAN]
      BY <2>1 DEF PacingInv, TypeOK, IdleIsReset
    <2>3. TypeOK'
      BY <2>1, <2>2 DEF PacingInv, TypeOK
    <2>4. OneSearchEach'
      BY <2>1, <2>2 DEF PacingInv, OneSearchEach, Awaiting
    <2>5. GateIsHonest'
      BY <2>1, <2>2 DEF PacingInv, GateIsHonest, IsPaused
    <2>6. IdleIsReset' /\ OncePerDate' /\ OneSent'
      BY <2>1, <2>2 DEF PacingInv, IdleIsReset, OncePerDate, OneSent, Pending, IsPaused
    <2>7. QED
      BY <2>3, <2>4, <2>5, <2>6 DEF PacingInv
  <1>3. CASE Reload
    <2>1. /\ reasons' = {} /\ loop' = Resting /\ quest' = NoBatch /\ watch' = NoAlert
          /\ request' = {} /\ queue' = <<>> /\ line' = "free" /\ leaked' = 0
          /\ \/ UNCHANGED <<ranToday, autoRuns>>
             \/ ranToday' = "no" /\ autoRuns' = 0
      BY <1>3 DEF Reload
    <2>2. TypeOK'
      BY <2>1, BoundsAssumption DEF PacingInv, TypeOK, Resting, NoBatch, NoAlert
    <2>3. OneSearchEach'
      BY <2>1 DEF OneSearchEach, Awaiting, Resting, NoBatch, NoAlert
    <2>4. GateIsHonest' /\ IdleIsReset' /\ OncePerDate' /\ OneSent'
      BY <2>1 DEF PacingInv, GateIsHonest, IdleIsReset, OncePerDate, OneSent, IsPaused,
                  Resting, NoBatch, NoAlert
    <2>5. QED
      BY <2>2, <2>3, <2>4 DEF PacingInv
  <1>4. QED
    BY <1>1, <1>2, <1>3

LEMMA InitPacing == Init => PacingInv
  <1> SUFFICES ASSUME Init PROVE PacingInv
    OBVIOUS
  <1>1. TypeOK
    <2>1. /\ Resting \in [at: {"resting", "waiting", "queued", "building", "stopped"}, left: 0..Entries]
          /\ NoBatch \in [at: {"idle", "queued", "sleeping", "building"}, left: 0..Groups,
                          attempt: 0..QuestRetries, cancel: BOOLEAN]
          /\ NoAlert \in [at: {"idle", "queued", "sleeping", "building"}, attempt: 0..WatchRetries]
      BY BoundsAssumption DEF Resting, NoBatch, NoAlert
    <2>2. <<>> \in Seq(Caller)
      OBVIOUS
    <2>3. QED
      BY <2>1, <2>2 DEF Init, TypeOK
  <1>2. OneSearchEach
    BY DEF Init, OneSearchEach, Awaiting, Resting, NoBatch, NoAlert
  <1>3. GateIsHonest /\ IdleIsReset /\ OncePerDate /\ OneSent
    BY DEF Init, GateIsHonest, IdleIsReset, OncePerDate, OneSent, IsPaused, Resting, NoBatch, NoAlert
  <1>4. QED
    BY <1>1, <1>2, <1>3 DEF PacingInv

LEMMA StepPacing == PacingInv /\ [Next]_vars => PacingInv'
  <1> SUFFICES ASSUME PacingInv, [Next]_vars PROVE PacingInv'
    OBVIOUS
  <1>1. ASSUME StartBatch \/ \E storing \in BOOLEAN : AutoRun(storing) PROVE PacingInv'
    <2>1. OncePerDate /\ ranToday \in {"no", "unsaved", "saved"} /\ autoRuns \in Nat
      BY DEF PacingInv, TypeOK
    <2>2. CASE StartBatch
      BY <2>1, <2>2, RunBatchInv DEF StartBatch, OncePerDate
    <2>3. CASE \E storing \in BOOLEAN : AutoRun(storing)
      <3>1. RunBatch /\ ranToday' \in {"unsaved", "saved"} /\ autoRuns' = 1
        BY <2>1, <2>3 DEF AutoRun, OncePerDate
      <3>2. QED
        BY <3>1, RunBatchInv DEF OncePerDate
    <2>4. QED
      BY <1>1, <2>2, <2>3
  <1>2. ASSUME NEW ok \in BOOLEAN, Settle(ok) PROVE PacingInv'
    BY <1>2, LoopAnsweredInv, QuestAnsweredInv, WatchAnsweredInv, RequestAnsweredInv DEF Settle
  <1>3. QED
    BY <1>1, <1>2, StartPassInv, LoopBuiltInv, LoopThrowsInv, ToggleInv, AlertInv, AskInv, RetryInv,
       QuestBuiltInv, WatchBuiltInv, SendInv, OtherInv
       DEF Next

LEMMA PacingCorrect == Spec => []PacingInv
  BY InitPacing, StepPacing, PTL DEF Spec

-----------------------------------------------------------------------------

(* The connector drives the chain as any caller may: seen through the      *)
(* pacing's variables, it is the pacing.                                   *)
LEMMA WatchStepPaces == [WatchNext]_allVars => [Next]_vars
  <1> SUFFICES ASSUME WatchNext \/ UNCHANGED allVars PROVE [Next]_vars
    OBVIOUS
  <1>1. CASE UNCHANGED allVars
    BY <1>1 DEF allVars
  <1>2. CASE Post \/ Load \/ StartCheck \/ \E ok \in BOOLEAN : Unread(ok)
    BY <1>2 DEF Post, Load, StartCheck, Unread
  <1>3. CASE SaveAndSearch
    BY <1>3 DEF SaveAndSearch, Next
  <1>4. CASE ReloadPage
    BY <1>4 DEF ReloadPage, Next
  <1>5. CASE Paced(Chain)
    BY <1>5 DEF Paced, Chain, Next
  <1>6. CASE \/ Paced(StartPass) \/ Paced(ToggleManual) \/ Paced(StartBatch)
             \/ \E storing \in BOOLEAN : Paced(AutoRun(storing))
             \/ Paced(CancelBatch) \/ \E r \in Requester : Paced(Ask(r))
             \/ Paced(QuestRetry) \/ Paced(WatchRetry)
             \/ Paced(LoopBuilt) \/ Paced(LoopThrows) \/ Paced(WatchBuilt)
             \/ \E thrown \in BOOLEAN : Paced(QuestBuilt(thrown))
             \/ Paced(Midnight)
    BY <1>6 DEF Paced, Next
  <1>7. QED
    BY <1>1, <1>2, <1>3, <1>4, <1>5, <1>6 DEF WatchNext

THEOREM ConnectorPaces == WatchSpec => Spec
  <1>1. WatchInit => Init
    BY DEF WatchInit
  <1>2. QED
    BY <1>1, WatchStepPaces, PTL DEF WatchSpec, Spec

(* The gate is neither forgotten shut nor opened under whoever holds it.   *)
THEOREM GateTheorem == WatchSpec => []GateIsHonest
  <1>1. PacingInv => GateIsHonest
    BY DEF PacingInv
  <1>2. QED
    BY <1>1, ConnectorPaces, PacingCorrect, PTL

(* Nobody waits for a search that is not chained, nor for two. *)
THEOREM SearchTheorem == WatchSpec => []OneSearchEach
  <1>1. PacingInv => OneSearchEach
    BY DEF PacingInv
  <1>2. QED
    BY <1>1, ConnectorPaces, PacingCorrect, PTL

(* The loop gets at most one call out while it is paused. *)
THEOREM LeakTheorem == WatchSpec => []AtMostOneLeak
  <1>1. PacingInv => AtMostOneLeak
    BY DEF PacingInv, OneSent, AtMostOneLeak, TypeOK
  <1>2. QED
    BY <1>1, ConnectorPaces, PacingCorrect, PTL

(* The automatic batch starts at most once a day, through every reload.    *)
THEOREM DailyTheorem == WatchSpec => []AutoOncePerDay
  <1>1. PacingInv => AutoOncePerDay
    BY DEF PacingInv, OncePerDate, AutoOncePerDay
  <1>2. QED
    BY <1>1, ConnectorPaces, PacingCorrect, PTL

-----------------------------------------------------------------------------

(* Only the connector starts a special search. *)
LEMMA NoSearchUnasked ==
    ASSUME PacingInv, watch = NoAlert,
           \/ StartPass \/ ToggleManual \/ StartBatch \/ CancelBatch
           \/ \E storing \in BOOLEAN : AutoRun(storing)
           \/ \E r \in Requester : Ask(r)
           \/ Chain \/ QuestRetry \/ WatchRetry
           \/ LoopBuilt \/ LoopThrows \/ WatchBuilt \/ Midnight
           \/ \E thrown \in BOOLEAN : QuestBuilt(thrown)
    PROVE  watch' = NoAlert
  <1>1. watch.at = "idle"
    BY DEF NoAlert
  <1>2. ASSUME NEW ok \in BOOLEAN, Settle(ok) PROVE watch' = NoAlert
    <2>1. Head(queue) # "watch"
      BY <1>1, <1>2, Answered, WaitersAre DEF Settle, PacingInv, TypeOK
    <2>2. QED
      BY <1>2, <2>1 DEF Settle, LoopAnswered, QuestAnswered, RequestAnswered
  <1>3. CASE Chain
    BY <1>2, <1>3 DEF Chain, Send, GapEnds
  <1>4. CASE WatchRetry \/ WatchBuilt
    BY <1>1, <1>4 DEF WatchRetry, WatchBuilt
  <1>5. CASE \/ StartPass \/ ToggleManual \/ StartBatch \/ CancelBatch
             \/ \E storing \in BOOLEAN : AutoRun(storing)
             \/ \E r \in Requester : Ask(r)
             \/ QuestRetry \/ LoopBuilt \/ LoopThrows \/ Midnight
             \/ \E thrown \in BOOLEAN : QuestBuilt(thrown)
    BY <1>5 DEF StartPass, ToggleManual, StartBatch, AutoRun, RunBatch, CancelBatch, Ask,
                QuestRetry, LoopBuilt, LoopThrows, QuestBuilt, Midnight
  <1>6. QED
    BY <1>3, <1>4, <1>5

LEMMA PacedConnector ==
    ASSUME PacingInv, ConnectorInv, UNCHANGED <<seen, saved, loaded, spent>>,
           check' = IF watch # NoAlert /\ watch' = NoAlert THEN NoCheck ELSE check,
           watch = NoAlert => watch' = NoAlert
    PROVE  ConnectorInv'
  <1>1. CASE watch = NoAlert
    <2>1. check' = check /\ watch' = NoAlert
      BY <1>1
    <2>2. QED
      BY <1>1, <2>1 DEF ConnectorInv, ConnectorTypeOK
  <1>2. CASE watch # NoAlert /\ watch' # NoAlert
    <2>1. check' = check
      BY <1>2
    <2>2. QED
      BY <1>2, <2>1 DEF ConnectorInv, ConnectorTypeOK
  <1>3. CASE watch # NoAlert /\ watch' = NoAlert
    <2>1. check' = NoCheck /\ check.at = "searching"
      BY <1>3 DEF ConnectorInv
    <2>2. QED
      BY <1>3, <2>1 DEF ConnectorInv, ConnectorTypeOK, NoCheck
  <1>4. QED
    BY <1>1, <1>2, <1>3

LEMMA StepConnector == PacingInv /\ ConnectorInv /\ [WatchNext]_allVars => ConnectorInv'
  <1> SUFFICES ASSUME PacingInv, ConnectorInv, WatchNext \/ UNCHANGED allVars PROVE ConnectorInv'
    OBVIOUS
  <1>0. /\ check \in [at: {"idle", "asking", "saving", "searching"},
                      last: BOOLEAN, again: BOOLEAN, early: BOOLEAN]
        /\ seen \in BOOLEAN /\ saved \in BOOLEAN /\ loaded \in BOOLEAN /\ spent \in BOOLEAN
    BY DEF ConnectorInv, ConnectorTypeOK
  <1>1. CASE UNCHANGED allVars
    BY <1>1 DEF allVars, connector, vars, ConnectorInv, ConnectorTypeOK
  <1>2. CASE Post
    <2>1. /\ seen' = FALSE /\ saved' = FALSE /\ spent' = FALSE
          /\ check' = [check EXCEPT !.last = FALSE] /\ watch' = watch /\ loaded' = loaded
      BY <1>2 DEF Post, vars
    <2>2. /\ check'.at = check.at /\ check'.last = FALSE /\ check'.again = check.again
          /\ check'.early = check.early
          /\ check' \in [at: {"idle", "asking", "saving", "searching"},
                         last: BOOLEAN, again: BOOLEAN, early: BOOLEAN]
      BY <1>0, <2>1
    <2>3. ASSUME check'.at = "idle" PROVE check' = NoCheck
      <3>1. check = NoCheck
        BY <2>2, <2>3 DEF ConnectorInv
      <3>2. check'.again = FALSE /\ check'.early = FALSE
        BY <2>2, <3>1 DEF NoCheck
      <3>3. check' = [at |-> "idle", last |-> FALSE, again |-> FALSE, early |-> FALSE]
        BY <2>2, <2>3, <3>2
      <3>4. QED
        BY <3>3 DEF NoCheck
    <2>4. QED
      BY <2>1, <2>2, <2>3 DEF ConnectorInv, ConnectorTypeOK
  <1>3. CASE Load
    <2>1. loaded' = TRUE /\ seen' = saved /\ check' = check /\ saved' = saved /\ spent' = spent /\ watch' = watch
      BY <1>3 DEF Load, vars
    <2>2. QED
      BY <2>1 DEF ConnectorInv, ConnectorTypeOK
  <1>4. CASE StartCheck
    <2>1. /\ check = NoCheck /\ check' = [NoCheck EXCEPT !.at = "asking", !.early = ~ loaded \/ seen # saved]
          /\ UNCHANGED <<watch, seen, saved, loaded, spent>>
      BY <1>4 DEF StartCheck, vars
    <2>2. /\ check'.at = "asking" /\ check'.early = (~ loaded \/ seen # saved) /\ check.at = "idle"
          /\ check' \in [at: {"idle", "asking", "saving", "searching"},
                         last: BOOLEAN, again: BOOLEAN, early: BOOLEAN]
      BY <2>1 DEF NoCheck
    <2>3. ConnectorTypeOK'
      BY <1>0, <2>1, <2>2 DEF ConnectorTypeOK
    <2>4. ~ check'.early => loaded' /\ (seen' <=> saved')
      BY <1>0, <2>1, <2>2
    <2>5. QED
      BY <2>1, <2>2, <2>3, <2>4 DEF ConnectorInv
  <1>5. ASSUME NEW ok \in BOOLEAN, Unread(ok) PROVE ConnectorInv'
    <2>1. check.at = "asking" /\ UNCHANGED <<watch, saved, loaded, spent>>
      BY <1>5 DEF Unread, vars
    <2>2. CASE check' = NoCheck /\ seen' = seen
      BY <2>1, <2>2 DEF ConnectorInv, ConnectorTypeOK, NoCheck
    <2>3. CASE ~ seen /\ check' = Found /\ seen' = TRUE
      <3>1. /\ check'.at = "saving" /\ check'.last = TRUE /\ check'.again = spent /\ check'.early = check.early
            /\ check' \in [at: {"idle", "asking", "saving", "searching"},
                           last: BOOLEAN, again: BOOLEAN, early: BOOLEAN]
        BY <1>0, <2>3 DEF Found
      <3>2. check'.again => check'.early
        BY <1>0, <2>1, <2>3, <3>1 DEF ConnectorInv
      <3>3. QED
        BY <2>1, <2>3, <3>1, <3>2 DEF ConnectorInv, ConnectorTypeOK
    <2>4. QED
      BY <1>5, <2>2, <2>3 DEF Unread
  <1>6. CASE SaveAndSearch
    <2>1. /\ check.at = "saving" /\ loaded /\ saved' = check.last /\ spent' = check.last
          /\ check' = Searching /\ UNCHANGED <<seen, loaded>>
      BY <1>6 DEF SaveAndSearch
    <2>2. watch' # NoAlert
      BY <1>6 DEF SaveAndSearch, Alert, NoAlert
    <2>3. /\ check'.at = "searching"
          /\ check' \in [at: {"idle", "asking", "saving", "searching"},
                         last: BOOLEAN, again: BOOLEAN, early: BOOLEAN]
      BY <2>1 DEF Searching, NoCheck
    <2>4. seen => check.last
      BY <1>0, <2>1 DEF ConnectorInv
    <2>5. ConnectorTypeOK'
      BY <1>0, <2>1, <2>3 DEF ConnectorTypeOK
    <2>6. QED
      BY <2>1, <2>2, <2>3, <2>4, <2>5 DEF ConnectorInv
  <1>7. CASE ReloadPage
    <2>1. /\ watch' = NoAlert /\ loaded' = FALSE /\ seen' = FALSE /\ check' = NoCheck
          /\ \/ UNCHANGED <<saved, spent>>
             \/ saved' = check.last /\ spent' = check.last
      BY <1>7 DEF ReloadPage, Reload
    <2>2. saved' \in BOOLEAN /\ spent' \in BOOLEAN /\ (saved' <=> spent')
      BY <1>0, <2>1 DEF ConnectorInv
    <2>3. QED
      BY <2>1, <2>2 DEF ConnectorInv, ConnectorTypeOK, NoCheck
  <1>8. CASE \/ Paced(StartPass) \/ Paced(ToggleManual) \/ Paced(StartBatch)
             \/ \E storing \in BOOLEAN : Paced(AutoRun(storing))
             \/ Paced(CancelBatch) \/ \E r \in Requester : Paced(Ask(r))
             \/ Paced(Chain) \/ Paced(QuestRetry) \/ Paced(WatchRetry)
             \/ Paced(LoopBuilt) \/ Paced(LoopThrows) \/ Paced(WatchBuilt)
             \/ \E thrown \in BOOLEAN : Paced(QuestBuilt(thrown))
             \/ Paced(Midnight)
    <2>1. /\ UNCHANGED <<seen, saved, loaded, spent>>
          /\ check' = IF watch # NoAlert /\ watch' = NoAlert THEN NoCheck ELSE check
      BY <1>8 DEF Paced
    <2>2. watch = NoAlert => watch' = NoAlert
      BY <1>8, NoSearchUnasked DEF Paced
    <2>3. QED
      BY <2>1, <2>2, PacedConnector
  <1>9. QED
    BY <1>1, <1>2, <1>3, <1>4, <1>5, <1>6, <1>7, <1>8 DEF WatchNext

LEMMA ConnectorCorrect == WatchSpec => [](PacingInv /\ ConnectorInv)
  <1>1. WatchInit => PacingInv /\ ConnectorInv
    <2> SUFFICES ASSUME WatchInit PROVE PacingInv /\ ConnectorInv
      OBVIOUS
    <2>1. watch = NoAlert /\ check = NoCheck /\ seen = FALSE /\ saved = FALSE /\ spent = FALSE /\ loaded = FALSE
      BY DEF WatchInit, Init
    <2>2. PacingInv
      BY InitPacing DEF WatchInit
    <2>3. check.at = "idle" /\ ConnectorTypeOK
      BY <2>1 DEF ConnectorTypeOK, NoCheck
    <2>4. QED
      BY <2>1, <2>2, <2>3 DEF ConnectorInv
  <1>2. PacingInv /\ ConnectorInv /\ [WatchNext]_allVars => (PacingInv /\ ConnectorInv)'
    BY StepPacing, WatchStepPaces, StepConnector
  <1>3. QED
    BY <1>1, <1>2, PTL DEF WatchSpec

(* A message that has been seen has been searched for, whatever failed,    *)
(* unless a reload came between saving its id and searching.               *)
THEOREM SeenTheorem == WatchSpec => []SeenIsSearched
  <1>1. ConnectorInv => SeenIsSearched
    BY DEF ConnectorInv, SeenIsSearched, NoCheck
  <1>2. QED
    BY <1>1, ConnectorCorrect, PTL

(* A check that begins with the saved id in memory never searches for a    *)
(* message again, through any number of reloads.                           *)
THEOREM OnceTheorem == WatchSpec => SearchedOnce
  <1>1. ConnectorInv => [check.at = "saving" /\ check'.at = "searching" => ~ check.again \/ check.early]_allVars
    BY DEF ConnectorInv
  <1>2. QED
    BY <1>1, ConnectorCorrect, PTL DEF SearchedOnce
=============================================================================
