--------------------------- MODULE MiniscordPacing ---------------------------
(***************************************************************************)
(* Who talks to miniscord and when: the connector's chain, which runs one  *)
(* search at a time with a gap after each, and its callers: the scheduled  *)
(* loop behind the pause gate, the quest-scan batch and the watch channel's*)
(* special search, which hold the gate shut while they run, and scans on   *)
(* request, which do not.                                                  *)
(*                                                                         *)
(* A promise's continuation runs in the turn that resolves it, so what a   *)
(* caller does at once with an answer is part of the action that delivers  *)
(* it; the records of a successful search are built into sightings first,  *)
(* which looks up species and is a step of its own (Built).                *)
(***************************************************************************)
EXTENDS Integers, Sequences, FiniteSets

CONSTANTS
    Requester,      \* scans running for a subscriber or the operator
    Entries,        \* commands in a pass of the scheduled loop
    Groups,         \* rows of the quest scan's CSV
    QuestRetries,   \* QUEST_SCAN_MAX_RETRIES
    WatchRetries    \* WATCH_CHANNEL_SEARCH_MAX_RETRIES

ASSUME BoundsAssumption ==
    /\ Entries \in Nat \ {0} /\ Groups \in Nat \ {0}
    /\ QuestRetries \in Nat /\ WatchRetries \in Nat
ASSUME RequesterAssumption == Requester \cap {"loop", "quest", "watch"} = {}

VARIABLES
    reasons,    \* the pause gate
    loop,       \* the scheduled loop: at, and the entries left in this pass
    quest,      \* the batch: at, groups left, attempt, cancelRequested
    watch,      \* the special search: at, attempt
    request,    \* requesters waiting for an answer
    queue,      \* callers whose search is chained, in order
    line,       \* "free", "calling" the head of queue, or in the "gap" after a call
    ranToday,   \* whether autoState.lastRunDate is today's: "no", or "unsaved" if
                \* only this page knows, or "saved"
    autoRuns,   \* history: automatic batches of today that have not been forgotten
    leaked      \* history: loop calls sent since the gate was shut

vars == <<reasons, loop, quest, watch, request, queue, line, ranToday, autoRuns, leaked>>

Reason == {"manual", "quest-scan", "watch-channel"}
Caller == {"loop", "quest", "watch"} \cup Requester
IsPaused == reasons # {}

NoBatch == [at |-> "idle", left |-> 0, attempt |-> 0, cancel |-> FALSE]
NoAlert == [at |-> "idle", attempt |-> 0]
Resting == [at |-> "resting", left |-> 0]
Stopped == [at |-> "stopped", left |-> 0]

-----------------------------------------------------------------------------

Init ==
    /\ reasons = {}
    /\ loop = Resting
    /\ quest = NoBatch
    /\ watch = NoAlert
    /\ request = {}
    /\ queue = <<>>
    /\ line = "free"
    /\ ranToday = "no"
    /\ autoRuns = 0
    /\ leaked = 0

(* Slip: the gate is asked at the start of a pass only. *)
LoopGoesOnUnasked(left, more) ==
    CASE left = 0 -> loop' = Resting /\ queue' = more
      [] left = Entries /\ IsPaused -> loop' = [at |-> "waiting", left |-> left] /\ queue' = more
      [] OTHER -> loop' = [at |-> "queued", left |-> left] /\ queue' = Append(more, "loop")

(* waitIfPaused with left entries to send: wait, or queue the next.        *)
LoopGoesOn(left, more) ==
    CASE left = 0          -> loop' = Resting /\ queue' = more
      [] left > 0 /\ IsPaused -> loop' = [at |-> "waiting", left |-> left] /\ queue' = more
      [] OTHER             -> loop' = [at |-> "queued", left |-> left] /\ queue' = Append(more, "loop")

(* gate.pause(reason), which is idempotent. *)
Pause(reason) ==
    /\ reasons' = reasons \cup {reason}
    /\ leaked' = IF IsPaused THEN leaked ELSE 0

(* gate.resume(reason): the last reason to go releases the waiting loop,   *)
(* whose call then queues behind more.                                     *)
Resume(reason, more) ==
    /\ reasons' = reasons \ {reason}
    /\ IF reasons' = {} /\ loop.at = "waiting"
       THEN loop' = [loop EXCEPT !.at = "queued"] /\ queue' = Append(more, "loop")
       ELSE loop' = loop /\ queue' = more
    /\ UNCHANGED leaked

StartPass ==
    /\ loop = Resting
    /\ LoopGoesOn(Entries, queue)
    /\ UNCHANGED <<reasons, quest, watch, request, line, ranToday, autoRuns, leaked>>

(* The dashboard's button: one click resumes or pauses by what it shows.   *)
ToggleManual ==
    /\ IF IsPaused THEN Resume("manual", queue)
       ELSE Pause("manual") /\ UNCHANGED <<loop, queue>>
    /\ UNCHANGED <<quest, watch, request, line, ranToday, autoRuns>>

(* Slip: no look at whether a batch is running. *)
RunBatchAnyway ==
    /\ quest' = [NoBatch EXCEPT !.at = "queued", !.left = Groups]
    /\ Pause("quest-scan")
    /\ Len(queue) < 4
    /\ queue' = Append(queue, "quest")
    /\ UNCHANGED <<loop, watch, request, line>>

RunBatch ==
    /\ quest = NoBatch
    /\ quest' = [NoBatch EXCEPT !.at = "queued", !.left = Groups]
    /\ Pause("quest-scan")
    /\ queue' = Append(queue, "quest")
    /\ UNCHANGED <<loop, watch, request, line>>

(* The start button, or runQuestScanBatch from the commands page. *)
StartBatch == RunBatch /\ UNCHANGED <<ranToday, autoRuns>>

(* Slip: the date of the last automatic run is not kept. *)
AutoRunUnsaved(storing) ==
    /\ ranToday = "no"
    /\ RunBatch
    /\ ranToday' = ranToday
    /\ autoRuns' = autoRuns + 1

(* checkAutoRun inside its window.  A localStorage that takes nothing      *)
(* passes unnoticed.                                                       *)
AutoRun(storing) ==
    /\ ranToday = "no"
    /\ RunBatch
    /\ ranToday' = IF storing THEN "saved" ELSE "unsaved"
    /\ autoRuns' = autoRuns + 1

CancelBatch ==
    /\ quest # NoBatch
    /\ quest' = [quest EXCEPT !.cancel = TRUE]
    /\ UNCHANGED <<reasons, loop, watch, request, queue, line, ranToday, autoRuns, leaked>>

(* A new message on the watched channel. *)
Alert ==
    /\ watch = NoAlert
    /\ watch' = [NoAlert EXCEPT !.at = "queued"]
    /\ Pause("watch-channel")
    /\ queue' = Append(queue, "watch")
    /\ UNCHANGED <<loop, quest, request, line, ranToday, autoRuns>>

Ask(r) ==
    /\ r \notin request
    /\ request' = request \cup {r}
    /\ queue' = Append(queue, r)
    /\ UNCHANGED <<reasons, loop, quest, watch, line, ranToday, autoRuns, leaked>>

(* The chain. *)
Send ==
    /\ line = "free" /\ queue # <<>>
    /\ line' = "calling"
    /\ leaked' = IF Head(queue) = "loop" /\ IsPaused THEN leaked + 1 ELSE leaked
    /\ UNCHANGED <<reasons, loop, quest, watch, request, queue, ranToday, autoRuns>>

GapEnds ==
    /\ line = "gap"
    /\ line' = "free"
    /\ UNCHANGED <<reasons, loop, quest, watch, request, queue, ranToday, autoRuns, leaked>>

LoopAnswered(ok) ==
    /\ IF ok THEN loop' = [loop EXCEPT !.at = "building"] /\ queue' = Tail(queue)
             ELSE LoopGoesOn(loop.left - 1, Tail(queue))
    /\ UNCHANGED <<reasons, quest, watch, request, leaked>>

LoopBuilt ==
    /\ loop.at = "building"
    /\ LoopGoesOn(loop.left - 1, queue)
    /\ UNCHANGED <<reasons, quest, watch, request, line, ranToday, autoRuns, leaked>>

(* A record that cannot be built, or a list of searches that cannot be     *)
(* read, rejects the pass before it arms the next one: the loop is over.   *)
LoopThrows ==
    /\ loop = Resting \/ loop.at = "building"
    /\ loop' = Stopped
    /\ UNCHANGED <<reasons, quest, watch, request, queue, line, ranToday, autoRuns, leaked>>

(* A group that failed is tried again after a pause, and stops the batch   *)
(* after its last retry, cancelled or not.                                 *)
QuestAnswered(ok) ==
    /\ UNCHANGED <<watch, request>>
    /\ \/ /\ ok
          /\ quest' = [quest EXCEPT !.at = "building"]
          /\ queue' = Tail(queue)
          /\ UNCHANGED <<reasons, loop, leaked>>
       \/ /\ ~ ok /\ quest.attempt < QuestRetries
          /\ quest' = [quest EXCEPT !.at = "sleeping", !.attempt = @ + 1]
          /\ queue' = Tail(queue)
          /\ UNCHANGED <<reasons, loop, leaked>>
       \/ /\ ~ ok /\ quest.attempt = QuestRetries
          /\ quest' = NoBatch
          /\ Resume("quest-scan", Tail(queue))

(* The next group; or the batch ends, because that was the last, it was    *)
(* cancelled, or building threw, which may happen at any group.            *)
QuestBuilt(thrown) ==
    /\ quest.at = "building"
    /\ IF quest.left > 1 /\ ~ quest.cancel /\ ~ thrown
       THEN /\ quest' = [quest EXCEPT !.at = "queued", !.left = @ - 1, !.attempt = 0]
            /\ queue' = Append(queue, "quest")
            /\ UNCHANGED <<reasons, loop, leaked>>
       ELSE /\ quest' = NoBatch
            /\ Resume("quest-scan", queue)
    /\ UNCHANGED <<watch, request, line, ranToday, autoRuns>>

(* Slip: only a search that succeeds lets go of the gate. *)
WatchAnsweredHolding(ok) ==
    /\ UNCHANGED <<reasons, loop, quest, request, leaked>>
    /\ queue' = Tail(queue)
    /\ watch' = CASE ok -> [watch EXCEPT !.at = "building"]
                  [] ~ ok /\ watch.attempt < WatchRetries ->
                        [at |-> "sleeping", attempt |-> watch.attempt + 1]
                  [] OTHER -> NoAlert

WatchAnswered(ok) ==
    /\ UNCHANGED <<quest, request>>
    /\ \/ /\ ok
          /\ watch' = [watch EXCEPT !.at = "building"]
          /\ queue' = Tail(queue)
          /\ UNCHANGED <<reasons, loop, leaked>>
       \/ /\ ~ ok /\ watch.attempt < WatchRetries
          /\ watch' = [at |-> "sleeping", attempt |-> watch.attempt + 1]
          /\ queue' = Tail(queue)
          /\ UNCHANGED <<reasons, loop, leaked>>
       \/ /\ ~ ok /\ watch.attempt = WatchRetries
          /\ watch' = NoAlert
          /\ Resume("watch-channel", Tail(queue))

(* Built or thrown, the search lets go of the gate (finally). *)
WatchBuilt ==
    /\ watch.at = "building"
    /\ watch' = NoAlert
    /\ Resume("watch-channel", queue)
    /\ UNCHANGED <<quest, request, line, ranToday, autoRuns>>

RequestAnswered ==
    /\ request' = request \ {Head(queue)}
    /\ queue' = Tail(queue)
    /\ UNCHANGED <<reasons, loop, quest, watch, leaked>>

(* Slip: a call that fails leaves the chain rejected. *)
SettleUncaught(ok) ==
    /\ line = "calling"
    /\ line' = IF ok THEN "gap" ELSE "rejected"
    /\ \/ Head(queue) = "loop" /\ LoopAnswered(ok)
       \/ Head(queue) = "quest" /\ QuestAnswered(ok)
       \/ Head(queue) = "watch" /\ WatchAnswered(ok)
       \/ Head(queue) \in Requester /\ RequestAnswered
    /\ UNCHANGED <<ranToday, autoRuns>>

(* The call settles, by an answer, an error or its 12 s timeout. *)
Settle(ok) ==
    /\ line = "calling"
    /\ line' = "gap"
    /\ \/ Head(queue) = "loop" /\ LoopAnswered(ok)
       \/ Head(queue) = "quest" /\ QuestAnswered(ok)
       \/ Head(queue) = "watch" /\ WatchAnswered(ok)
       \/ Head(queue) \in Requester /\ RequestAnswered
    /\ UNCHANGED <<ranToday, autoRuns>>

QuestRetry ==
    /\ quest.at = "sleeping"
    /\ quest' = [quest EXCEPT !.at = "queued"]
    /\ queue' = Append(queue, "quest")
    /\ UNCHANGED <<reasons, loop, watch, request, line, ranToday, autoRuns, leaked>>

WatchRetry ==
    /\ watch.at = "sleeping"
    /\ watch' = [watch EXCEPT !.at = "queued"]
    /\ queue' = Append(queue, "watch")
    /\ UNCHANGED <<reasons, loop, quest, request, line, ranToday, autoRuns, leaked>>

(* Only localStorage survives: a date that was not saved is forgotten. *)
Reload ==
    /\ reasons' = {} /\ loop' = Resting /\ quest' = NoBatch /\ watch' = NoAlert
    /\ request' = {} /\ queue' = <<>> /\ line' = "free" /\ leaked' = 0
    /\ IF ranToday = "unsaved" THEN ranToday' = "no" /\ autoRuns' = 0
       ELSE UNCHANGED <<ranToday, autoRuns>>

Midnight ==
    /\ ranToday' = "no"
    /\ autoRuns' = 0
    /\ UNCHANGED <<reasons, loop, quest, watch, request, queue, line, leaked>>

Chain == Send \/ GapEnds \/ \E ok \in BOOLEAN : Settle(ok)

Next ==
    \/ StartPass \/ ToggleManual \/ StartBatch \/ CancelBatch \/ Alert
    \/ \E storing \in BOOLEAN : AutoRun(storing)
    \/ \E r \in Requester : Ask(r)
    \/ Send \/ GapEnds
    \/ \E ok \in BOOLEAN : Settle(ok)
    \/ QuestRetry \/ WatchRetry
    \/ LoopBuilt \/ LoopThrows \/ WatchBuilt
    \/ \E thrown \in BOOLEAN : QuestBuilt(thrown)
    \/ Reload \/ Midnight

Spec == Init /\ [][Next]_vars

-----------------------------------------------------------------------------

TypeOK ==
    /\ reasons \subseteq Reason
    /\ loop \in [at: {"resting", "waiting", "queued", "building", "stopped"}, left: 0..Entries]
    /\ quest \in [at: {"idle", "queued", "sleeping", "building"}, left: 0..Groups,
                  attempt: 0..QuestRetries, cancel: BOOLEAN]
    /\ watch \in [at: {"idle", "queued", "sleeping", "building"}, attempt: 0..WatchRetries]
    /\ request \subseteq Requester
    /\ queue \in Seq(Caller)
    /\ line \in {"free", "calling", "gap"}
    /\ ranToday \in {"no", "unsaved", "saved"} /\ autoRuns \in Nat /\ leaked \in Nat

(* The gate loses no wake-up and no release: the loop waits only while     *)
(* something pauses it, and the batch and the special search hold their    *)
(* reason exactly while they run, whatever fails, is cancelled or overlaps.*)
GateIsHonest ==
    /\ loop.at = "waiting" => IsPaused
    /\ "quest-scan" \in reasons <=> quest.at # "idle"
    /\ "watch-channel" \in reasons <=> watch.at # "idle"

(* Whoever awaits an answer has exactly one search in the chain, and the   *)
(* chain runs no search nobody awaits.                                     *)
Awaiting ==
    request \cup {c \in {"loop"} : loop.at = "queued"} \cup {c \in {"quest"} : quest.at = "queued"}
            \cup {c \in {"watch"} : watch.at = "queued"}
OneSearchEach ==
    /\ {queue[i] : i \in DOMAIN queue} = Awaiting
    /\ \A i, j \in DOMAIN queue : queue[i] = queue[j] => i = j
    /\ line = "calling" => queue # <<>>

(* A pause does not recall the call the loop has queued, but lets no       *)
(* second one out.                                                         *)
AtMostOneLeak == IsPaused => leaked <= 1

(* The automatic quest scan "fires at most once per calendar day",         *)
(* reloads included, but for a date that could not be saved: a page load   *)
(* forgets that run, and the count starts anew.                            *)
AutoOncePerDay == autoRuns <= 1

(* A search that is chained is answered, unless the page is reloaded, and  *)
(* the quest batch ends, whatever miniscord answers and whoever cancels.   *)
EveryCallerGoesOn ==
    /\ \A r \in Requester : r \in request ~> r \notin request
    /\ quest.at # "idle" ~> quest.at = "idle"
=============================================================================
