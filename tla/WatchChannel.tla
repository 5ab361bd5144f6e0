---------------------------- MODULE WatchChannel ----------------------------
(***************************************************************************)
(* The watch channel's connector on top of the search chain: GET /unread   *)
(* tells the id of the channel's last message; an id other than the last   *)
(* seen one is remembered, saved, and answered with the special search     *)
(* (MiniscordPacing!Alert), and nothing is asked again before that search  *)
(* has ended.                                                              *)
(*                                                                         *)
(* A check starts at a tick of the 15 s timer or with the answer to any    *)
(* other call of miniscord's; the gym poll makes its first call before     *)
(* start() has loaded the saved id, so a check may precede that load. The  *)
(* 15 s between checks only thin them out and are left out. Ids are only   *)
(* ever compared with the channel's last one, so each is kept as whether   *)
(* it is that one, and the channel may have any number of messages.        *)
(***************************************************************************)
EXTENDS MiniscordPacing

VARIABLES
    seen,       \* #lastSeenMessageId is the channel's last message
    saved,      \* watchChannelLastSeenMessageId in workerMetadata is
    loaded,     \* start() has got its answer from workerMetadata
    check,      \* the check under way (#checking): at; whether its id is the
                \* channel's last; history: again, it was searched for before,
                \* and early, it began while memory disagreed with storage
    spent       \* history: the channel's last message has been searched for, or
                \* a reload cut its search off between saving and sending it

connector == <<seen, saved, loaded, check, spent>>
allVars == <<vars, connector>>

NoCheck == [at |-> "idle", last |-> FALSE, again |-> FALSE, early |-> FALSE]

WatchInit ==
    /\ Init
    /\ seen = FALSE /\ saved = FALSE /\ spent = FALSE
    /\ loaded = FALSE
    /\ check = NoCheck

Post ==
    /\ seen' = FALSE /\ saved' = FALSE /\ spent' = FALSE
    /\ check' = [check EXCEPT !.last = FALSE]
    /\ UNCHANGED <<vars, loaded>>

(* The get was issued before any put of this page: it answers the old row. *)
Load ==
    /\ ~ loaded
    /\ loaded' = TRUE
    /\ seen' = saved
    /\ UNCHANGED <<vars, saved, check, spent>>

StartCheck ==
    /\ check = NoCheck
    /\ check' = [NoCheck EXCEPT !.at = "asking", !.early = ~ loaded \/ seen # saved]
    /\ UNCHANGED <<vars, seen, saved, loaded, spent>>

Found == [check EXCEPT !.at = "saving", !.last = TRUE, !.again = spent]

Searching == [NoCheck EXCEPT !.at = "searching"]

(* Slip: a check that fails does not let go of #checking. *)
UnreadLatched(ok) ==
    /\ check.at = "asking"
    /\ \/ ok /\ check' = NoCheck /\ UNCHANGED seen
       \/ ~ ok /\ check' = [check EXCEPT !.at = "latched"] /\ UNCHANGED seen
       \/ ok /\ ~ seen /\ check' = Found /\ seen' = TRUE
    /\ UNCHANGED <<vars, saved, loaded, spent>>

(* GET /unread fails, times out or has no message; or it has a last one,   *)
(* which is the one seen or is kept in memory and saved.                   *)
Unread(ok) ==
    /\ check.at = "asking"
    /\ \/ (~ ok \/ seen) /\ check' = NoCheck /\ UNCHANGED seen
       \/ ok /\ ~ seen /\ check' = Found /\ seen' = TRUE
    /\ UNCHANGED <<vars, saved, loaded, spent>>

(* Slip: a gate that somebody else holds puts the special search off. *)
SearchUnlessPaused ==
    /\ check.at = "saving" /\ loaded
    /\ saved' = check.last
    /\ IF IsPaused
       THEN check' = NoCheck /\ UNCHANGED <<vars, spent>>
       ELSE check' = Searching /\ spent' = check.last /\ Alert
    /\ UNCHANGED <<seen, loaded>>

(* Slip: the search starts over an id that is not saved. *)
SearchUnsaved ==
    /\ check.at = "saving" /\ loaded
    /\ check' = Searching
    /\ spent' = check.last
    /\ Alert
    /\ UNCHANGED <<seen, saved, loaded>>

(* The put settles and runSpecialSearch queues its first attempt.          *)
SaveAndSearch ==
    /\ check.at = "saving" /\ loaded
    /\ saved' = check.last
    /\ check' = Searching
    /\ spent' = check.last
    /\ Alert
    /\ UNCHANGED <<seen, loaded>>

(* A step A of the chain or its callers; the check ends with its search.   *)
Paced(A) ==
    /\ A
    /\ check' = IF watch # NoAlert /\ watch' = NoAlert THEN NoCheck ELSE check
    /\ UNCHANGED <<seen, saved, loaded, spent>>

(* A put under way may or may not have been committed.                     *)
ReloadPage ==
    /\ Reload
    /\ loaded' = FALSE /\ seen' = FALSE
    /\ check' = NoCheck
    /\ \/ UNCHANGED <<saved, spent>>
       \/ check.at = "saving" /\ saved' = check.last /\ spent' = check.last

WatchNext ==
    \/ Post \/ Load \/ StartCheck
    \/ \E ok \in BOOLEAN : Unread(ok)
    \/ SaveAndSearch
    \/ Paced(StartPass) \/ Paced(ToggleManual) \/ Paced(StartBatch)
    \/ \E storing \in BOOLEAN : Paced(AutoRun(storing))
    \/ Paced(CancelBatch) \/ \E r \in Requester : Paced(Ask(r))
    \/ Paced(Chain)
    \/ Paced(QuestRetry) \/ Paced(WatchRetry)
    \/ Paced(LoopBuilt) \/ Paced(LoopThrows) \/ Paced(WatchBuilt)
    \/ \E thrown \in BOOLEAN : Paced(QuestBuilt(thrown))
    \/ Paced(Midnight)
    \/ ReloadPage

WatchSpec == WatchInit /\ [][WatchNext]_allVars

(* Calls time out, gaps and retry pauses are timers; storage answers, and  *)
(* a species lookup settles as any fetch does.                             *)
FairWatchSpec ==
    /\ WatchSpec
    /\ WF_allVars(Paced(Chain))
    /\ WF_allVars(Paced(QuestRetry))
    /\ WF_allVars(\E thrown \in BOOLEAN : Paced(QuestBuilt(thrown)))
    /\ WF_allVars(Paced(WatchRetry)) /\ WF_allVars(Paced(WatchBuilt))
    /\ WF_allVars(Load) /\ WF_allVars(SaveAndSearch)
    /\ WF_allVars(\E ok \in BOOLEAN : Unread(ok))

-----------------------------------------------------------------------------

ConnectorTypeOK ==
    /\ seen \in BOOLEAN /\ saved \in BOOLEAN /\ loaded \in BOOLEAN /\ spent \in BOOLEAN
    /\ check \in [at: {"idle", "asking", "saving", "searching"},
                  last: BOOLEAN, again: BOOLEAN, early: BOOLEAN]

(* One message starts one special search, restarts included: the id is     *)
(* "persisted (not just in-memory) so a restart doesn't mistake a message  *)
(* that was already unread before the restart for a brand new one". That   *)
(* holds of checks that begin with the saved id in memory.                 *)
SearchedOnce ==
    [][check.at = "saving" /\ check'.at = "searching" => ~ check.again \/ check.early]_allVars

(* No message is passed over in silence: once nothing is being checked,    *)
(* what has been seen has been searched for, unless a reload cut it off,   *)
(* and the special search runs for a check.                                *)
SeenIsSearched ==
    /\ check = NoCheck => (seen => spent)
    /\ watch # NoAlert <=> check.at = "searching"

(* #checking is let go whatever fails, so the channel is watched again.    *)
CheckEnds == check # NoCheck ~> check = NoCheck
=============================================================================
