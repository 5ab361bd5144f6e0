--------------------------- MODULE LifecycleProofs ---------------------------
(***************************************************************************)
(* That a page is one worker at most but for starts that failed late, and  *)
(* that it resumes with the configuration it ran with, for any keys, any   *)
(* number of deploys, page loads and failures.                             *)
(***************************************************************************)
EXTENDS Lifecycle, TLAPS

(* Who may be starting on which screen. *)
Screens ==
    /\ screen = "loading" => syncing = None /\ ~ starting /\ wired = 0 /\ failures = 0
    /\ screen = "working" => syncing = None
    /\ screen = "setup" /\ ~ starting => syncing = None

(* A note is there only between the stash and the load that uses it. *)
NoteIsFresh == note # None => screen = "loading" /\ note = running

IInv == TypeOK /\ Screens /\ NoteIsFresh /\ OneWorker

LEMMA InitKeeps == Init => IInv
  <1> SUFFICES ASSUME Init PROVE IInv
    OBVIOUS
  <1>1. saved \in [key: Key \cup {NoKey}, remember: BOOLEAN]
    BY DEF Init
  <1>2. TypeOK
    BY <1>1 DEF Init, TypeOK
  <1>3. Screens /\ NoteIsFresh /\ OneWorker
    BY DEF Init, Screens, NoteIsFresh, OneWorker
  <1>4. QED
    BY <1>2, <1>3 DEF IInv

LEMMA SubmitKeeps ==
    ASSUME IInv, NEW key \in Key, NEW remember \in BOOLEAN, Submit(key, remember)
    PROVE  IInv'
  <1>1. [key |-> key, remember |-> remember] \in Config
    BY DEF Config
  <1>2. [key |-> key, remember |-> remember] # None
    BY <1>1, NoneAssumption
  <1>3. CASE key \in Usable /\ starting' = TRUE /\ Wire([key |-> key, remember |-> remember])
    <2>1. TypeOK'
      BY <1>1, <1>3 DEF Submit, SubmitAnyway, Wire, IInv, TypeOK
    <2>2. Screens' /\ NoteIsFresh'
      BY <1>3 DEF Submit, SubmitAnyway, IInv, Screens, NoteIsFresh
    <2>3. OneWorker'
      BY <1>2, <1>3 DEF Submit, SubmitAnyway, Wire, IInv, TypeOK, Screens, OneWorker
    <2>4. QED
      BY <2>1, <2>2, <2>3 DEF IInv
  <1>4. CASE starting' = FALSE /\ UNCHANGED <<syncing, wired>>
    BY <1>4 DEF Submit, SubmitAnyway, IInv, TypeOK, Screens, NoteIsFresh, OneWorker
  <1>5. QED
    BY <1>3, <1>4 DEF Submit, SubmitAnyway

LEMMA SaveThrowsKeeps == ASSUME IInv, SaveThrows PROVE IInv'
  <1>1. saved' \in [key: Key \cup {NoKey}, remember: BOOLEAN]
    BY DEF SaveThrows, IInv, TypeOK
  <1>2. TypeOK'
    BY <1>1 DEF SaveThrows, IInv, TypeOK
  <1>3. Screens' /\ NoteIsFresh' /\ OneWorker'
    BY DEF SaveThrows, IInv, Screens, NoteIsFresh, OneWorker
  <1>4. QED
    BY <1>2, <1>3 DEF IInv

LEMMA LoadKeeps == ASSUME IInv, Load PROVE IInv'
  <1>1. TypeOK'
    BY DEF Load, Wire, IInv, TypeOK
  <1>2. Screens' /\ NoteIsFresh'
    BY DEF Load, IInv, Screens, NoteIsFresh
  <1>3. OneWorker'
    BY DEF Load, Wire, IInv, TypeOK, Screens, OneWorker
  <1>4. QED
    BY <1>1, <1>2, <1>3 DEF IInv

LEMMA SettleKeeps == ASSUME IInv, Synced \/ SyncFails PROVE IInv'
  <1>1. CASE Synced
    BY <1>1 DEF Synced, IInv, TypeOK, Screens, NoteIsFresh, OneWorker
  <1>2. CASE SyncFails
    <2>1. TypeOK'
      <3>1. failures' \in Nat
        BY <1>2 DEF SyncFails, IInv, TypeOK
      <3>2. {syncing', running', note'} \subseteq Config \cup {None}
        BY <1>2 DEF SyncFails, IInv, TypeOK
      <3>3. QED
        BY <1>2, <3>1, <3>2 DEF SyncFails, IInv, TypeOK
    <2>2. Screens' /\ NoteIsFresh'
      BY <1>2 DEF SyncFails, IInv, Screens, NoteIsFresh
    <2>3. OneWorker'
      BY <1>2 DEF SyncFails, IInv, TypeOK, OneWorker
    <2>4. QED
      BY <2>1, <2>2, <2>3 DEF IInv
  <1>3. QED
    BY <1>1, <1>2

LEMMA LeaveKeeps ==
    ASSUME IInv,
           \/ \E stashes \in BOOLEAN : Update(stashes)
           \/ \E sameTab \in BOOLEAN : Reload(sameTab)
    PROVE  IInv'
  <1>1. Leave /\ note' \in {note, running, None}
    BY DEF Update, Reload, Stash
  <1>2. interrupted' \in BOOLEAN
    BY Zenon DEF Update, Reload
  <1>3. reloads' \in Nat
    BY DEF Update, Reload, IInv, TypeOK
  <1>4. TypeOK'
    BY <1>1, <1>2, <1>3 DEF Leave, IInv, TypeOK
  <1>5. NoteIsFresh'
    BY <1>1 DEF Leave, IInv, NoteIsFresh
  <1>6. Screens' /\ OneWorker'
    BY <1>1 DEF Leave, Screens, OneWorker
  <1>7. QED
    BY <1>4, <1>5, <1>6 DEF IInv

LEMMA KeepsStep == IInv /\ [Next]_vars => IInv'
  <1> SUFFICES ASSUME IInv, [Next]_vars PROVE IInv'
    OBVIOUS
  <1>1. CASE Deploy
    BY <1>1 DEF Deploy, IInv, TypeOK, Screens, NoteIsFresh, OneWorker
  <1>2. CASE NothingNew \/ UNCHANGED vars
    BY <1>2 DEF NothingNew, vars, IInv, TypeOK, Screens, NoteIsFresh, OneWorker
  <1>3. QED
    BY <1>1, <1>2, SubmitKeeps, SaveThrowsKeeps, LoadKeeps, SettleKeeps, LeaveKeeps DEF Next

(* Of all wirings of a page one at most is starting or at work: the guard  *)
(* is up whenever the form is shown and a start is under way.              *)
THEOREM OneWorkerTheorem == Spec => []OneWorker
  <1>1. IInv => OneWorker
    BY DEF IInv
  <1>2. QED
    BY <1>1, InitKeeps, KeepsStep, PTL DEF Spec

(* A page resumes with what the last worker of the tab was running with:   *)
(* the note is that configuration, and is gone once it has been used.      *)
THEOREM ResumesTheorem == Spec => ResumesAsItWas
  <1>1. ASSUME IInv, [Next]_vars PROVE screen = "loading" /\ screen' = "resuming" => syncing' = running
    <2> SUFFICES ASSUME screen = "loading", screen' = "resuming" PROVE syncing' = running
      OBVIOUS
    <2>1. Load
      BY <1>1 DEF Next, Deploy, Submit, SubmitAnyway, SaveThrows, Synced, SyncFails, Update, Leave,
                  NothingNew, Reload, vars
    <2>2. QED
      BY <1>1, <2>1 DEF Load, Wire, IInv, NoteIsFresh
  <1>2. QED
    BY <1>1, InitKeeps, KeepsStep, PTL DEF Spec, ResumesAsItWas
=============================================================================
