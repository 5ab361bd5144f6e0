------------------------------ MODULE Lifecycle ------------------------------
(***************************************************************************)
(* How the page becomes a worker and stays one (worker-app.js, config.js): *)
(* the setup form, startWorker, and the update check that reloads the page *)
(* onto a new build and resumes it from a note in sessionStorage.          *)
(*                                                                         *)
(* startWorker wires everything in the turn it is called in, up to its     *)
(* first await, so wiring belongs to the step that starts it.              *)
(***************************************************************************)
EXTENDS Naturals

CONSTANTS
    Key,            \* what the operator may enter as NSEC
    Usable,         \* those that decode
    NoKey,          \* an empty field
    None,
    MaxBuilds,      \* bound of deploys
    MaxFailures,    \* bound of late failures of one page
    MaxReloads      \* bound of page loads the page does not ask for

ASSUME KeyAssumption == Usable \subseteq Key /\ NoKey \notin Key
Config == [key: Key, remember: BOOLEAN]
ASSUME NoneAssumption == None \notin Config

VARIABLES
    deployed,       \* the build the host serves
    build,          \* the build this page was rendered from
    screen,         \* "loading", "resuming", "setup" or "working"
    starting,       \* the form's guard
    syncing,        \* the configuration startWorker is starting with, or None
    running,        \* the one the worker last ran with
    wired,          \* how often this page has been wired
    failures,       \* how often a start failed after wiring
    note,           \* sessionStorage: a configuration, or None
    saved,          \* localStorage: the tick, and the key if ticked
    interrupted,    \* history: a start was spoilt since the worker last worked
    reloads

vars == <<deployed, build, screen, starting, syncing, running, wired, failures,
          note, saved, interrupted, reloads>>

Init ==
    /\ deployed = 0 /\ build = 0
    /\ screen = "loading"
    /\ starting = FALSE
    /\ syncing = None /\ running = None
    /\ wired = 0 /\ failures = 0
    /\ note = None
    /\ saved = [key |-> NoKey, remember |-> FALSE]
    /\ interrupted = FALSE
    /\ reloads = 0

Deploy ==
    /\ deployed < MaxBuilds
    /\ deployed' = deployed + 1
    /\ UNCHANGED <<build, screen, starting, syncing, running, wired, failures,
                   note, saved, interrupted, reloads>>

(* startWorker up to its first await. *)
Wire(config) ==
    /\ syncing' = config
    /\ wired' = wired + 1

(* main: the host serves what is deployed; a note is used once. *)
Load ==
    /\ screen = "loading"
    /\ build' = deployed
    /\ note' = None
    /\ \/ /\ note # None
          /\ screen' = "resuming"
          /\ Wire(note)
       \/ /\ note = None
          /\ screen' = "setup"
          /\ UNCHANGED <<syncing, wired>>
    /\ UNCHANGED <<deployed, starting, running, failures, saved, interrupted, reloads>>

(* The submit handler: a form that is not filled in changes nothing; a key *)
(* that does not decode ends the start before anything is wired.  Slip: a  *)
(* second click is one more start.                                         *)
SubmitAnyway(key, remember) ==
    /\ screen = "setup"
    /\ saved' = [key |-> IF remember THEN key ELSE NoKey, remember |-> remember]
    /\ \/ /\ key \in Usable
          /\ starting' = TRUE
          /\ Wire([key |-> key, remember |-> remember])
       \/ /\ key \notin Usable
          /\ starting' = FALSE
          /\ UNCHANGED <<syncing, wired>>
    /\ UNCHANGED <<deployed, build, screen, running, failures, note, interrupted, reloads>>
Submit(key, remember) == ~ starting /\ SubmitAnyway(key, remember)

(* localStorage refuses the configuration, or the key after it: the        *)
(* handler throws ahead of its try, with the guard up, and the form takes  *)
(* no submit until the page is loaded anew.                                *)
SaveThrows ==
    /\ screen = "setup" /\ ~ starting
    /\ starting' = TRUE
    /\ saved' \in {saved, [saved EXCEPT !.remember = TRUE]}
    /\ UNCHANGED <<deployed, build, screen, syncing, running, wired, failures,
                   note, interrupted, reloads>>

(* The rest of startWorker; only now does the update check begin. *)
Synced ==
    /\ syncing # None
    /\ screen' = "working"
    /\ running' = syncing
    /\ syncing' = None
    /\ interrupted' = FALSE
    /\ UNCHANGED <<deployed, build, starting, wired, failures, note, saved, reloads>>

(* A read of the stores fails: the form is shown, whoever had started, and *)
(* what was wired stays.                                                   *)
SyncFails ==
    /\ syncing # None
    /\ failures < MaxFailures
    /\ screen' = "setup"
    /\ starting' = FALSE
    /\ syncing' = None
    /\ failures' = failures + 1
    /\ interrupted' = TRUE
    /\ UNCHANGED <<deployed, build, running, wired, note, saved, reloads>>

Leave ==
    /\ screen' = "loading"
    /\ starting' = FALSE
    /\ syncing' = None
    /\ wired' = 0 /\ failures' = 0
    /\ UNCHANGED <<deployed, build, running, saved>>

(* What is stashed: the configuration in use.  Slips: the one that is      *)
(* saved; written too late to be in the storage.                           *)
StashSaved == saved
StashLate == note
Stash == running

(* The update check finds another build; sessionStorage may refuse. *)
Update(stashes) ==
    /\ screen = "working"
    /\ deployed # build
    /\ note' = IF stashes THEN Stash ELSE note
    /\ interrupted' = (interrupted \/ ~ stashes)
    /\ Leave
    /\ UNCHANGED reloads

(* The operator loads the page, or opens it in a new tab. *)
Reload(sameTab) ==
    /\ reloads < MaxReloads
    /\ reloads' = reloads + 1
    /\ note' = IF sameTab THEN note ELSE None
    /\ interrupted' = TRUE
    /\ Leave

(* The update check finds the build it runs, or no answer. *)
NothingNew == screen = "working" /\ UNCHANGED vars

Next ==
    \/ Deploy
    \/ Load
    \/ \E key \in Key, remember \in BOOLEAN : Submit(key, remember)
    \/ SaveThrows
    \/ Synced
    \/ SyncFails
    \/ \E stashes \in BOOLEAN : Update(stashes)
    \/ NothingNew
    \/ \E sameTab \in BOOLEAN : Reload(sameTab)

Spec == Init /\ [][Next]_vars

(* The page loads, its start settles, and the host keeps answering. *)
FairSpec ==
    /\ Spec
    /\ WF_vars(Load) /\ WF_vars(Synced \/ SyncFails)
    /\ WF_vars(\E stashes \in BOOLEAN : Update(stashes))

-----------------------------------------------------------------------------

TypeOK ==
    /\ deployed \in Nat /\ build \in Nat
    /\ screen \in {"loading", "resuming", "setup", "working"}
    /\ starting \in BOOLEAN /\ interrupted \in BOOLEAN
    /\ {syncing, running, note} \subseteq Config \cup {None}
    /\ wired \in Nat /\ failures \in Nat /\ reloads \in Nat
    /\ saved \in [key: Key \cup {NoKey}, remember: BOOLEAN]

(* "Nothing downstream is idempotent to being started more than once"      *)
(* (worker-app.js:1394): of all wirings of a page, one at most is starting *)
(* or at work, and every other one belongs to a start that failed late.    *)
OneWorker ==
    wired = failures + IF syncing # None \/ screen = "working" THEN 1 ELSE 0

(* A page that resumes itself does so with "the exact config this instance *)
(* was running with" (worker-app.js:40), remembered on disk or not.        *)
ResumesAsItWas ==
    [][screen = "loading" /\ screen' = "resuming" => syncing' = running]_vars

(* A worker whose build is outdated comes to work on the newest one,       *)
(* unless somebody interferes or a store fails it.                         *)
UpdateIsTaken ==
    (screen = "working" /\ build # deployed)
        ~> (interrupted \/ (screen = "working" /\ build = deployed))
=============================================================================
