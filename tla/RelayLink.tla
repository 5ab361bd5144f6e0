------------------------------ MODULE RelayLink ------------------------------
(***************************************************************************)
(* Encrypted requests over the relays: the worker's pool of connections    *)
(* and its health check (nostr-transport.js), the server of requests with  *)
(* its memory of events (rpc.js), and the client's calls (rpc-client.js).  *)
(*                                                                         *)
(* A tick is the health check's unit of time.  A request to IndexedDB and  *)
(* a client's timeout are shorter than a tick.  The pool hands an event to *)
(* a subscription once, from whichever relay is first; to a subscription   *)
(* that was opened anew it is handed again if a relay still delivers it.   *)
(***************************************************************************)
EXTENDS Naturals

CONSTANTS
    Call,           \* requests; each has an id and an event of its own
    Job,            \* #dispatch calls in flight
    StaleAfter,     \* STALE_AFTER_MS
    ReplayWindow,   \* REPLAY_WINDOW_MS
    MaxDelay,       \* how long a relay may take to deliver an ephemeral event
    Unmarked,
    MaxBreaks,      \* bound of connections that die silently
    MaxReloads      \* bound of page loads

ASSUME WindowAssumption ==
    /\ StaleAfter \in Nat \ {0} /\ ReplayWindow \in Nat /\ MaxDelay \in Nat
    /\ MaxDelay <= ReplayWindow
ASSUME UnmarkedAssumption == Unmarked \notin Nat
ASSUME BoundAssumption == MaxBreaks \in Nat /\ MaxReloads \in Nat

VARIABLES
    link,       \* "up", or "stuck": nothing comes or goes
    open,       \* kinds of encrypted events the pool is subscribed to
    reopen,     \* #reopenRpcSubscription: the kind it subscribes to
    quiet,      \* how long since #lastEventAt
    heard,      \* calls whose event this subscription has been handed
    marked,     \* processedEvents: age of the call's row, or Unmarked
    job,        \* #dispatch calls
    call,       \* the client's side of the calls
    age,        \* how long since the call's event was published
    ran,        \* history: how often the call's handler was run
    breaks, reloads

vars == <<link, open, reopen, quiet, heard, marked, job, call, age, ran, breaks, reloads>>

Idle == [at |-> "idle"]
InFlight(c) == call[c] # "unsent" /\ age[c] <= MaxDelay

-----------------------------------------------------------------------------

(* startWorker: notifications.start and rpc.start subscribe in one turn,   *)
(* and the pool remembers the last of the two.                             *)
Init ==
    /\ link = "up"
    /\ open = {"device", "rpc"}
    /\ reopen = "rpc"
    /\ quiet = 0
    /\ heard = {}
    /\ marked = [c \in Call |-> Unmarked]
    /\ job = [j \in Job |-> Idle]
    /\ call = [c \in Call |-> "unsent"]
    /\ age = [c \in Call |-> 0]
    /\ ran = [c \in Call |-> 0]
    /\ breaks = 0 /\ reloads = 0

Older(n, limit) == IF n < limit THEN n + 1 ELSE n

(* Time passes; what takes less than a tick is over by then. *)
Tick ==
    /\ \A j \in Job : job[j].at \notin {"looking", "marking"}
    /\ \A c \in Call : call[c] = "waiting" => age[c] = 0
    /\ quiet' = Older(quiet, StaleAfter)
    /\ marked' = [c \in Call |-> IF marked[c] = Unmarked THEN Unmarked
                                 ELSE Older(marked[c], ReplayWindow + 1)]
    /\ age' = [c \in Call |-> IF call[c] = "unsent" THEN 0 ELSE Older(age[c], MaxDelay + 1)]
    /\ UNCHANGED <<link, open, reopen, heard, job, call, ran, breaks, reloads>>

(* A connection dies without being closed. *)
Break ==
    /\ breaks < MaxBreaks
    /\ breaks' = breaks + 1
    /\ link' = "stuck"
    /\ UNCHANGED <<open, reopen, quiet, heard, marked, job, call, age, ran, reloads>>

(* #publishTemplate: the status every minute; only an acknowledgement is a *)
(* sign of life.  Slip: a publication is one.                              *)
HeartbeatSent ==
    /\ quiet' = 0
    /\ UNCHANGED <<link, open, reopen, heard, marked, job, call, age, ran, breaks, reloads>>
Heartbeat ==
    /\ quiet' = IF link = "up" THEN 0 ELSE quiet
    /\ UNCHANGED <<link, open, reopen, heard, marked, job, call, age, ran, breaks, reloads>>

(* #scheduleHealthCheck: a new pool, and the subscription it remembers.    *)
Reconnect ==
    /\ quiet >= StaleAfter
    /\ link' = "up"
    /\ open' = {reopen}
    /\ heard' = {}
    /\ UNCHANGED <<reopen, quiet, marked, job, call, age, ran, breaks, reloads>>

(* callRpc: subscribe to answers, publish the request, start the timer; it *)
(* fails when the timer fires, or when no relay takes the request.         *)
Send(c) ==
    /\ call[c] = "unsent"
    /\ call' = [call EXCEPT ![c] = "waiting"]
    /\ UNCHANGED <<link, open, reopen, quiet, heard, marked, job, age, ran, breaks, reloads>>
Timeout(c) ==
    /\ call[c] = "waiting"
    /\ call' = [call EXCEPT ![c] = "failed"]
    /\ UNCHANGED <<link, open, reopen, quiet, heard, marked, job, age, ran, breaks, reloads>>

(* subscribeEncrypted's onevent; slip: an event is no sign of life. *)
Hand(c, j) ==
    /\ link = "up" /\ "rpc" \in open
    /\ InFlight(c) /\ c \notin heard
    /\ job[j] = Idle
    /\ heard' = heard \cup {c}
    /\ job' = [job EXCEPT ![j] = [at |-> "looking", call |-> c]]
    /\ UNCHANGED <<link, open, reopen, marked, call, age, ran, breaks, reloads>>
DeliverUnnoticed(c, j) ==
    /\ Hand(c, j)
    /\ quiet' = quiet
Deliver(c, j) ==
    /\ Hand(c, j)
    /\ quiet' = 0

(* #dispatch: the event is looked up, marked, and its handler started; a   *)
(* page load between marking and starting is one before the answer.        *)
LookUp(j) ==
    /\ job[j].at = "looking"
    /\ job' = [job EXCEPT ![j] = IF marked[job[j].call] = Unmarked
                                 THEN [@ EXCEPT !.at = "marking"] ELSE Idle]
    /\ UNCHANGED <<link, open, reopen, quiet, heard, marked, call, age, ran, breaks, reloads>>
Mark(j) ==
    /\ job[j].at = "marking"
    /\ LET c == job[j].call
       IN  /\ marked' = [marked EXCEPT ![c] = 0]
           /\ ran' = [ran EXCEPT ![c] = @ + 1]
           /\ job' = [job EXCEPT ![j].at = "running"]
    /\ UNCHANGED <<link, open, reopen, quiet, heard, call, age, breaks, reloads>>

(* The answer reaches whoever waits for answers to this key; only the call *)
(* with its id takes it.  Slip: whoever waits takes it.                    *)
TakesAny(c, d) == call[d] = "waiting"
Takes(c, d) == call[d] = "waiting" /\ c = d

(* The handler ends, with a result or an error; #reply is lost or arrives. *)
Reply(j, arrives) ==
    /\ job[j].at = "running"
    /\ arrives => link = "up"
    /\ call' = [d \in Call |-> IF arrives /\ Takes(job[j].call, d) THEN "answered" ELSE call[d]]
    /\ quiet' = IF link = "up" THEN 0 ELSE quiet
    /\ job' = [job EXCEPT ![j] = Idle]
    /\ UNCHANGED <<link, open, reopen, heard, marked, age, ran, breaks, reloads>>

(* processedEvents.prune *)
Forgotten(c) == marked[c] # Unmarked /\ marked[c] > ReplayWindow
Prune ==
    /\ marked' = [c \in Call |-> IF Forgotten(c) THEN Unmarked ELSE marked[c]]
    /\ UNCHANGED <<link, open, reopen, quiet, heard, job, call, age, ran, breaks, reloads>>

(* The page is loaded anew; its store stays. *)
Reload ==
    /\ reloads < MaxReloads
    /\ reloads' = reloads + 1
    /\ link' = "up"
    /\ open' = {"device", "rpc"}
    /\ reopen' = "rpc"
    /\ quiet' = 0
    /\ heard' = {}
    /\ job' = [j \in Job |-> Idle]
    /\ UNCHANGED <<marked, call, age, ran, breaks>>

Next ==
    \/ Tick
    \/ Break
    \/ Heartbeat
    \/ Reconnect
    \/ \E c \in Call : Send(c) \/ Timeout(c)
    \/ \E c \in Call, j \in Job : Deliver(c, j)
    \/ \E j \in Job : LookUp(j) \/ Mark(j) \/ \E arrives \in BOOLEAN : Reply(j, arrives)
    \/ Prune
    \/ Reload

Spec == Init /\ [][Next]_vars

(* Time passes, timers fire and IndexedDB requests settle. *)
FairSpec ==
    /\ Spec
    /\ WF_vars(Tick) /\ WF_vars(Reconnect)
    /\ \A c \in Call : WF_vars(Timeout(c))
    /\ \A j \in Job : WF_vars(LookUp(j) \/ Mark(j))

-----------------------------------------------------------------------------

JobRecord == [at: {"looking", "marking", "running"}, call: Call]

TypeOK ==
    /\ link \in {"up", "stuck"}
    /\ open \subseteq {"device", "rpc"} /\ reopen \in {"device", "rpc"}
    /\ quiet \in 0 .. StaleAfter
    /\ heard \subseteq Call
    /\ marked \in [Call -> {Unmarked} \cup 0 .. (ReplayWindow + 1)]
    /\ job \in [Job -> {Idle} \cup JobRecord]
    /\ call \in [Call -> {"unsent", "waiting", "answered", "failed"}]
    /\ age \in [Call -> 0 .. (MaxDelay + 1)]
    /\ ran \in [Call -> Nat]
    /\ breaks \in Nat /\ reloads \in Nat

(* A request is carried out at most once, though a new pool may be handed  *)
(* its event again while the old one's is being looked up, or after the    *)
(* page was loaded anew.                                                   *)
HandledAtMostOnce == \A c \in Call : ran[c] <= 1

(* Whoever gets an answer was served: a call is not given that of another  *)
(* one that waits on the same key.                                         *)
AnsweredIsHandled == \A c \in Call : call[c] = "answered" => ran[c] = 1

(* A connection that died silently is noticed and replaced. *)
StuckIsHealed == link = "stuck" ~> link = "up"

(* "Remembered so the health-check reconnect loop [...] can re-establish   *)
(* this subscription" (nostr-transport.js:221): what the worker subscribed *)
(* to, it is still subscribed to after a forced reconnect.                 *)
SubscriptionsSurvive == [][open \subseteq open']_vars
=============================================================================
