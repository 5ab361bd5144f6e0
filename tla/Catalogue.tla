------------------------------ MODULE Catalogue ------------------------------
(***************************************************************************)
(* One collection of entities (spawns, raids or field research): what the  *)
(* store holds (application-state.js), how observations, the 60-second     *)
(* tick and the operator's button change it (pokemon-state.js), and the    *)
(* copies the relays hold of it (worker-app.js, nostr-transport.js).       *)
(*                                                                         *)
(* The clock's tick is the second of created_at.  Requests to one object   *)
(* store are served in the order they are made, so observations are put in *)
(* the order they were read; the tick and the button read a snapshot and   *)
(* put or delete from it later.  Putting a row and announcing it are one   *)
(* step: only what is in the store already could come between.             *)
(***************************************************************************)
EXTENDS Naturals, Sequences

CONSTANTS
    Entity,
    End,            \* the ends an observation may tell
    Malformed,      \* an end that is no date
    NoRow,
    NoCopy,
    Retention,      \* RETENTION_MAX_AGE_MS
    Buffer,         \* EXPIRY_BUFFER_MS
    DayLength,
    MaxTime,        \* bound of the clock
    MaxQueue,       \* bound of upserts in flight
    MaxRestarts     \* bound of page loads

ASSUME EndAssumption == End \subseteq Nat /\ Malformed \notin Nat
ASSUME TimeAssumption == Retention \in Nat /\ Buffer \in Nat /\ DayLength \in Nat \ {0}

Row == [until: Nat, status: {"active", "expired"}]
ASSUME NoRowAssumption == NoRow \notin Row /\ NoCopy \notin [row: Row, created: Nat]

VARIABLES
    now,
    store,      \* entity -> row or NoRow
    queue,      \* upserts between their get and their put
    tick,       \* the tick: what it does and the rows it has left to do
    expire,     \* expireAllFieldResearchNow, likewise
    lastTrim,   \* workerMetadata: retentionTrimLastRunDate
    resync,     \* republishAllActive
    relay,      \* what the relays hold: entity -> copy or NoCopy
    lost,       \* history: entities whose last publication by this page reached no relay
    changed,    \* history: when an upsert last changed the entity
    beaten,     \* history: those whose last one was an old row, or not kept (see Publish)
    restarts

vars == <<now, store, queue, tick, expire, lastTrim, resync, relay, lost, changed, beaten, restarts>>

Idle == [at |-> "idle"]
Starting == [at |-> "starting"]
Done == [at |-> "done"]
Today == now \div DayLength

Held(rows) == {[entity |-> e, row |-> store[e]] : e \in rows}
Stored == {e \in Entity : store[e] # NoRow}

(* #ingest's comparison is false of a date that is none; what is stored is *)
(* a date, so elsewhere it is the opposite of being ahead.                 *)
Over(until) == until \in Nat /\ until <= now
IsLive(e) == store[e] # NoRow /\ store[e].status = "active" /\ ~ Over(store[e].until)

-----------------------------------------------------------------------------

Init ==
    /\ now = 1
    /\ store = [e \in Entity |-> NoRow]
    /\ queue = <<>>
    /\ tick = Idle
    /\ expire = Idle
    /\ lastTrim = 0
    /\ resync = Starting
    /\ relay = [e \in Entity |-> NoCopy]
    /\ lost = {}
    /\ changed = [e \in Entity |-> 0]
    /\ beaten = {}
    /\ restarts = 0

Tick ==
    /\ now < MaxTime
    /\ now' = now + 1
    /\ UNCHANGED <<store, queue, tick, expire, lastTrim, resync, relay, lost, changed, beaten, restarts>>

Sent(rows) == {e \in Entity : rows[e] # NoRow}

(* Copies of rows are published, each with this second as created_at.      *)
(* Relays refuse what is over (NIP-40), and of two copies of one second    *)
(* keep either; nothing is sent again.                                     *)
Publish(rows, arriving, preferred) ==
    /\ arriving \subseteq {e \in Sent(rows) : ~ Over(rows[e].until)}
    /\ relay' = [e \in Entity |->
                   IF e \in arriving /\ (relay[e] = NoCopy \/ relay[e].created # now
                                         \/ e \in preferred)
                   THEN [row |-> rows[e], created |-> now] ELSE relay[e]]
    /\ lost' = (lost \cup Sent(rows)) \ arriving
    /\ beaten' = (beaten \ Sent(rows))
                  \cup {e \in Sent(rows) : rows[e] # store'[e]}
                  \cup {e \in arriving : relay'[e].row # rows[e]}

(* validateSpawn, validateQuest, validateRaid. *)
Valid(until) == until # Malformed

(* Slip: upsert reads what is active. *)
ObserveActive(e, until) ==
    /\ Len(queue) < MaxQueue
    /\ Valid(until)
    /\ ~ Over(until)
    /\ queue' = Append(queue, [entity |-> e, row |-> [until |-> until, status |-> "active"],
                               previous |-> IF IsLive(e) THEN store[e] ELSE NoRow, own |-> FALSE])
    /\ UNCHANGED <<now, store, tick, expire, lastTrim, resync, relay, lost, changed, beaten, restarts>>

(* An observation passes #ingest and upsert reads what is stored. *)
Observe(e, until) ==
    /\ Len(queue) < MaxQueue
    /\ Valid(until)
    /\ ~ Over(until)
    /\ queue' = Append(queue, [entity |-> e, row |-> [until |-> until, status |-> "active"],
                               previous |-> store[e], own |-> FALSE])
    /\ UNCHANGED <<now, store, tick, expire, lastTrim, resync, relay, lost, changed, beaten, restarts>>

Only(upsert) == [e \in Entity |-> IF e = upsert.entity THEN upsert.row ELSE NoRow]

(* wireNostrPublishing; slip: only what is new is published. *)
AnnounceCreated(upsert, arriving, preferred) ==
    IF upsert.previous = NoRow THEN Publish(Only(upsert), arriving, preferred)
                               ELSE UNCHANGED <<relay, lost, beaten>>
Announce(upsert, arriving, preferred) == Publish(Only(upsert), arriving, preferred)

Changes(upsert, arriving, preferred) ==
    /\ store' = [store EXCEPT ![upsert.entity] = upsert.row]
    /\ changed' = [changed EXCEPT ![upsert.entity] = now]
    /\ Announce(upsert, arriving, preferred)

(* The rest of upsert.  A row equal to the one read is left alone if all   *)
(* of it is equal, the time of the observation included.                   *)
Upsert ==
    /\ queue # <<>>
    /\ LET upsert == Head(queue)
       IN  /\ \/ upsert.row = upsert.previous /\ UNCHANGED <<store, changed, beaten, relay, lost>>
              \/ \E arriving, preferred \in SUBSET {upsert.entity} :
                    Changes(upsert, arriving, preferred)
           /\ expire' = IF upsert.own
                        THEN IF expire.todo = {} THEN Idle ELSE [expire EXCEPT !.at = "next"]
                        ELSE expire
    /\ queue' = Tail(queue)
    /\ UNCHANGED <<now, tick, lastTrim, resync, restarts>>

(* sweepExpired; slips: only what ends now, what is about to end. *)
DueSharply(row) == row.status = "active" /\ row.until = now
DueEarly(row) == row.status = "active" /\ row.until <= now + 1
Due(row) == row.status = "active" /\ Over(row.until)
SweepRead ==
    /\ tick = Idle
    /\ tick' = [at |-> "sweeping", todo |-> Held({e \in Stored : Due(store[e])})]
    /\ UNCHANGED <<now, store, queue, expire, lastTrim, resync, relay, lost, changed, beaten, restarts>>
SweepPut(held) ==
    /\ tick.at = "sweeping"
    /\ held \in tick.todo
    /\ store' = [store EXCEPT ![held.entity] = [held.row EXCEPT !.status = "expired"]]
    /\ tick' = [tick EXCEPT !.todo = @ \ {held}]
    /\ UNCHANGED <<now, queue, expire, lastTrim, resync, relay, lost, changed, beaten, restarts>>

(* #runRetentionTrimIfDue: the date is saved before anything is deleted. *)
TrimDate ==
    /\ tick.at = "sweeping"
    /\ tick.todo = {}
    /\ lastTrim' = Today
    /\ tick' = IF lastTrim = Today THEN Idle ELSE [at |-> "dated", todo |-> {}]
    /\ UNCHANGED <<now, store, queue, expire, resync, relay, lost, changed, beaten, restarts>>
TrimRead ==
    /\ tick.at = "dated"
    /\ tick' = [at |-> "trimming",
                todo |-> Held({e \in Stored : store[e].until + Retention < now})]
    /\ UNCHANGED <<now, store, queue, expire, lastTrim, resync, relay, lost, changed, beaten, restarts>>
TrimDelete ==
    /\ tick.at = "trimming"
    /\ store' = [e \in Entity |-> IF \E held \in tick.todo : held.entity = e
                                  THEN NoRow ELSE store[e]]
    /\ tick' = Idle
    /\ UNCHANGED <<now, queue, expire, lastTrim, resync, relay, lost, changed, beaten, restarts>>

TickStep ==
    \/ SweepRead
    \/ tick.at = "sweeping" /\ \E held \in tick.todo : SweepPut(held)
    \/ TrimDate
    \/ TrimRead
    \/ TrimDelete

(* expireAllFieldResearchNow: a snapshot, then one upsert after another. *)
ExpireAll ==
    /\ expire = Idle
    /\ \E e \in Entity : IsLive(e)
    /\ expire' = [at |-> "next", until |-> now + Buffer,
                  todo |-> Held({e \in Entity : IsLive(e)})]
    /\ UNCHANGED <<now, store, queue, tick, lastTrim, resync, relay, lost, changed, beaten, restarts>>
ExpireNext(held) ==
    /\ expire.at = "next"
    /\ Len(queue) < MaxQueue
    /\ held \in expire.todo
    /\ queue' = Append(queue, [entity |-> held.entity, own |-> TRUE,
                               row |-> [until |-> expire.until, status |-> "expired"],
                               previous |-> store[held.entity]])
    /\ expire' = [expire EXCEPT !.at = "waiting", !.todo = @ \ {held}]
    /\ UNCHANGED <<now, store, tick, lastTrim, resync, relay, lost, changed, beaten, restarts>>

(* republishAllActive: a snapshot, then all of it in one turn. *)
ResyncRead ==
    /\ resync = Starting
    /\ resync' = [at |-> "read",
                  rows |-> [e \in Entity |-> IF IsLive(e) THEN store[e] ELSE NoRow]]
    /\ UNCHANGED <<now, store, queue, tick, expire, lastTrim, relay, lost, changed, beaten, restarts>>
ResyncPublish(arriving, preferred) ==
    /\ resync.at = "read"
    /\ resync' = Done
    /\ UNCHANGED store
    /\ Publish(resync.rows, arriving, preferred)
    /\ UNCHANGED <<now, queue, tick, expire, lastTrim, changed, restarts>>

(* The page is loaded anew; while it was away relays may have pruned. *)
Restart(forgotten) ==
    /\ restarts < MaxRestarts
    /\ restarts' = restarts + 1
    /\ queue' = <<>>
    /\ tick' = Idle
    /\ expire' = Idle
    /\ resync' = Starting
    /\ lost' = {}
    /\ beaten' = {}
    /\ relay' = [e \in Entity |-> IF e \in forgotten THEN NoCopy ELSE relay[e]]
    /\ UNCHANGED <<now, store, lastTrim, changed>>

Next ==
    \/ Tick
    \/ \E e \in Entity, until \in End \cup {Malformed} : Observe(e, until)
    \/ Upsert
    \/ TickStep
    \/ ExpireAll
    \/ expire.at = "next" /\ \E held \in expire.todo : ExpireNext(held)
    \/ ResyncRead
    \/ resync.at = "read" /\ \E arriving, preferred \in SUBSET Sent(resync.rows) :
          ResyncPublish(arriving, preferred)
    \/ \E forgotten \in SUBSET Entity : Restart(forgotten)

Spec == Init /\ [][Next]_vars

(* The tick is an interval timer and its requests settle. *)
FairSpec == Spec /\ WF_vars(TickStep)

-----------------------------------------------------------------------------

HeldRow == [entity: Entity, row: Row]

TypeOK ==
    /\ now \in Nat /\ lastTrim \in Nat /\ restarts \in Nat
    /\ store \in [Entity -> Row \cup {NoRow}]
    /\ queue \in Seq([entity: Entity, row: Row, previous: Row \cup {NoRow}, own: BOOLEAN])
    /\ tick \in {Idle} \cup [at: {"sweeping", "dated", "trimming"}, todo: SUBSET HeldRow]
    /\ expire \in {Idle} \cup [at: {"next", "waiting"}, until: Nat, todo: SUBSET HeldRow]
    /\ resync \in {Starting, Done} \cup [at: {"read"}, rows: [Entity -> Row \cup {NoRow}]]
    /\ relay \in [Entity -> [row: Row, created: Nat] \cup {NoCopy}]
    /\ lost \subseteq Entity /\ beaten \subseteq Entity
    /\ changed \in [Entity -> Nat]

(* Once the resync is through, relays hold a copy of every live entity     *)
(* unless its publication was lost, never one older than its last change,  *)
(* and one that differs from the store only if they preferred another copy *)
(* of the same second, or if the resync sent a row that had been changed   *)
(* since it was read.                                                      *)
RelayAgrees ==
    resync = Done =>
    \A e \in Entity \ lost : IsLive(e) =>
        /\ relay[e] # NoCopy
        /\ relay[e].created >= changed[e]
        /\ relay[e].row = store[e] \/ e \in beaten

(* The tick takes down an entity that is live only if it was renewed after *)
(* the tick had read it, whether it flips rows or deletes them.            *)
TakesOnlyWhatWasOver ==
    [][\A e \in Entity : IsLive(e) /\ tick' # tick /\ store'[e] # store[e] =>
          \E held \in tick.todo : held.entity = e /\ held.row # store[e]]_vars

(* Every active row whose end has passed is flipped, deleted or renewed.   *)
IsOver(e) == store[e] # NoRow /\ store[e].status = "active" /\ Over(store[e].until)
OverIsSwept == \A e \in Entity : IsOver(e) ~> ~ IsOver(e)
=============================================================================
