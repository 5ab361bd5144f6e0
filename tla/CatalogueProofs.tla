--------------------------- MODULE CatalogueProofs ---------------------------
(***************************************************************************)
(* That the tick only takes down what was over when it read it, that the   *)
(* relays' copies agree with the store as far as RelayAgrees says, and     *)
(* that what is said to be created is new, for any entities, clock, queue  *)
(* and number of page loads.                                               *)
(***************************************************************************)
EXTENDS CatalogueTopics, TLAPS

UpsertRecord == [entity: Entity, row: Row, previous: Row \cup {NoRow}, own: BOOLEAN]
Ticking == [at: {"sweeping", "dated", "trimming"}, todo: SUBSET HeldRow]
Expiring == [at: {"next", "waiting"}, until: Nat, todo: SUBSET HeldRow]

(* The button waits for its upsert, and has one in flight at most. *)
OneOwn ==
    /\ \A i \in 1 .. Len(queue) : queue[i].own => expire.at = "waiting"
    /\ \A i, j \in 1 .. Len(queue) : queue[i].own /\ queue[j].own => i = j

TInv == TypeOK /\ OneOwn

LEMMA HeldType == ASSUME TypeOK, NEW S \in SUBSET Stored PROVE Held(S) \subseteq HeldRow
  BY DEF TypeOK, Held, Stored, HeldRow

LEMMA PublishType ==
    ASSUME TypeOK, NEW rows \in [Entity -> Row \cup {NoRow}], NEW arriving, NEW preferred,
           Publish(rows, arriving, preferred)
    PROVE  /\ relay' \in [Entity -> [row: Row, created: Nat] \cup {NoCopy}]
           /\ lost' \subseteq Entity /\ beaten' \subseteq Entity
  <1>1. \A e \in arriving : e \in Entity /\ rows[e] \in Row
    BY DEF Publish, Sent
  <1>2. now \in Nat
    BY DEF TypeOK
  <1>3. relay' \in [Entity -> [row: Row, created: Nat] \cup {NoCopy}]
    BY <1>1, <1>2 DEF Publish, TypeOK
  <1>4. QED
    BY <1>1, <1>3 DEF Publish, Sent, TypeOK

LEMMA ObserveType ==
    ASSUME TInv, NEW e \in Entity, NEW until \in End \cup {Malformed}, Observe(e, until)
    PROVE  TInv'
  <1> DEFINE upsert == [entity |-> e, row |-> [until |-> until, status |-> "active"],
                        previous |-> store[e], own |-> FALSE]
  <1>1. upsert \in UpsertRecord
    BY EndAssumption DEF Observe, Valid, TInv, TypeOK, UpsertRecord, Row
  <1>2. queue \in Seq(UpsertRecord) /\ queue' = Append(queue, upsert)
    BY DEF TInv, TypeOK, Observe, UpsertRecord
  <1>3. queue' \in Seq(UpsertRecord)
    BY <1>1, <1>2
  <1>4. TypeOK'
    BY <1>3 DEF Observe, TInv, TypeOK, UpsertRecord
  <1>5. /\ Len(queue') = Len(queue) + 1
        /\ \A i \in 1 .. Len(queue) : queue'[i] = queue[i]
        /\ queue'[Len(queue) + 1] = upsert
    BY <1>1, <1>2
  <1>6. OneOwn'
    BY <1>2, <1>5 DEF OneOwn, TInv, Observe
  <1>7. QED
    BY <1>4, <1>6 DEF TInv

LEMMA UpsertForms ==
    ASSUME TInv, Upsert
    PROVE  /\ Head(queue) \in UpsertRecord
           /\ queue \in Seq(UpsertRecord) /\ queue # <<>>
           /\ Only(Head(queue)) \in [Entity -> Row \cup {NoRow}]
           /\ \/ UNCHANGED <<store, changed, beaten, relay, lost>>
              \/ \E arriving, preferred \in SUBSET {Head(queue).entity} :
                    Changes(Head(queue), arriving, preferred)
           /\ UNCHANGED <<now, tick, lastTrim, resync, restarts>>
  <1>1. queue \in Seq(UpsertRecord) /\ queue # <<>>
    BY DEF TInv, TypeOK, UpsertRecord, Upsert
  <1>2. Head(queue) \in UpsertRecord
    BY <1>1
  <1>3. Only(Head(queue)) \in [Entity -> Row \cup {NoRow}]
    BY <1>2 DEF Only, UpsertRecord
  <1>4. QED
    BY <1>1, <1>2, <1>3 DEF Upsert

LEMMA UpsertType == ASSUME TInv, Upsert PROVE TInv'
  <1>1. Head(queue) \in UpsertRecord /\ queue \in Seq(UpsertRecord) /\ queue # <<>>
    BY UpsertForms
  <1>2. /\ queue' = Tail(queue)
        /\ queue' \in Seq(UpsertRecord)
        /\ Len(queue) >= 1 /\ Len(queue') = Len(queue) - 1
        /\ \A i \in 1 .. Len(queue') : queue'[i] = queue[i + 1]
        /\ Head(queue) = queue[1]
    BY <1>1 DEF Upsert
  <1>3. Head(queue).own => expire \in Expiring /\ expire.at = "waiting"
    BY <1>1, <1>2 DEF TInv, OneOwn, TypeOK, Idle, Expiring
  <1>4. expire' \in {Idle} \cup Expiring
    BY <1>3 DEF Upsert, TInv, TypeOK, Expiring
  <1>5. ~ Head(queue).own => expire' = expire
    BY <1>1 DEF Upsert, UpsertRecord
  <1>6. OneOwn'
    BY <1>1, <1>2, <1>5 DEF TInv, OneOwn
  <1>7. /\ store' \in [Entity -> Row \cup {NoRow}] /\ changed' \in [Entity -> Nat]
        /\ relay' \in [Entity -> [row: Row, created: Nat] \cup {NoCopy}]
        /\ lost' \subseteq Entity /\ beaten' \subseteq Entity
    <2>1. CASE UNCHANGED <<store, changed, beaten, relay, lost>>
      BY <2>1 DEF TInv, TypeOK
    <2>2. CASE \E arriving, preferred \in SUBSET {Head(queue).entity} :
                 Changes(Head(queue), arriving, preferred)
      <3>1. PICK arriving, preferred \in SUBSET {Head(queue).entity} :
               Changes(Head(queue), arriving, preferred)
        BY <2>2
      <3>2. Publish(Only(Head(queue)), arriving, preferred)
        BY <3>1 DEF Changes, Announce
      <3>3. store' \in [Entity -> Row \cup {NoRow}] /\ changed' \in [Entity -> Nat]
        BY <3>1, <1>1 DEF Changes, TInv, TypeOK, UpsertRecord
      <3>4. QED
        BY <3>2, <3>3, UpsertForms, PublishType DEF TInv
    <2>3. QED
      BY <2>1, <2>2, UpsertForms
  <1>8. UNCHANGED <<now, tick, lastTrim, resync, restarts>>
    BY UpsertForms
  <1>9. TypeOK'
    BY <1>2, <1>4, <1>7, <1>8 DEF TInv, TypeOK, UpsertRecord, Expiring
  <1>10. QED
    BY <1>6, <1>9 DEF TInv

LEMMA TickType ==
    ASSUME TInv, TickStep PROVE TInv'
  <1>1. OneOwn'
    BY DEF TInv, TickStep, SweepRead, SweepPut, TrimDate, TrimRead, TrimDelete, OneOwn
  <1>2. CASE SweepRead
    <2>1. tick'.todo \subseteq HeldRow /\ tick' = [at |-> "sweeping", todo |-> tick'.todo]
      BY <1>2, HeldType DEF SweepRead, TInv
    <2>2. QED
      BY <1>1, <1>2, <2>1 DEF SweepRead, TInv, TypeOK
  <1>3. CASE \E held \in tick.todo : SweepPut(held)
    <2>1. PICK held \in tick.todo : SweepPut(held)
      BY <1>3
    <2>2. tick \in Ticking /\ held \in HeldRow
      BY <2>1 DEF SweepPut, TInv, TypeOK, Idle, Ticking
    <2>3. tick' \in Ticking
      BY <2>1, <2>2 DEF SweepPut, Ticking
    <2>4. store' \in [Entity -> Row \cup {NoRow}]
      BY <2>1, <2>2 DEF SweepPut, TInv, TypeOK, HeldRow, Row
    <2>5. QED
      BY <1>1, <2>1, <2>3, <2>4 DEF SweepPut, TInv, TypeOK, Ticking
  <1>4. CASE TrimDate
    <2>1. Today \in Nat
      <3>1. now \in Nat /\ DayLength \in Nat /\ DayLength > 0
        BY TimeAssumption DEF TInv, TypeOK
      <3>2. QED
        BY <3>1 DEF Today
    <2>2. QED
      BY <1>1, <1>4, <2>1 DEF TrimDate, TInv, TypeOK
  <1>5. CASE TrimRead
    <2>1. tick'.todo \subseteq HeldRow /\ tick' = [at |-> "trimming", todo |-> tick'.todo]
      BY <1>5, HeldType DEF TrimRead, TInv
    <2>2. QED
      BY <1>1, <1>5, <2>1 DEF TrimRead, TInv, TypeOK
  <1>6. CASE TrimDelete
    BY <1>1, <1>6 DEF TrimDelete, TInv, TypeOK
  <1>7. QED
    BY <1>2, <1>3, <1>4, <1>5, <1>6 DEF TickStep

LEMMA ExpireAllType == ASSUME TInv, ExpireAll PROVE TInv'
  <1>1. /\ expire' = [at |-> "next", until |-> now + Buffer, todo |-> expire'.todo]
        /\ expire'.todo \subseteq HeldRow
    BY HeldType DEF ExpireAll, TInv, IsLive, Stored
  <1>2. expire' \in Expiring
    BY <1>1, TimeAssumption DEF Expiring, TInv, TypeOK
  <1>3. OneOwn'
    BY DEF ExpireAll, TInv, OneOwn, Idle
  <1>4. QED
    BY <1>2, <1>3 DEF ExpireAll, TInv, TypeOK, Expiring

LEMMA ExpireNextType ==
    ASSUME TInv, NEW held, ExpireNext(held)
    PROVE  TInv'
  <1> DEFINE upsert == [entity |-> held.entity, own |-> TRUE,
                        row |-> [until |-> expire.until, status |-> "expired"],
                        previous |-> store[held.entity]]
  <1>1. expire \in Expiring /\ held \in HeldRow
    BY DEF ExpireNext, TInv, TypeOK, Idle, Expiring
  <1>2. upsert \in UpsertRecord
    BY <1>1 DEF Expiring, HeldRow, UpsertRecord, Row, TInv, TypeOK
  <1>3. queue \in Seq(UpsertRecord) /\ queue' = Append(queue, upsert)
    BY DEF TInv, TypeOK, ExpireNext, UpsertRecord
  <1>4. /\ queue' \in Seq(UpsertRecord)
        /\ Len(queue') = Len(queue) + 1
        /\ \A i \in 1 .. Len(queue) : queue'[i] = queue[i]
        /\ queue'[Len(queue) + 1] = upsert
    BY <1>2, <1>3
  <1>5. \A i \in 1 .. Len(queue) : ~ queue[i].own
    BY DEF ExpireNext, TInv, OneOwn
  <1>6. expire' \in Expiring /\ expire'.at = "waiting"
    BY <1>1 DEF ExpireNext, Expiring
  <1>7. OneOwn'
    BY <1>3, <1>4, <1>5, <1>6 DEF OneOwn
  <1>8. TypeOK'
    BY <1>4, <1>6 DEF ExpireNext, TInv, TypeOK, UpsertRecord, Expiring
  <1>9. QED
    BY <1>7, <1>8 DEF TInv

LEMMA ResyncReadType == ASSUME TInv, ResyncRead PROVE TInv'
  <1>1. [e \in Entity |-> IF IsLive(e) THEN store[e] ELSE NoRow] \in [Entity -> Row \cup {NoRow}]
    BY DEF TInv, TypeOK
  <1>2. OneOwn'
    BY DEF ResyncRead, TInv, OneOwn
  <1>3. QED
    BY <1>1, <1>2 DEF ResyncRead, TInv, TypeOK

LEMMA ResyncForms ==
    ASSUME TInv, resync.at = "read"
    PROVE  resync.rows \in [Entity -> Row \cup {NoRow}]
  BY DEF TInv, TypeOK, Starting, Done

LEMMA ResyncPublishType ==
    ASSUME TInv, NEW arriving, NEW preferred, ResyncPublish(arriving, preferred)
    PROVE  TInv'
  <1>1. /\ relay' \in [Entity -> [row: Row, created: Nat] \cup {NoCopy}]
        /\ lost' \subseteq Entity /\ beaten' \subseteq Entity
    BY ResyncForms, PublishType DEF ResyncPublish, TInv
  <1>2. OneOwn'
    BY DEF ResyncPublish, TInv, OneOwn
  <1>3. QED
    BY <1>1, <1>2 DEF ResyncPublish, TInv, TypeOK

(* Rows, snapshots, copies and upserts in flight stay well formed.         *)
LEMMA TypeStep == TInv /\ [Next]_vars => TInv'
  <1> SUFFICES ASSUME TInv, [Next]_vars PROVE TInv'
    OBVIOUS
  <1>1. CASE Tick
    BY <1>1 DEF Tick, TInv, TypeOK, OneOwn
  <1>2. CASE \E e \in Entity, until \in End \cup {Malformed} : Observe(e, until)
    BY <1>2, ObserveType
  <1>3. CASE Upsert
    BY <1>3, UpsertType
  <1>4. CASE TickStep
    BY <1>4, TickType
  <1>5. CASE ExpireAll
    BY <1>5, ExpireAllType
  <1>6. CASE expire.at = "next" /\ \E held \in expire.todo : ExpireNext(held)
    BY <1>6, ExpireNextType
  <1>7. CASE ResyncRead
    BY <1>7, ResyncReadType
  <1>8. CASE resync.at = "read" /\ \E arriving, preferred \in SUBSET Sent(resync.rows) :
                ResyncPublish(arriving, preferred)
    BY <1>8, ResyncPublishType
  <1>9. CASE \E forgotten \in SUBSET Entity : Restart(forgotten)
    <2>1. PICK forgotten \in SUBSET Entity : Restart(forgotten)
      BY <1>9
    <2>2. queue' = <<>> /\ OneOwn'
      BY <2>1 DEF Restart, OneOwn
    <2>3. TypeOK'
      BY <2>1, <2>2 DEF Restart, TInv, TypeOK
    <2>4. QED
      BY <2>2, <2>3 DEF TInv
  <1>10. CASE UNCHANGED vars
    BY <1>10 DEF vars, TInv, TypeOK, OneOwn
  <1>11. QED
    BY <1>1, <1>2, <1>3, <1>4, <1>5, <1>6, <1>7, <1>8, <1>9, <1>10 DEF Next

THEOREM TypeCorrect == Spec => []TypeOK
  <1>1. Init => TInv
    BY DEF Init, TInv, TypeOK, OneOwn, Idle, Starting
  <1>2. TInv => TypeOK
    BY DEF TInv
  <1>3. QED
    BY <1>1, <1>2, TypeStep, PTL DEF Spec

-----------------------------------------------------------------------------

(* What the tick has left to do was over when it read it, and time only    *)
(* goes on.                                                                *)
TodoIsOver == tick # Idle => \A held \in tick.todo : Over(held.row.until)

LEMMA OverStays ==
    ASSUME TInv, [Next]_vars, NEW until, Over(until)
    PROVE  Over(until)'
  <1>1. now \in Nat /\ (now' = now \/ now' = now + 1)
    BY DEF Next, Tick, Observe, Upsert, TickStep, SweepRead, SweepPut, TrimDate, TrimRead,
           TrimDelete, ExpireAll, ExpireNext, ResyncRead, ResyncPublish, Restart, vars, TInv, TypeOK
  <1>2. QED
    BY <1>1 DEF Over

LEMMA TodoStep == TInv /\ TodoIsOver /\ [Next]_vars => TodoIsOver'
  <1> SUFFICES ASSUME TInv, TodoIsOver, [Next]_vars PROVE TodoIsOver'
    OBVIOUS
  <1>1. CASE SweepRead
    BY <1>1 DEF SweepRead, TodoIsOver, Held, Due, Over
  <1>2. CASE TrimRead
    <2>1. SUFFICES ASSUME NEW held \in tick'.todo PROVE Over(held.row.until)'
      BY DEF TodoIsOver
    <2>2. PICK e \in Entity : held.row = store[e] /\ store[e] # NoRow
                              /\ store[e].until + Retention < now /\ now' = now
      BY <1>2, <2>1 DEF TrimRead, Held, Stored
    <2>3. store[e].until \in Nat /\ now \in Nat /\ Retention \in Nat
      BY <2>2, TimeAssumption DEF TInv, TypeOK, Row
    <2>4. QED
      BY <2>2, <2>3 DEF Over
  <1>3. CASE tick' = Idle
    BY <1>3 DEF TodoIsOver
  <1>4. CASE tick' = tick
    BY <1>4, OverStays DEF TodoIsOver
  <1>5. CASE TrimDate
    BY <1>5 DEF TrimDate, TodoIsOver
  <1>6. CASE \E held \in tick.todo : SweepPut(held)
    <2>1. PICK held \in tick.todo : SweepPut(held)
      BY <1>6
    <2>2. tick \in Ticking
      BY <2>1 DEF SweepPut, TInv, TypeOK, Idle, Ticking
    <2>3. tick # Idle /\ tick'.todo \subseteq tick.todo
      BY <2>1, <2>2 DEF SweepPut, Idle, Ticking
    <2>4. QED
      BY <2>1, <2>3, OverStays DEF TodoIsOver, SweepPut
  <1>7. QED
    BY <1>1, <1>2, <1>3, <1>4, <1>5, <1>6
    DEF Next, Tick, Observe, Upsert, TickStep, TrimDelete, ExpireAll, ExpireNext, ResyncRead,
        ResyncPublish, Restart, vars

LEMMA TakesStep ==
    ASSUME TInv, TodoIsOver, [Next]_vars, NEW e \in Entity,
           IsLive(e), tick' # tick, store'[e] # store[e]
    PROVE  \E held \in tick.todo : held.entity = e /\ held.row # store[e]
  <1>1. CASE \E held \in tick.todo : SweepPut(held)
    <2>1. PICK held \in tick.todo : SweepPut(held)
      BY <1>1
    <2>2. tick # Idle /\ held.entity = e
      BY <2>1 DEF SweepPut, Idle, TInv, TypeOK
    <2>3. Over(held.row.until) /\ ~ Over(store[e].until)
      BY <2>1, <2>2 DEF TodoIsOver, IsLive
    <2>4. QED
      BY <2>1, <2>2, <2>3
  <1>2. CASE TrimDelete
    <2>1. tick # Idle
      BY <1>2 DEF TrimDelete, Idle
    <2>2. PICK held \in tick.todo : held.entity = e
      BY <1>2 DEF TrimDelete
    <2>3. Over(held.row.until) /\ ~ Over(store[e].until)
      BY <2>1, <2>2 DEF TodoIsOver, IsLive
    <2>4. QED
      BY <2>2, <2>3
  <1>3. QED
    BY <1>1, <1>2
    DEF Next, Tick, Observe, Upsert, TickStep, SweepRead, TrimDate, TrimRead, ExpireAll,
        ExpireNext, ResyncRead, ResyncPublish, Restart, vars

(* The tick takes down a live entity only if it was renewed after the tick *)
(* had read it.                                                            *)
THEOREM TakesTheorem == Spec => TakesOnlyWhatWasOver
  <1>1. Init => TInv /\ TodoIsOver
    BY DEF Init, TInv, TypeOK, OneOwn, Idle, Starting, TodoIsOver
  <1>2. TInv /\ TodoIsOver /\ [Next]_vars =>
          [\A e \in Entity : IsLive(e) /\ tick' # tick /\ store'[e] # store[e] =>
             \E held \in tick.todo : held.entity = e /\ held.row # store[e]]_vars
    BY TakesStep
  <1>3. QED
    BY <1>1, <1>2, TypeStep, TodoStep, PTL DEF Spec, TakesOnlyWhatWasOver

-----------------------------------------------------------------------------

(* What RelayAgrees asks of one entity. *)
Agrees(e) ==
    /\ relay[e] # NoCopy
    /\ relay[e].created >= changed[e]
    /\ relay[e].row = store[e] \/ e \in beaten

(* The resync will not speak for an entity that was not live when it read. *)
SpokenFor(e) ==
    \/ resync = Done
    \/ resync.at = "read" /\ resync.rows[e] = NoRow

AgreedSoFar ==
    /\ \A e \in Entity : changed[e] <= now
    /\ \A e \in Entity \ lost : IsLive(e) /\ SpokenFor(e) => Agrees(e)

(* What a publication leaves of the entities it is about, and of others. *)
LEMMA PublishAgrees ==
    ASSUME TypeOK, NEW rows \in [Entity -> Row \cup {NoRow}], NEW arriving, NEW preferred,
           Publish(rows, arriving, preferred), NEW e \in Entity
    PROVE  /\ e \in Sent(rows) /\ e \notin lost' =>
                /\ relay'[e] # NoCopy /\ relay'[e].created = now
                /\ relay'[e].row = store'[e] \/ e \in beaten'
           /\ e \notin Sent(rows) =>
                relay'[e] = relay[e] /\ (e \in lost' <=> e \in lost)
                /\ (e \in beaten' <=> e \in beaten)
  <1>1. arriving \subseteq Sent(rows) /\ Sent(rows) \subseteq Entity /\ now \in Nat
    BY DEF Publish, Sent, TypeOK
  <1>2. CASE e \in arriving
    <2>1. rows[e] \in Row
      BY <1>1, <1>2 DEF Sent
    <2>2. [row |-> rows[e], created |-> now] # NoCopy
      BY <1>1, <2>1, NoRowAssumption
    <2>3. relay'[e] # NoCopy /\ relay'[e].created = now
      BY <1>2, <2>2 DEF Publish
    <2>4. (rows[e] = store'[e] /\ relay'[e].row = rows[e]) \/ e \in beaten'
      BY <1>1, <1>2 DEF Publish
    <2>5. QED
      BY <1>1, <1>2, <2>3, <2>4
  <1>3. CASE e \notin arriving
    BY <1>1, <1>3 DEF Publish
  <1>4. QED
    BY <1>2, <1>3

LEMMA UpsertAgrees == ASSUME TInv, AgreedSoFar, Upsert PROVE AgreedSoFar'
  <1>1. now' = now /\ resync' = resync /\ now \in Nat /\ Head(queue) \in UpsertRecord
    BY UpsertForms DEF TInv, TypeOK
  <1>2. CASE UNCHANGED <<store, changed, beaten, relay, lost>>
    BY <1>1, <1>2 DEF AgreedSoFar, Agrees, SpokenFor, IsLive, Over
  <1>3. CASE \E arriving, preferred \in SUBSET {Head(queue).entity} :
               Changes(Head(queue), arriving, preferred)
    <2> DEFINE d == Head(queue).entity
    <2>1. PICK arriving, preferred \in SUBSET {d} : Changes(Head(queue), arriving, preferred)
      BY <1>3
    <2>2. /\ Publish(Only(Head(queue)), arriving, preferred)
          /\ store' = [store EXCEPT ![d] = Head(queue).row]
          /\ changed' = [changed EXCEPT ![d] = now]
      BY <2>1 DEF Changes, Announce
    <2>3. d \in Entity /\ Head(queue).row \in Row
      BY <1>1 DEF UpsertRecord
    <2>4. Sent(Only(Head(queue))) = {d}
      BY <2>3, NoRowAssumption DEF Sent, Only
    <2>5. \A e \in Entity : changed'[e] <= now'
      BY <1>1, <2>2, <2>3 DEF AgreedSoFar, TInv, TypeOK
    <2>6. ASSUME NEW e \in Entity, e \notin lost', IsLive(e)', SpokenFor(e)'
          PROVE  Agrees(e)'
      <3>1. CASE e = d
        <4>1. /\ relay'[e] # NoCopy /\ relay'[e].created = now
              /\ relay'[e].row = store'[e] \/ e \in beaten'
          BY <2>2, <2>4, <2>6, <3>1, UpsertForms, PublishAgrees DEF TInv
        <4>2. changed'[e] = now
          BY <2>2, <2>3, <3>1 DEF TInv, TypeOK
        <4>3. QED
          BY <1>1, <4>1, <4>2 DEF Agrees
      <3>2. CASE e # d
        <4>1. relay'[e] = relay[e] /\ e \notin lost /\ (e \in beaten' <=> e \in beaten)
          BY <2>2, <2>4, <2>6, <3>2, UpsertForms, PublishAgrees DEF TInv
        <4>2. store'[e] = store[e] /\ changed'[e] = changed[e]
          BY <2>2, <3>2 DEF TInv, TypeOK
        <4>3. IsLive(e) /\ SpokenFor(e)
          BY <1>1, <2>6, <4>2 DEF IsLive, SpokenFor, Over
        <4>4. Agrees(e)
          BY <4>1, <4>3 DEF AgreedSoFar
        <4>5. QED
          BY <4>1, <4>2, <4>4 DEF Agrees
      <3>3. QED
        BY <3>1, <3>2
    <2>7. QED
      BY <2>5, <2>6 DEF AgreedSoFar
  <1>4. QED
    BY <1>2, <1>3, UpsertForms

LEMMA ResyncPublishAgrees ==
    ASSUME TInv, AgreedSoFar, NEW arriving, NEW preferred, ResyncPublish(arriving, preferred)
    PROVE  AgreedSoFar'
  <1>1. /\ now' = now /\ store' = store /\ changed' = changed /\ now \in Nat
        /\ Publish(resync.rows, arriving, preferred)
        /\ resync.rows \in [Entity -> Row \cup {NoRow}] /\ resync.at = "read"
    BY ResyncForms DEF ResyncPublish, TInv, TypeOK
  <1>2. ASSUME NEW e \in Entity, e \notin lost', IsLive(e)'
        PROVE  Agrees(e)'
    <2>1. IsLive(e)
      BY <1>1, <1>2 DEF IsLive, Over
    <2>2. CASE e \in Sent(resync.rows)
      <3>1. /\ relay'[e] # NoCopy /\ relay'[e].created = now
            /\ relay'[e].row = store'[e] \/ e \in beaten'
        BY <1>1, <1>2, <2>2, PublishAgrees DEF TInv
      <3>2. changed'[e] <= now
        BY <1>1 DEF AgreedSoFar
      <3>3. changed'[e] \in Nat
        BY <1>1 DEF TInv, TypeOK
      <3>4. QED
        BY <1>1, <3>1, <3>2, <3>3 DEF Agrees
    <2>3. CASE e \notin Sent(resync.rows)
      <3>1. relay'[e] = relay[e] /\ e \notin lost /\ (e \in beaten' <=> e \in beaten)
        BY <1>1, <1>2, <2>3, PublishAgrees DEF TInv
      <3>2. SpokenFor(e)
        BY <1>1, <2>3 DEF SpokenFor, Sent
      <3>3. Agrees(e)
        BY <2>1, <3>1, <3>2 DEF AgreedSoFar
      <3>4. QED
        BY <1>1, <3>1, <3>3 DEF Agrees
    <2>4. QED
      BY <2>2, <2>3
  <1>3. QED
    BY <1>1, <1>2 DEF AgreedSoFar

LEMMA TickAgrees == ASSUME TInv, AgreedSoFar, TickStep PROVE AgreedSoFar'
  <1>1. UNCHANGED <<now, resync, relay, lost, changed, beaten>>
    BY DEF TickStep, SweepRead, SweepPut, TrimDate, TrimRead, TrimDelete
  <1>2. ASSUME NEW e \in Entity, IsLive(e)' PROVE store'[e] = store[e]
    <2>1. CASE \E held \in tick.todo : SweepPut(held)
      <3>1. PICK held \in tick.todo : SweepPut(held)
        BY <2>1
      <3>2. tick \in Ticking /\ held \in HeldRow
        BY <3>1 DEF SweepPut, TInv, TypeOK, Idle, Ticking
      <3>3. [held.row EXCEPT !.status = "expired"].status = "expired"
        BY <3>2 DEF HeldRow, Row
      <3>4. e # held.entity
        BY <1>2, <3>1, <3>3 DEF SweepPut, IsLive, TInv, TypeOK
      <3>5. QED
        BY <3>1, <3>4 DEF SweepPut, TInv, TypeOK
    <2>2. CASE TrimDelete
      BY <1>2, <2>2 DEF TrimDelete, IsLive
    <2>3. QED
      BY <2>1, <2>2 DEF TickStep, SweepRead, TrimDate, TrimRead
  <1>3. \A e \in Entity : IsLive(e)' => IsLive(e)
    BY <1>1, <1>2 DEF IsLive, Over
  <1>4. QED
    BY <1>1, <1>2, <1>3 DEF AgreedSoFar, Agrees, SpokenFor

LEMMA AgreedStep == TInv /\ AgreedSoFar /\ [Next]_vars => AgreedSoFar'
  <1> SUFFICES ASSUME TInv, AgreedSoFar, [Next]_vars PROVE AgreedSoFar'
    OBVIOUS
  <1>1. CASE Tick
    <2>1. now \in Nat /\ now' = now + 1 /\ \A e \in Entity : changed[e] \in Nat
      BY <1>1 DEF Tick, TInv, TypeOK
    <2>2. UNCHANGED <<store, resync, relay, lost, changed, beaten>>
      BY <1>1 DEF Tick
    <2>3. \A e \in Entity : IsLive(e)' => IsLive(e)
      BY <2>1, <2>2 DEF IsLive, Over
    <2>4. \A e \in Entity : changed'[e] <= now'
      BY <2>1, <2>2 DEF AgreedSoFar
    <2>5. QED
      BY <2>2, <2>3, <2>4 DEF AgreedSoFar, Agrees, SpokenFor
  <1>2. CASE Upsert
    BY <1>2, UpsertAgrees
  <1>3. CASE TickStep
    BY <1>3, TickAgrees
  <1>4. CASE resync.at = "read" /\ \E arriving, preferred \in SUBSET Sent(resync.rows) :
                ResyncPublish(arriving, preferred)
    BY <1>4, ResyncPublishAgrees
  <1>5. CASE ResyncRead
    <2>1. \A e \in Entity : IsLive(e)' => IsLive(e) /\ resync'.rows[e] = store[e]
      BY <1>5 DEF ResyncRead, IsLive, Over
    <2>2. \A e \in Entity : IsLive(e)' => ~ SpokenFor(e)'
      BY <1>5, <2>1 DEF ResyncRead, SpokenFor, IsLive, Done
    <2>3. QED
      BY <1>5, <2>2 DEF ResyncRead, AgreedSoFar
  <1>6. CASE \E forgotten \in SUBSET Entity : Restart(forgotten)
    BY <1>6 DEF Restart, AgreedSoFar, SpokenFor, Starting, Done
  <1>7. CASE UNCHANGED <<now, store, resync, relay, lost, changed, beaten>>
    BY <1>7 DEF AgreedSoFar, Agrees, SpokenFor, IsLive, Over
  <1>8. QED
    BY <1>1, <1>2, <1>3, <1>4, <1>5, <1>6, <1>7
    DEF Next, Observe, ExpireAll, ExpireNext, vars

(* After the resync, whatever the pages, the lost publications and the     *)
(* seconds shared, relays hold a copy of each live entity that is not      *)
(* older than its last change, and differs only where it was beaten.       *)
THEOREM RelayTheorem == Spec => []RelayAgrees
  <1>1. Init => TInv /\ AgreedSoFar
    BY DEF Init, TInv, TypeOK, OneOwn, Idle, Starting, AgreedSoFar, IsLive
  <1>2. AgreedSoFar => RelayAgrees
    BY DEF AgreedSoFar, RelayAgrees, Agrees, SpokenFor
  <1>3. QED
    BY <1>1, <1>2, TypeStep, AgreedStep, PTL DEF Spec

-----------------------------------------------------------------------------

(* An upsert that has found no row still finds none when it puts its own:  *)
(* the sweep puts only what is stored, and another upsert of the entity    *)
(* has been noted.                                                         *)
SweepsStored == tick.at = "sweeping" => \A held \in tick.todo : store[held.entity] # NoRow

QueuedIsNew ==
    \A i \in 1 .. Len(queue) : queue[i].previous = NoRow =>
        store[queue[i].entity] = NoRow \/ queue[i].entity \in raced

QueuedTwice ==
    \A i, j \in 1 .. Len(queue) :
        i # j /\ queue[i].entity = queue[j].entity => queue[i].entity \in raced

NewInv == SweepsStored /\ QueuedIsNew /\ QueuedTwice

LEMMA AppendNew ==
    ASSUME TInv, NewInv, TopicNext, UNCHANGED <<store, tick>>,
           NEW upsert \in UpsertRecord, queue' = Append(queue, upsert),
           upsert.previous = store[upsert.entity]
    PROVE  NewInv'
  <1> DEFINE d == upsert.entity
  <1>1. queue \in Seq(UpsertRecord)
    BY DEF TInv, TypeOK, UpsertRecord
  <1>2. /\ Len(queue) \in Nat /\ Len(queue') = Len(queue) + 1
        /\ \A i \in 1 .. Len(queue) : queue'[i] = queue[i]
        /\ queue'[Len(queue')] = upsert
    BY <1>1
  <1>3. raced' = raced \cup (UnderWay \cap {d})
    BY <1>2 DEF TopicNext
  <1>4. \A i \in 1 .. Len(queue) : queue[i].entity \in UnderWay
    BY <1>1 DEF UnderWay
  <1>5. SweepsStored'
    BY DEF NewInv, SweepsStored
  <1>6. QueuedIsNew'
    <2> SUFFICES ASSUME NEW i \in 1 .. Len(queue'), queue'[i].previous = NoRow
                 PROVE  store[queue'[i].entity] = NoRow \/ queue'[i].entity \in raced'
      BY DEF QueuedIsNew
    <2>1. CASE i \in 1 .. Len(queue)
      BY <1>2, <1>3, <2>1 DEF NewInv, QueuedIsNew
    <2>2. CASE i = Len(queue')
      BY <1>2, <2>2
    <2>3. QED
      BY <1>2, <2>1, <2>2
  <1>7. QueuedTwice'
    <2> SUFFICES ASSUME NEW i \in 1 .. Len(queue'), NEW j \in 1 .. Len(queue'),
                        i # j, queue'[i].entity = queue'[j].entity
                 PROVE  queue'[i].entity \in raced'
      BY DEF QueuedTwice
    <2>1. CASE i \in 1 .. Len(queue) /\ j \in 1 .. Len(queue)
      BY <1>2, <1>3, <2>1 DEF NewInv, QueuedTwice
    <2>2. CASE i = Len(queue') /\ j \in 1 .. Len(queue)
      BY <1>2, <1>3, <1>4, <2>2
    <2>3. CASE j = Len(queue') /\ i \in 1 .. Len(queue)
      BY <1>2, <1>3, <1>4, <2>3
    <2>4. QED
      BY <1>2, <2>1, <2>2, <2>3
  <1>8. QED
    BY <1>5, <1>6, <1>7 DEF NewInv

LEMMA UpsertNew == ASSUME TInv, NewInv, TopicNext, Upsert PROVE NewInv'
  <1> DEFINE d == Head(queue).entity
  <1>1. /\ Head(queue) \in UpsertRecord /\ queue \in Seq(UpsertRecord) /\ queue # <<>>
        /\ tick' = tick
    BY UpsertForms
  <1>2. /\ queue' = Tail(queue) /\ Len(queue) \in Nat /\ Len(queue) >= 1
        /\ Len(queue') = Len(queue) - 1
        /\ \A i \in 1 .. Len(queue') : queue'[i] = queue[i + 1]
        /\ Head(queue) = queue[1]
    BY <1>1 DEF Upsert
  <1>3. raced' = raced
    BY <1>2 DEF TopicNext
  <1>4. store' = store \/ store' = [store EXCEPT ![d] = Head(queue).row]
    BY UpsertForms DEF Changes
  <1>5. d \in Entity /\ Head(queue).row \in Row /\ Head(queue).row # NoRow
    BY <1>1, NoRowAssumption DEF UpsertRecord
  <1>6. \A e \in Entity : (e # d => store'[e] = store[e]) /\ (store[e] # NoRow => store'[e] # NoRow)
    BY <1>4, <1>5 DEF TInv, TypeOK
  <1>7. SweepsStored'
    <2>1. tick.at = "sweeping" => tick.todo \subseteq HeldRow
      BY DEF TInv, TypeOK, Idle
    <2>2. QED
      BY <1>1, <1>6, <2>1 DEF NewInv, SweepsStored, HeldRow
  <1>8. QueuedIsNew'
    <2> SUFFICES ASSUME NEW i \in 1 .. Len(queue'), queue'[i].previous = NoRow
                 PROVE  store'[queue'[i].entity] = NoRow \/ queue'[i].entity \in raced
      BY <1>3 DEF QueuedIsNew
    <2>1. /\ i + 1 \in 1 .. Len(queue) /\ i + 1 # 1 /\ 1 \in 1 .. Len(queue)
          /\ queue'[i] = queue[i + 1]
      BY <1>2
    <2>2. queue[i + 1] \in UpsertRecord
      BY <1>1, <2>1
    <2>3. queue[i + 1].entity \in Entity
      BY <2>2 DEF UpsertRecord
    <2>4. CASE queue[i + 1].entity = d
      BY <1>2, <2>1, <2>4 DEF NewInv, QueuedTwice
    <2>5. CASE queue[i + 1].entity # d
      BY <1>6, <2>1, <2>3, <2>5 DEF NewInv, QueuedIsNew
    <2>6. QED
      BY <2>4, <2>5
  <1>9. QueuedTwice'
    <2> SUFFICES ASSUME NEW i \in 1 .. Len(queue'), NEW j \in 1 .. Len(queue'),
                        i # j, queue'[i].entity = queue'[j].entity
                 PROVE  queue'[i].entity \in raced
      BY <1>3 DEF QueuedTwice
    <2>1. /\ i + 1 \in 1 .. Len(queue) /\ j + 1 \in 1 .. Len(queue) /\ i + 1 # j + 1
          /\ queue'[i] = queue[i + 1] /\ queue'[j] = queue[j + 1]
      BY <1>2
    <2>2. QED
      BY <2>1 DEF NewInv, QueuedTwice
  <1>10. QED
    BY <1>7, <1>8, <1>9 DEF NewInv

LEMMA TickNew == ASSUME TInv, NewInv, TopicNext, TickStep PROVE NewInv'
  <1>1. queue' = queue
    BY DEF TickStep, SweepRead, SweepPut, TrimDate, TrimRead, TrimDelete
  <1>2. queue \in Seq(UpsertRecord)
    BY DEF TInv, TypeOK, UpsertRecord
  <1>3. /\ queue' = queue /\ raced' = raced
        /\ \A i \in 1 .. Len(queue) : queue[i] \in UpsertRecord
    BY <1>1, <1>2 DEF TopicNext
  <1>4. ASSUME \A e \in Entity : store[e] = NoRow => store'[e] = NoRow
        PROVE  QueuedIsNew' /\ QueuedTwice'
    BY <1>3, <1>4 DEF NewInv, QueuedIsNew, QueuedTwice, UpsertRecord
  <1>5. CASE SweepRead
    BY <1>4, <1>5 DEF SweepRead, Held, Stored, NewInv, SweepsStored
  <1>6. CASE tick.at = "sweeping" /\ \E held \in tick.todo : SweepPut(held)
    <2>1. PICK held \in tick.todo : SweepPut(held)
      BY <1>6
    <2>2. tick \in Ticking /\ held \in HeldRow
      BY <1>6, <2>1 DEF TInv, TypeOK, Idle, Ticking
    <2>3. /\ tick'.todo \subseteq tick.todo
          /\ store' = [store EXCEPT ![held.entity] = [held.row EXCEPT !.status = "expired"]]
          /\ [held.row EXCEPT !.status = "expired"] # NoRow
      BY <2>1, <2>2, NoRowAssumption DEF SweepPut, Ticking, HeldRow, Row
    <2>4. \A e \in Entity : store'[e] = NoRow <=> store[e] = NoRow
      BY <1>6, <2>2, <2>3 DEF NewInv, SweepsStored, TInv, TypeOK
    <2>5. SweepsStored'
      BY <1>6, <2>2, <2>3, <2>4 DEF NewInv, SweepsStored, Ticking, HeldRow
    <2>6. QED
      BY <1>4, <2>4, <2>5 DEF NewInv
  <1>7. CASE TrimDate
    BY <1>4, <1>7 DEF TrimDate, Idle, NewInv, SweepsStored
  <1>8. CASE TrimRead
    BY <1>4, <1>8 DEF TrimRead, NewInv, SweepsStored
  <1>9. CASE TrimDelete
    BY <1>4, <1>9 DEF TrimDelete, Idle, NewInv, SweepsStored
  <1>10. QED
    BY <1>5, <1>6, <1>7, <1>8, <1>9 DEF TickStep

LEMMA NewStep == TInv /\ NewInv /\ [TopicNext]_topicVars => NewInv'
  <1> SUFFICES ASSUME TInv, NewInv, [TopicNext]_topicVars PROVE NewInv'
    OBVIOUS
  <1>1. ASSUME UNCHANGED <<store, tick, queue, raced>> PROVE NewInv'
    BY <1>1 DEF NewInv, SweepsStored, QueuedIsNew, QueuedTwice
  <1>2. CASE UNCHANGED topicVars
    BY <1>1, <1>2 DEF topicVars, vars
  <1>3. CASE TopicNext
    <2>1. CASE Tick \/ ExpireAll \/ ResyncRead \/ \E arriving, preferred : ResyncPublish(arriving, preferred)
      <3>1. UNCHANGED <<store, tick, queue>>
        BY <2>1 DEF Tick, ExpireAll, ResyncRead, ResyncPublish
      <3>2. queue \in Seq(UpsertRecord)
        BY DEF TInv, TypeOK, UpsertRecord
      <3>3. raced' = raced
        BY <1>3, <3>1, <3>2 DEF TopicNext
      <3>4. QED
        BY <1>1, <3>1, <3>3
    <2>2. CASE \E e \in Entity, until \in End \cup {Malformed} : Observe(e, until)
      <3>1. PICK e \in Entity, until \in End \cup {Malformed} : Observe(e, until)
        BY <2>2
      <3> DEFINE upsert == [entity |-> e, row |-> [until |-> until, status |-> "active"],
                            previous |-> store[e], own |-> FALSE]
      <3>2. upsert \in UpsertRecord
        BY <3>1, EndAssumption DEF Observe, Valid, TInv, TypeOK, UpsertRecord, Row
      <3>3. QED
        BY <1>3, <3>1, <3>2, AppendNew DEF Observe
    <2>3. CASE Upsert
      BY <1>3, <2>3, UpsertNew
    <2>4. CASE TickStep
      BY <1>3, <2>4, TickNew
    <2>5. CASE \E held \in expire.todo : ExpireNext(held)
      <3>1. PICK held \in expire.todo : ExpireNext(held)
        BY <2>5
      <3> DEFINE upsert == [entity |-> held.entity, own |-> TRUE,
                            row |-> [until |-> expire.until, status |-> "expired"],
                            previous |-> store[held.entity]]
      <3>2. expire \in Expiring /\ held \in HeldRow
        BY <3>1 DEF ExpireNext, TInv, TypeOK, Idle, Expiring
      <3>3. upsert \in UpsertRecord
        BY <3>2 DEF Expiring, HeldRow, UpsertRecord, Row, TInv, TypeOK
      <3>4. QED
        BY <1>3, <3>1, <3>3, AppendNew DEF ExpireNext
    <2>6. CASE \E forgotten \in SUBSET Entity : Restart(forgotten)
      <3>1. queue' = <<>> /\ tick' = Idle
        BY <2>6 DEF Restart
      <3>2. QED
        BY <3>1 DEF NewInv, SweepsStored, QueuedIsNew, QueuedTwice, Idle
    <2>7. QED
      BY <1>3, <2>1, <2>2, <2>3, <2>4, <2>5, <2>6 DEF TopicNext, Next
  <1>4. QED
    BY <1>2, <1>3

(* What is announced as created is new to the store, for any number of     *)
(* entities and upserts, unless two upserts of it were under way at once.  *)
THEOREM CreatedTheorem == TopicSpec => CreatedIsNew
  <1>1. TopicInit => TInv /\ NewInv
    BY DEF TopicInit, Init, TInv, TypeOK, OneOwn, Idle, Starting, NewInv, SweepsStored,
           QueuedIsNew, QueuedTwice
  <1>2. TInv /\ [TopicNext]_topicVars => TInv'
    BY TypeStep DEF TopicNext, topicVars
  <1>3. TInv /\ NewInv /\ [TopicNext]_topicVars =>
          [queue # <<>> /\ queue' = Tail(queue) /\ Head(queue).previous = NoRow =>
             store[Head(queue).entity] = NoRow \/ Head(queue).entity \in raced]_topicVars
    <2> SUFFICES ASSUME TInv, NewInv, queue # <<>>, Head(queue).previous = NoRow
                 PROVE  store[Head(queue).entity] = NoRow \/ Head(queue).entity \in raced
      OBVIOUS
    <2>1. 1 \in 1 .. Len(queue) /\ Head(queue) = queue[1]
      BY DEF TInv, TypeOK
    <2>2. QED
      BY <2>1 DEF NewInv, QueuedIsNew
  <1>4. QED
    BY <1>1, <1>2, <1>3, NewStep, PTL DEF TopicSpec, CreatedIsNew
=============================================================================
