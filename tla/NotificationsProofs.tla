------------------------- MODULE NotificationsProofs -------------------------
(***************************************************************************)
(* That no announcement is lost between batches, that no device hears of   *)
(* a spawn more often than it was announced, that no row gives way to an   *)
(* older one and that a flush takes none away but for its keys, for any    *)
(* number of devices, spawns, configurations and overlapping flushes.      *)
(***************************************************************************)
EXTENDS Notifications, FiniteSetTheorems, TLAPS

Reading == [at: {"reading"}, batch: SUBSET Announcement]
Sending == [at: {"sending"}, batch: SUBSET Announcement, todo: SUBSET Target]

(* What a step finds in a flush, and what it leaves there. *)
LEMMA FlushForms ==
    ASSUME TypeOK, NEW f \in Flush
    PROVE  /\ flush[f] \in {Idle} \cup Reading \cup Sending
           /\ flush[f] = Idle <=> flush[f].at = "idle"
           /\ flush[f].at = "reading" => flush[f] \in Reading
           /\ flush[f].at = "sending" => flush[f] \in Sending
  BY DEF TypeOK, Reading, Sending, Idle

-----------------------------------------------------------------------------

(* Rows, handlers, batches and counts stay well formed, whatever devices   *)
(* publish and push services answer.                                       *)
LEMMA InitType == Init => TypeOK
  BY DEF Init, TypeOK, Row, Idle

LEMMA DeliverType ==
    ASSUME TypeOK, NEW h \in Handler, NEW config \in Config, Deliver(h, config)
    PROVE  TypeOK'
  <1>1. config.device \in Device
    BY ConfigAssumption
  <1>2. handler' \in [Handler -> {Idle} \cup [at: {"read"}, config: Config, row: Row \cup {NoRow}]]
    BY <1>1 DEF Deliver, TypeOK
  <1>3. overlapped' \subseteq Device
    BY <1>1 DEF Deliver, TypeOK
  <1>4. QED
    BY <1>2, <1>3 DEF Deliver, TypeOK

LEMMA ApplyType ==
    ASSUME TypeOK, NEW h \in Handler, Apply(h)
    PROVE  TypeOK'
  <1>1. /\ handler[h] \in [at: {"read"}, config: Config, row: Row \cup {NoRow}]
        /\ handler[h].config \in [device: Device, created: Nat, enabled: BOOLEAN,
                                  reg: Registration \cup {NoRow}, wants: Wants]
    BY ConfigAssumption DEF Apply, TypeOK, Idle
  <1>2. handler[h].config.reg # NoRow => Registered(handler[h].config) \in Row
    BY <1>1 DEF Registered, Row
  <1>3. regs' \in [Device -> Row \cup {NoRow}]
    BY <1>1, <1>2 DEF Apply, TypeOK
  <1>4. QED
    BY <1>3 DEF Apply, TypeOK, Idle

LEMMA QueueType ==
    ASSUME TypeOK, NEW a \in Announcement, QueueSpawn(a)
    PROVE  TypeOK'
  BY DEF QueueSpawn, TypeOK

LEMMA FlushBatchType ==
    ASSUME TypeOK, NEW f \in Flush, NEW timer \in timers, NEW late \in SUBSET pending,
           FlushBatch(f, timer, late)
    PROVE  TypeOK'
  <1>1. [at |-> "reading", batch |-> pending \ late] \in Reading
    BY DEF TypeOK, Reading
  <1>2. flush' \in [Flush -> {Idle} \cup Reading \cup Sending] /\ settled' \subseteq Announcement
    BY <1>1 DEF FlushBatch, TakeBatch, TypeOK, Reading, Sending
  <1>3. QED
    BY <1>2 DEF FlushBatch, TypeOK, Reading, Sending

LEMMA ReadDevicesType ==
    ASSUME TypeOK, NEW f \in Flush, ReadDevices(f)
    PROVE  TypeOK'
  <1> DEFINE todo == {[device |-> d, row |-> regs[d]] :
                        d \in {e \in Device :
                                 /\ regs[e] # NoRow
                                 /\ \/ regs[e].wants = Unreadable
                                    \/ Matches(regs[e], flush[f].batch) # {}}}
  <1>1. todo \subseteq Target
    BY DEF TypeOK, Target
  <1>2. flush[f].batch \in SUBSET Announcement
    BY FlushForms DEF ReadDevices, Reading
  <1>3. [at |-> "sending", batch |-> flush[f].batch, todo |-> todo] \in Sending
    BY <1>1, <1>2 DEF Sending
  <1>4. flush' \in [Flush -> {Idle} \cup Reading \cup Sending]
    BY <1>3 DEF ReadDevices, TypeOK, Reading, Sending
  <1>5. QED
    BY <1>4 DEF ReadDevices, TypeOK, Reading, Sending

LEMMA SendType ==
    ASSUME TypeOK, NEW f \in Flush, NEW target, NEW outcome, Send(f, target, outcome)
    PROVE  TypeOK'
  <1>1. flush[f] \in Sending /\ target \in Target
    BY FlushForms DEF Send, Sending
  <1>2. flush' \in [Flush -> {Idle} \cup Reading \cup Sending]
    BY <1>1 DEF Send, TypeOK, Reading, Sending
  <1>3. target.device \in Device /\ target.row \in Row
    BY <1>1 DEF Target
  <1>4. [x \in Spawn |-> IF x \in Matches(target.row, flush[f].batch)
                         THEN sent[target.device][x] + 1 ELSE sent[target.device][x]]
        \in [Spawn -> Nat]
    BY <1>3 DEF TypeOK
  <1>5. sent' \in [Device -> [Spawn -> Nat]]
    BY <1>3, <1>4 DEF Send, TypeOK
  <1>6. regs' \in [Device -> Row \cup {NoRow}] /\ dead' \subseteq Registration
    BY <1>3 DEF Send, TypeOK, Row
  <1>7. QED
    BY <1>2, <1>5, <1>6 DEF Send, TypeOK, Reading, Sending

LEMMA MatchThrowsType ==
    ASSUME TypeOK, NEW f \in Flush, NEW target, MatchThrows(f, target)
    PROVE  TypeOK'
  <1>1. flush[f].batch \in SUBSET Announcement
    BY FlushForms DEF MatchThrows, Sending
  <1>2. QED
    BY <1>1 DEF MatchThrows, TypeOK

LEMMA FlushEndsType ==
    ASSUME TypeOK, NEW f \in Flush, FlushEnds(f)
    PROVE  TypeOK'
  <1>1. flush[f].batch \in SUBSET Announcement
    BY FlushForms DEF FlushEnds, Sending
  <1>2. QED
    BY <1>1 DEF FlushEnds, TypeOK

LEMMA TypeStep == TypeOK /\ [Next]_vars => TypeOK'
  <1> SUFFICES ASSUME TypeOK, [Next]_vars PROVE TypeOK'
    OBVIOUS
  <1>1. CASE \E h \in Handler, config \in Config : Deliver(h, config)
    BY <1>1, DeliverType
  <1>2. CASE \E h \in Handler : Apply(h)
    BY <1>2, ApplyType
  <1>3. CASE \E a \in Announcement : QueueSpawn(a)
    BY <1>3, QueueType
  <1>4. CASE \E f \in Flush : FlushStep(f)
    BY <1>4, FlushBatchType, ReadDevicesType, SendType, MatchThrowsType, FlushEndsType
    DEF FlushStep
  <1>5. CASE Reload
    BY <1>5 DEF Reload, TypeOK
  <1>6. CASE UNCHANGED vars
    BY <1>6 DEF vars, TypeOK
  <1>7. QED
    BY <1>1, <1>2, <1>3, <1>4, <1>5, <1>6 DEF Next

THEOREM TypeCorrect == Spec => []TypeOK
  BY InitType, TypeStep, PTL DEF Spec

-----------------------------------------------------------------------------

(* BatchesAreApart, announcement by announcement. *)
Holds(f, x) == flush[f] # Idle /\ x \in flush[f].batch

Apart ==
    /\ timers = IF pending = {} THEN {} ELSE {"debounce", "maxWait"}
    /\ \A x : x \in created <=>
                 x \in pending \/ x \in settled \/ x \in cut \/ \E f \in Flush : Holds(f, x)
    /\ \A x \in settled : x \notin cut
    /\ \A x \in pending : x \notin settled /\ x \notin cut /\ \A f \in Flush : ~ Holds(f, x)
    /\ \A f \in Flush : \A x : Holds(f, x) => x \notin settled /\ x \notin cut
    /\ \A f, g \in Flush : \A x : Holds(f, x) /\ Holds(g, x) => f = g

LEMMA ApartMeans == (BatchesAreApart <=> Apart) /\ (BatchesAreApart' <=> Apart')
  <1>1. \A x : x \in InFlight <=> \E f \in Flush : Holds(f, x)
    BY DEF InFlight, Holds
  <1>2. BatchesAreApart <=> Apart
    BY <1>1 DEF BatchesAreApart, Apart, Holds
  <1>3. \A x : x \in InFlight' <=> \E f \in Flush : Holds(f, x)'
    BY DEF InFlight, Holds
  <1>4. BatchesAreApart' <=> Apart'
    BY <1>3 DEF BatchesAreApart, Apart, Holds
  <1>5. QED
    BY <1>2, <1>4

(* What each kind of step does to what the flushes hold. *)
LEMMA TakenHolds ==
    ASSUME TypeOK, NEW f \in Flush, NEW timer \in timers, NEW late \in SUBSET pending,
           FlushBatch(f, timer, late)
    PROVE  /\ \A x : Holds(f, x)' <=> x \in pending \ late
           /\ \A g \in Flush \ {f} : \A x : Holds(g, x)' <=> Holds(g, x)
           /\ settled' = settled \cup late
  <1>1. flush \in [Flush -> {Idle} \cup Reading \cup Sending]
    BY DEF TypeOK, Reading, Sending
  <1>2. CASE late = pending
    BY <1>1, <1>2 DEF FlushBatch, TakeBatch, Holds
  <1>3. CASE late # pending
    <2>1. flush' = [flush EXCEPT ![f] = [at |-> "reading", batch |-> pending \ late]]
      BY <1>3 DEF FlushBatch, TakeBatch
    <2>2. [at |-> "reading", batch |-> pending \ late] # Idle
      BY DEF Idle
    <2>3. QED
      BY <1>1, <1>3, <2>1, <2>2 DEF FlushBatch, TakeBatch, Holds
  <1>4. QED
    BY <1>2, <1>3

LEMMA ReadHolds ==
    ASSUME TypeOK, NEW f \in Flush, ReadDevices(f)
    PROVE  \A g \in Flush : \A x : Holds(g, x)' <=> Holds(g, x)
  <1>1. flush[f] # Idle
    BY DEF ReadDevices, Idle
  <1>2. flush'[f].batch = flush[f].batch /\ flush'[f].at = "sending"
    BY DEF ReadDevices, TypeOK
  <1>3. flush'[f] # Idle
    BY <1>2 DEF Idle
  <1>4. \A g \in Flush \ {f} : flush'[g] = flush[g]
    BY DEF ReadDevices, TypeOK
  <1>5. QED
    BY <1>1, <1>2, <1>3, <1>4 DEF Holds

LEMMA SendHolds ==
    ASSUME TypeOK, NEW f \in Flush, NEW target, NEW outcome, Send(f, target, outcome)
    PROVE  \A g \in Flush : \A x : Holds(g, x)' <=> Holds(g, x)
  <1>1. flush[f] \in Sending /\ flush[f] # Idle
    BY FlushForms DEF Send
  <1>2. flush'[f] = [at |-> "sending", batch |-> flush[f].batch, todo |-> flush[f].todo \ {target}]
    BY <1>1 DEF Send, TypeOK, Sending
  <1>3. flush'[f] # Idle
    BY <1>2 DEF Idle
  <1>4. \A g \in Flush \ {f} : flush'[g] = flush[g]
    BY DEF Send, TypeOK
  <1>5. QED
    BY <1>1, <1>2, <1>3, <1>4 DEF Holds

LEMMA EndedHolds ==
    ASSUME TypeOK, NEW f \in Flush, FlushEnds(f)
    PROVE  /\ \A g \in Flush : \A x : Holds(g, x)' <=> g # f /\ Holds(g, x)
           /\ \A x : x \in settled' <=> x \in settled \/ Holds(f, x)
  <1>1. flush[f] # Idle
    BY DEF FlushEnds, Idle
  <1>2. flush \in [Flush -> {Idle} \cup Reading \cup Sending]
    BY DEF TypeOK, Reading, Sending
  <1>3. QED
    BY <1>1, <1>2 DEF FlushEnds, Holds

LEMMA CutHolds ==
    ASSUME TypeOK, NEW f \in Flush, NEW target, MatchThrows(f, target)
    PROVE  /\ \A g \in Flush : \A x : Holds(g, x)' <=> g # f /\ Holds(g, x)
           /\ \A x : x \in cut' <=> x \in cut \/ Holds(f, x)
  <1>1. flush[f] # Idle
    BY DEF MatchThrows, Idle
  <1>2. flush \in [Flush -> {Idle} \cup Reading \cup Sending]
    BY DEF TypeOK, Reading, Sending
  <1>3. QED
    BY <1>1, <1>2 DEF MatchThrows, Holds

LEMMA InitApart == Init => Apart
  BY DEF Init, Apart, Holds

LEMMA ApartStep == TypeOK /\ Apart /\ [Next]_vars => Apart'
  <1> SUFFICES ASSUME TypeOK, Apart, [Next]_vars PROVE Apart'
    OBVIOUS
  <1>1. CASE \/ \E h \in Handler, config \in Config : Deliver(h, config)
             \/ \E h \in Handler : Apply(h)
             \/ UNCHANGED vars
    BY <1>1 DEF Deliver, Apply, vars, Apart, Holds
  <1>2. ASSUME NEW a \in Announcement, QueueSpawn(a) PROVE Apart'
    BY <1>2 DEF QueueSpawn, Apart, Holds
  <1>3. ASSUME NEW f \in Flush, NEW timer \in timers, NEW late \in SUBSET pending,
               FlushBatch(f, timer, late)
        PROVE  Apart'
    <2>1. timers' = {} /\ pending' = {} /\ created' = created /\ cut' = cut
      BY <1>3 DEF FlushBatch
    <2>2. \A x : ~ Holds(f, x)
      BY <1>3 DEF FlushBatch, Holds
    <2>3. /\ \A x : Holds(f, x)' <=> x \in pending \ late
          /\ \A g \in Flush \ {f} : \A x : Holds(g, x)' <=> Holds(g, x)
          /\ settled' = settled \cup late
      BY <1>3, TakenHolds
    <2>4. \A x : x \in created' <=>
                   x \in pending' \/ x \in settled' \/ x \in cut'
                     \/ \E g \in Flush : Holds(g, x)'
      BY <2>1, <2>2, <2>3 DEF Apart
    <2>5. /\ \A g \in Flush : \A x : Holds(g, x)' => x \notin settled' /\ x \notin cut'
          /\ \A x \in settled' : x \notin cut'
      BY <2>1, <2>3 DEF Apart
    <2>6. \A g, h \in Flush : \A x : Holds(g, x)' /\ Holds(h, x)' => g = h
      BY <2>3 DEF Apart
    <2>7. QED
      BY <2>1, <2>4, <2>5, <2>6 DEF Apart
  <1>4. ASSUME NEW f \in Flush, ReadDevices(f) PROVE Apart'
    <2>1. UNCHANGED <<timers, pending, created, settled, cut>>
      BY <1>4 DEF ReadDevices
    <2>2. QED
      BY <1>4, <2>1, ReadHolds DEF Apart
  <1>5. ASSUME NEW f \in Flush, NEW target, NEW outcome, Send(f, target, outcome)
        PROVE  Apart'
    <2>1. UNCHANGED <<timers, pending, created, settled, cut>>
      BY <1>5 DEF Send
    <2>2. QED
      BY <1>5, <2>1, SendHolds DEF Apart
  <1>6. ASSUME NEW f \in Flush, FlushEnds(f) PROVE Apart'
    <2>1. UNCHANGED <<timers, pending, created, cut>>
      BY <1>6 DEF FlushEnds
    <2>2. QED
      BY <1>6, <2>1, EndedHolds DEF Apart
  <1>7. ASSUME NEW f \in Flush, NEW target, MatchThrows(f, target) PROVE Apart'
    <2>1. UNCHANGED <<timers, pending, created, settled>>
      BY <1>7 DEF MatchThrows
    <2>2. QED
      BY <1>7, <2>1, CutHolds DEF Apart
  <1>8. CASE Reload
    BY <1>8 DEF Reload, Apart, Holds
  <1>9. QED
    BY <1>1, <1>2, <1>3, <1>4, <1>5, <1>6, <1>7, <1>8 DEF Next, FlushStep

(* An announcement waits behind both timers, is in one batch, or is dealt  *)
(* with: none is in two flushes that overlap, and none is lost but by a    *)
(* reload or by preferences that are no lists.                             *)
THEOREM BatchesTheorem == Spec => []BatchesAreApart
  BY InitType, TypeStep, InitApart, ApartStep, ApartMeans, PTL DEF Spec

-----------------------------------------------------------------------------

(* The announcements of a spawn that can have been sent to a device: they  *)
(* have left the queue, and a flush that holds one is past the device.     *)
Spent(d, x) ==
    {a \in created :
        /\ SpawnOf[a] = x
        /\ a \notin pending
        /\ \A f \in Flush : Holds(f, a) =>
              flush[f].at = "sending" /\ \A t \in flush[f].todo : t.device # d}

(* A flush has a device on its list once.                                  *)
OnceOnList ==
    \A f \in Flush : flush[f].at = "sending" =>
        \A t, u \in flush[f].todo : t.device = u.device => t = u

Counted == \A d \in Device, x \in Spawn : sent[d][x] <= Cardinality(Spent(d, x))

Once == OnceOnList /\ Counted

LEMMA SpentFinite ==
    ASSUME TypeOK, NEW d, NEW x
    PROVE  IsFiniteSet(Spent(d, x)) /\ Cardinality(Spent(d, x)) \in Nat
  <1>1. Spent(d, x) \subseteq Announcement
    BY DEF Spent, TypeOK
  <1>2. QED
    BY <1>1, AnnouncementAssumption, FS_Subset, FS_CardinalityType

LEMMA OnceMeans == TypeOK /\ Once => AtMostOnce
  <1> SUFFICES ASSUME TypeOK, Once, NEW d \in Device, NEW x \in Spawn
               PROVE  sent[d][x] <= Cardinality({a \in created : SpawnOf[a] = x})
    BY DEF AtMostOnce
  <1> DEFINE all == {a \in created : SpawnOf[a] = x}
  <1>1. Spent(d, x) \subseteq all /\ all \subseteq Announcement
    BY DEF Spent, TypeOK
  <1>2. IsFiniteSet(all)
    BY <1>1, AnnouncementAssumption, FS_Subset
  <1>3. Cardinality(Spent(d, x)) <= Cardinality(all)
    BY <1>1, <1>2, FS_Subset
  <1>4. Cardinality(Spent(d, x)) \in Nat /\ Cardinality(all) \in Nat /\ sent[d][x] \in Nat
    BY <1>2, SpentFinite, FS_CardinalityType DEF TypeOK
  <1>5. QED
    BY <1>3, <1>4 DEF Once, Counted

(* A step that sends nothing keeps the count if nothing that was spent is  *)
(* given back.                                                             *)
LEMMA CountKept ==
    ASSUME TypeOK, TypeOK', Counted, sent' = sent,
           \A d \in Device, x \in Spawn : Spent(d, x) \subseteq Spent(d, x)'
    PROVE  Counted'
  <1> SUFFICES ASSUME NEW d \in Device, NEW x \in Spawn
               PROVE  sent'[d][x] <= Cardinality(Spent(d, x)')
    BY DEF Counted
  <1>1. Spent(d, x)' \subseteq Announcement
    BY DEF Spent, TypeOK
  <1>2. IsFiniteSet(Spent(d, x)')
    BY <1>1, AnnouncementAssumption, FS_Subset
  <1>3. /\ Cardinality(Spent(d, x)) <= Cardinality(Spent(d, x)')
        /\ Cardinality(Spent(d, x)) \in Nat
        /\ Cardinality(Spent(d, x)') \in Nat
    BY <1>2, SpentFinite, FS_Subset, FS_CardinalityType
  <1>4. sent[d][x] \in Nat /\ sent[d][x] <= Cardinality(Spent(d, x))
    BY DEF TypeOK, Counted
  <1>5. QED
    BY <1>3, <1>4

LEMMA InitOnce == Init => Once
  <1> SUFFICES ASSUME Init PROVE Once
    OBVIOUS
  <1>1. OnceOnList
    BY DEF Init, OnceOnList, Idle
  <1>2. \A d \in Device, x \in Spawn : Spent(d, x) = {} /\ sent[d][x] = 0
    BY DEF Init, Spent
  <1>3. Cardinality({}) = 0
    BY FS_EmptySet
  <1>4. \A d \in Device, x \in Spawn : sent[d][x] <= Cardinality(Spent(d, x))
    BY <1>2, <1>3
  <1>5. QED
    BY <1>1, <1>4 DEF Once, Counted

LEMMA FlushBatchOnce ==
    ASSUME TypeOK, TypeOK', Once, NEW f \in Flush, NEW timer \in timers,
           NEW late \in SUBSET pending, FlushBatch(f, timer, late)
    PROVE  Once'
  <1>1. /\ pending' = {} /\ created' = created /\ sent' = sent
        /\ \A g \in Flush \ {f} : flush'[g] = flush[g]
        /\ flush'[f].at # "sending"
    BY DEF FlushBatch, TakeBatch, TypeOK, Idle
  <1>2. /\ \A a : Holds(f, a)' => a \in pending
        /\ \A g \in Flush \ {f} : \A a : Holds(g, a)' <=> Holds(g, a)
    BY TakenHolds
  <1>3. \A d \in Device, x \in Spawn : Spent(d, x) \subseteq Spent(d, x)'
    BY <1>1, <1>2 DEF Spent
  <1>4. OnceOnList'
    BY <1>1 DEF Once, OnceOnList
  <1>5. QED
    BY <1>1, <1>3, <1>4, CountKept DEF Once

LEMMA ReadDevicesOnce ==
    ASSUME TypeOK, TypeOK', Once, NEW f \in Flush, ReadDevices(f)
    PROVE  Once'
  <1>1. /\ pending' = pending /\ created' = created /\ sent' = sent
        /\ flush[f].at = "reading" /\ flush[f] # Idle
        /\ \A g \in Flush \ {f} : flush'[g] = flush[g]
    BY DEF ReadDevices, TypeOK, Idle
  <1>2. \A t \in flush'[f].todo : \E d \in Device : t = [device |-> d, row |-> regs[d]]
    BY DEF ReadDevices, TypeOK
  <1>3. OnceOnList'
    BY <1>1, <1>2 DEF Once, OnceOnList
  <1>4. \A g \in Flush : \A a : Holds(g, a)' <=> Holds(g, a)
    BY ReadHolds
  <1>5. \A d \in Device, x \in Spawn : Spent(d, x) \subseteq Spent(d, x)'
    BY <1>1, <1>4 DEF Spent
  <1>6. QED
    BY <1>1, <1>3, <1>5, CountKept DEF Once

LEMMA SendOnce ==
    ASSUME TypeOK, TypeOK', Apart, Once, NEW f \in Flush, NEW target, NEW outcome,
           Send(f, target, outcome)
    PROVE  Once'
  <1>1. /\ flush[f] \in Sending /\ flush[f] # Idle /\ flush[f].at = "sending"
        /\ target \in flush[f].todo
        /\ target.device \in Device
    BY FlushForms DEF Send, Sending, Target
  <1>2. /\ pending' = pending /\ created' = created
        /\ \A g \in Flush \ {f} : flush'[g] = flush[g]
        /\ flush'[f] = [at |-> "sending", batch |-> flush[f].batch,
                        todo |-> flush[f].todo \ {target}]
    BY <1>1 DEF Send, TypeOK, Sending
  <1>3. \A g \in Flush : \A a : Holds(g, a)' <=> Holds(g, a)
    BY SendHolds
  <1>4. OnceOnList'
    BY <1>1, <1>2 DEF Once, OnceOnList
  <1>5. \A d \in Device, x \in Spawn : Spent(d, x) \subseteq Spent(d, x)'
    BY <1>1, <1>2, <1>3 DEF Spent
  <1>6. \A d \in Device, x \in Spawn :
           \/ sent'[d][x] = sent[d][x]
           \/ /\ d = target.device /\ sent'[d][x] = sent[d][x] + 1
              /\ \E a \in flush[f].batch : SpawnOf[a] = x
    BY <1>1 DEF Send, Matches, TypeOK
  <1>7. ASSUME NEW d \in Device, NEW x \in Spawn
        PROVE  sent'[d][x] <= Cardinality(Spent(d, x)')
    <2>1. Spent(d, x)' \subseteq Announcement
      BY DEF Spent, TypeOK
    <2>2. IsFiniteSet(Spent(d, x)') /\ Cardinality(Spent(d, x)') \in Nat
      BY <2>1, AnnouncementAssumption, FS_Subset, FS_CardinalityType
    <2>3. IsFiniteSet(Spent(d, x)) /\ Cardinality(Spent(d, x)) \in Nat
      BY SpentFinite
    <2>4. sent[d][x] \in Nat /\ sent[d][x] <= Cardinality(Spent(d, x))
      BY DEF TypeOK, Once, Counted
    <2>5. CASE sent'[d][x] = sent[d][x]
      <3>1. Cardinality(Spent(d, x)) <= Cardinality(Spent(d, x)')
        BY <1>5, <2>2, FS_Subset
      <3>2. QED
        BY <2>2, <2>3, <2>4, <2>5, <3>1
    <2>6. ASSUME d = target.device, sent'[d][x] = sent[d][x] + 1,
                 NEW a \in flush[f].batch, SpawnOf[a] = x
          PROVE  sent'[d][x] <= Cardinality(Spent(d, x)')
      <3>1. Holds(f, a) /\ a \in created /\ a \notin pending
        BY <1>1 DEF Apart, Holds
      <3>2. a \notin Spent(d, x)
        BY <1>1, <2>6, <3>1 DEF Spent
      <3>3. \A g \in Flush : Holds(g, a)' => g = f
        BY <1>3, <3>1 DEF Apart
      <3>4. flush'[f].at = "sending" /\ \A t \in flush'[f].todo : t.device # d
        BY <1>1, <1>2, <2>6 DEF Once, OnceOnList
      <3>5. a \in Spent(d, x)'
        BY <1>2, <2>6, <3>1, <3>3, <3>4 DEF Spent
      <3>6. Spent(d, x) \cup {a} \subseteq Spent(d, x)'
        BY <1>5, <3>5
      <3>7. Cardinality(Spent(d, x) \cup {a}) = Cardinality(Spent(d, x)) + 1
        BY <2>3, <3>2, FS_AddElement
      <3>8. Cardinality(Spent(d, x) \cup {a}) <= Cardinality(Spent(d, x)')
        BY <2>2, <3>6, FS_Subset
      <3>9. QED
        BY <2>2, <2>3, <2>4, <2>6, <3>7, <3>8
    <2>7. QED
      BY <1>6, <2>5, <2>6
  <1>8. QED
    BY <1>4, <1>7 DEF Once, Counted

(* A flush that ends, or is cut short, lets go of its batch.               *)
LEMMA EndedOnce ==
    ASSUME TypeOK, TypeOK', Once, NEW f \in Flush,
           FlushEnds(f) \/ \E target : MatchThrows(f, target)
    PROVE  Once'
  <1>1. /\ pending' = pending /\ created' = created /\ sent' = sent
        /\ \A g \in Flush \ {f} : flush'[g] = flush[g]
        /\ flush'[f].at # "sending"
    BY DEF FlushEnds, MatchThrows, TypeOK, Idle
  <1>2. \A g \in Flush : \A a : Holds(g, a)' => g # f /\ Holds(g, a)
    BY EndedHolds, CutHolds
  <1>3. \A d \in Device, x \in Spawn : Spent(d, x) \subseteq Spent(d, x)'
    BY <1>1, <1>2 DEF Spent
  <1>4. OnceOnList'
    BY <1>1 DEF Once, OnceOnList
  <1>5. QED
    BY <1>1, <1>3, <1>4, CountKept DEF Once

LEMMA OnceStep == TypeOK /\ Apart /\ Once /\ [Next]_vars => Once'
  <1> SUFFICES ASSUME TypeOK, Apart, Once, [Next]_vars PROVE Once'
    OBVIOUS
  <1>0. TypeOK'
    BY TypeStep
  <1>1. CASE UNCHANGED <<pending, created, sent, flush>>
    BY <1>1 DEF Once, OnceOnList, Counted, Spent, Holds
  <1>2. ASSUME NEW b \in Announcement, QueueSpawn(b) PROVE Once'
    <2>1. OnceOnList'
      BY <1>2 DEF QueueSpawn, Once, OnceOnList
    <2>2. \A d \in Device, x \in Spawn : Spent(d, x) \subseteq Spent(d, x)'
      BY <1>2 DEF QueueSpawn, Spent, Holds
    <2>3. sent' = sent
      BY <1>2 DEF QueueSpawn
    <2>4. QED
      BY <1>0, <2>1, <2>2, <2>3, CountKept DEF Once
  <1>3. ASSUME NEW f \in Flush, NEW timer \in timers, NEW late \in SUBSET pending,
               FlushBatch(f, timer, late)
        PROVE  Once'
    BY <1>0, <1>3, FlushBatchOnce
  <1>4. ASSUME NEW f \in Flush, ReadDevices(f) PROVE Once'
    BY <1>0, <1>4, ReadDevicesOnce
  <1>5. ASSUME NEW f \in Flush, NEW target, NEW outcome, Send(f, target, outcome)
        PROVE  Once'
    BY <1>0, <1>5, SendOnce
  <1>6. ASSUME NEW f \in Flush, FlushEnds(f) \/ \E target : MatchThrows(f, target)
        PROVE  Once'
    BY <1>0, <1>6, EndedOnce
  <1>7. CASE Reload
    <2>1. \A f \in Flush : flush'[f].at # "sending" /\ \A a : ~ Holds(f, a)'
      BY <1>7 DEF Reload, Idle, Holds
    <2>2. created' = created /\ pending' = {} /\ sent' = sent
      BY <1>7 DEF Reload
    <2>3. \A d \in Device, x \in Spawn : Spent(d, x) \subseteq Spent(d, x)'
      BY <2>1, <2>2 DEF Spent
    <2>4. OnceOnList'
      BY <2>1 DEF OnceOnList
    <2>5. QED
      BY <1>0, <2>2, <2>3, <2>4, CountKept DEF Once
  <1>8. QED
    BY <1>1, <1>2, <1>3, <1>4, <1>5, <1>6, <1>7
    DEF Next, FlushStep, Deliver, Apply, vars

(* However flushes overlap, each other and a device's updates, and however *)
(* often a spawn is announced, a device hears of it at most that often:    *)
(* every notification of it uses up an announcement.                       *)
THEOREM OnceTheorem == Spec => []AtMostOnce
  <1>1. Init => TypeOK /\ Apart /\ Once
    BY InitType, InitApart, InitOnce
  <1>2. TypeOK /\ Apart /\ Once /\ [Next]_vars => (TypeOK /\ Apart /\ Once)'
    BY TypeStep, ApartStep, OnceStep
  <1>3. TypeOK /\ Once => AtMostOnce
    BY OnceMeans
  <1>4. QED
    BY <1>1, <1>2, <1>3, PTL DEF Spec

-----------------------------------------------------------------------------

(* A handler whose device has no other is its only one, and the row it has *)
(* read is still there or a flush has taken it away.                       *)
Alone(h) ==
    \A k \in Handler : handler[k].at = "read" /\ handler[k].config.device = handler[h].config.device
                          => k = h

Current(h) ==
    handler[h].at = "read" /\ handler[h].config.device \notin overlapped =>
        Alone(h) /\ regs[handler[h].config.device] \in {handler[h].row, NoRow}

ReadIsCurrent == \A h \in Handler : Current(h)

LEMMA Handled ==
    ASSUME TypeOK
    PROVE  /\ \A h \in Handler : handler[h] # Idle <=> handler[h].at = "read"
           /\ \A h \in Handler : handler[h].at = "read" =>
                 handler[h].config \in Config /\ handler[h].config.device \in Device
  BY ConfigAssumption DEF TypeOK, Idle

LEMMA HandlingOf ==
    ASSUME TypeOK, NEW h \in Handler, handler[h].at = "read"
    PROVE  h \in Handling(handler[h].config.device)
  BY Handled DEF Handling

LEMMA DeliverCurrent ==
    ASSUME TypeOK, ReadIsCurrent, NEW h \in Handler, NEW config \in Config, Deliver(h, config)
    PROVE  ReadIsCurrent'
  <1> SUFFICES ASSUME NEW g \in Handler, handler'[g].at = "read",
                      handler'[g].config.device \notin overlapped'
               PROVE  Current(g)'
    BY DEF ReadIsCurrent, Current
  <1>1. /\ regs' = regs /\ handler[h] = Idle
        /\ handler'[h] = [at |-> "read", config |-> config, row |-> regs[config.device]]
        /\ \A k \in Handler \ {h} : handler'[k] = handler[k]
    BY DEF Deliver, TypeOK
  <1>2. handler'[h].config = config /\ handler'[h].row = regs[config.device]
    BY <1>1
  <1>3. CASE g = h
    <2>1. Handling(config.device) = {}
      BY <1>2, <1>3 DEF Deliver
    <2>2. \A k \in Handler \ {h} : handler[k].at = "read" => handler[k].config.device # config.device
      BY <2>1, Handled DEF Handling
    <2>3. Alone(h)'
      BY <1>1, <1>2, <2>2 DEF Alone
    <2>4. QED
      BY <1>1, <1>2, <1>3, <2>3 DEF Current
  <1>4. CASE g # h
    <2>1. handler'[g] = handler[g] /\ g \in Handling(handler[g].config.device)
      BY <1>1, <1>4, HandlingOf
    <2>2. handler[g].config.device # config.device /\ handler[g].config.device \notin overlapped
      BY <2>1 DEF Deliver
    <2>3. Current(g)
      BY DEF ReadIsCurrent
    <2>4. Alone(g)'
      BY <1>1, <1>2, <2>1, <2>2, <2>3 DEF Current, Alone
    <2>5. QED
      BY <1>1, <2>1, <2>2, <2>3, <2>4 DEF Current
  <1>5. QED
    BY <1>3, <1>4

LEMMA ApplyCurrent ==
    ASSUME TypeOK, ReadIsCurrent, NEW h \in Handler, Apply(h)
    PROVE  ReadIsCurrent'
  <1> SUFFICES ASSUME NEW g \in Handler, handler'[g].at = "read",
                      handler'[g].config.device \notin overlapped'
               PROVE  Current(g)'
    BY DEF ReadIsCurrent, Current
  <1> DEFINE d == handler[h].config.device
             e == handler[g].config.device
  <1>1. /\ handler'[h] = Idle /\ handler[h].at = "read"
        /\ \A k \in Handler \ {h} : handler'[k] = handler[k]
    BY DEF Apply, TypeOK
  <1>2. g # h /\ handler'[g] = handler[g] /\ Current(g)
    BY <1>1 DEF Idle, ReadIsCurrent
  <1>3. g \in Handling(e) /\ h \in Handling(d)
    BY <1>1, <1>2, HandlingOf
  <1>4. overlapped' = IF Handling(d) = {h} THEN overlapped \ {d} ELSE overlapped
    BY DEF Apply
  <1>5. e # d
    <2> SUFFICES ASSUME e = d PROVE FALSE
      OBVIOUS
    <2>1. Handling(d) # {h}
      BY <1>2, <1>3
    <2>2. e \notin overlapped
      BY <1>2, <1>4, <2>1
    <2>3. Alone(g)
      BY <1>2, <2>2 DEF Current
    <2>4. QED
      BY <1>1, <1>2, <2>3 DEF Alone
  <1>6. regs'[e] = regs[e]
    BY <1>2, <1>5, Handled DEF Apply, TypeOK
  <1>7. e \notin overlapped
    BY <1>2, <1>4, <1>5
  <1>8. Alone(g)'
    <2>1. \A k \in Handler : handler'[k].at = "read" => handler'[k] = handler[k]
      BY <1>1 DEF Idle
    <2>2. QED
      BY <1>2, <1>7, <2>1 DEF Current, Alone
  <1>9. QED
    BY <1>2, <1>6, <1>7, <1>8 DEF Current

LEMMA ReadIsCurrentStep == TypeOK /\ ReadIsCurrent /\ [Next]_vars => ReadIsCurrent'
  <1> SUFFICES ASSUME TypeOK, ReadIsCurrent, [Next]_vars PROVE ReadIsCurrent'
    OBVIOUS
  <1>1. ASSUME NEW h \in Handler, NEW config \in Config, Deliver(h, config) PROVE ReadIsCurrent'
    BY <1>1, DeliverCurrent
  <1>2. ASSUME NEW h \in Handler, Apply(h) PROVE ReadIsCurrent'
    BY <1>2, ApplyCurrent
  <1>3. ASSUME NEW f \in Flush, NEW target, NEW outcome, Send(f, target, outcome)
        PROVE  ReadIsCurrent'
    <2>1. \A d \in Device : regs'[d] \in {regs[d], NoRow}
      BY <1>3 DEF Send, TypeOK
    <2>2. QED
      BY <1>3, <2>1, Handled DEF Send, ReadIsCurrent, Current, Alone
  <1>4. CASE UNCHANGED <<regs, handler, overlapped>>
    BY <1>4 DEF ReadIsCurrent, Current, Alone
  <1>5. CASE Reload
    BY <1>5 DEF Reload, ReadIsCurrent, Current, Idle
  <1>6. QED
    BY <1>1, <1>2, <1>3, <1>4, <1>5
    DEF Next, FlushStep, QueueSpawn, FlushBatch, ReadDevices, MatchThrows, FlushEnds, vars

LEMMA NewerStep ==
    ASSUME TypeOK, ReadIsCurrent, [Next]_vars, NEW d \in Device \ overlapped,
           regs[d] # NoRow, regs'[d] # NoRow, regs'[d] # regs[d]
    PROVE  regs'[d].created > regs[d].created
  <1>1. ASSUME NEW h \in Handler, Apply(h)
        PROVE  regs'[d].created > regs[d].created
    <2>1. /\ handler[h].config.device = d
          /\ regs'[d] = Registered(handler[h].config)
          /\ ~ Superseded(handler[h].config, handler[h].row)
      BY <1>1 DEF Apply, TypeOK
    <2>2. handler[h].row = regs[d]
      BY <1>1, <2>1 DEF Apply, ReadIsCurrent, Current
    <2>3. handler[h].config.created \in Nat /\ regs[d].created \in Nat
      BY <1>1, Handled, ConfigAssumption DEF Apply, TypeOK, Row
    <2>4. QED
      BY <2>1, <2>2, <2>3 DEF Superseded, Registered
  <1>2. ASSUME NEW f \in Flush, NEW target, NEW outcome, Send(f, target, outcome) PROVE FALSE
    BY <1>2 DEF Send, TypeOK
  <1>3. QED
    BY <1>1, <1>2
    DEF Next, FlushStep, Deliver, QueueSpawn, FlushBatch, ReadDevices, MatchThrows, FlushEnds,
        Reload, vars

(* Whatever order a device's events arrive in and however many devices'    *)
(* are handled at once, none replaces a row that is as new, unless two of  *)
(* that device overlap.                                                    *)
THEOREM NewerTheorem == Spec => NewerReplaces
  <1>1. Init => ReadIsCurrent
    BY DEF Init, ReadIsCurrent, Current, Idle
  <1>2. TypeOK /\ ReadIsCurrent /\ [Next]_vars =>
          [\A d \in Device \ overlapped : regs[d] # NoRow /\ regs'[d] # NoRow /\ regs'[d] # regs[d] =>
              regs'[d].created > regs[d].created]_vars
    BY NewerStep
  <1>3. QED
    BY <1>1, <1>2, InitType, TypeStep, ReadIsCurrentStep, PTL DEF Spec, NewerReplaces

-----------------------------------------------------------------------------

LEMMA RemovalStep ==
    ASSUME TypeOK, [Next]_vars, NEW d \in Device, NEW f \in Flush,
           flush'[f] # flush[f], regs[d] # NoRow, regs'[d] = NoRow
    PROVE  \/ regs[d].reg \in Malformed
           \/ flush[f].at = "sending"
                 /\ \E target \in flush[f].todo \ flush'[f].todo :
                       /\ target.device = d /\ target.row.reg \in Malformed
                       /\ target.row # regs[d]
  <1>1. ASSUME NEW g \in Flush, NEW target \in flush[g].todo, NEW outcome,
               Send(g, target, outcome)
        PROVE  \/ regs[d].reg \in Malformed
               \/ flush[f].at = "sending"
                     /\ target \in flush[f].todo \ flush'[f].todo
                     /\ target.device = d /\ target.row.reg \in Malformed
                     /\ target.row # regs[d]
    <2>1. g = f
      BY <1>1 DEF Send, TypeOK
    <2>2. outcome = "malformed" /\ target.device = d
      BY <1>1 DEF Send, TypeOK
    <2>3. target.row.reg \in Malformed
      BY <1>1, <2>2 DEF Send, Outcome
    <2>4. flush[f].at = "sending" /\ flush[f] \in Sending
      BY <1>1, <2>1, FlushForms DEF Send
    <2>5. flush'[f] = [flush[f] EXCEPT !.todo = @ \ {target}]
      BY <1>1, <2>1 DEF Send, TypeOK
    <2>6. flush'[f].todo = flush[f].todo \ {target}
      BY <2>4, <2>5 DEF Sending
    <2>7. QED
      BY <1>1, <2>1, <2>2, <2>3, <2>4, <2>6
  <1>2. CASE UNCHANGED regs
    BY <1>2
  <1>3. ASSUME NEW h \in Handler, Apply(h) PROVE FALSE
    BY <1>3 DEF Apply
  <1>4. QED
    BY <1>1, <1>2, <1>3
    DEF Next, FlushStep, Deliver, QueueSpawn, FlushBatch, ReadDevices, MatchThrows, FlushEnds,
        Reload, vars

(* A batch costs no device its registration but by keys that do not        *)
(* decode, its own or those it has since replaced.                         *)
THEOREM RemovalTheorem == Spec => RemovesOnlyMalformed
  <1>1. TypeOK /\ [Next]_vars =>
          [\A d \in Device, f \in Flush :
              flush'[f] # flush[f] /\ regs[d] # NoRow /\ regs'[d] = NoRow =>
                  \/ regs[d].reg \in Malformed
                  \/ flush[f].at = "sending"
                        /\ \E target \in flush[f].todo \ flush'[f].todo :
                              /\ target.device = d /\ target.row.reg \in Malformed
                              /\ target.row # regs[d]]_vars
    BY RemovalStep
  <1>2. QED
    BY <1>1, InitType, TypeStep, PTL DEF Spec, RemovesOnlyMalformed
=============================================================================
