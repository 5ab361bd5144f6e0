---------------------------- MODULE Notifications ----------------------------
(***************************************************************************)
(* Push notifications (services/notifications.js): new spawns collected    *)
(* into batches by two timers, devices' registrations kept from the        *)
(* addressable events they publish, and batches sent device by device from *)
(* a snapshot of the registrations.                                        *)
(*                                                                         *)
(* An event may be delivered late, again and in any order.  One spawn may  *)
(* be announced more than once: two upserts of it at once both find it new *)
(* (Catalogue!CreatedIsNew).  What waits and what is sent are therefore    *)
(* announcements, each of one "spawn.created".                             *)
(*                                                                         *)
(* A timer may fire as soon as it is armed.  What miniscord's relay        *)
(* reports of a push service's answer is modelled from relay()             *)
(* (miniscord-connector.js): a relayed answer is ok whatever its status, a *)
(* failed relay has no status.                                             *)
(***************************************************************************)
EXTENDS Naturals, FiniteSets

CONSTANTS
    Device,         \* device pubkeys
    Spawn,
    Announcement,   \* "spawn.created" events
    SpawnOf,        \* the spawn each of them announces
    Registration,   \* push endpoints or FCM tokens
    Malformed,      \* those whose keys createWebPushRequest cannot use
    Config,         \* what devices may publish; reg is NoRow when it is unusable
    Unreadable,     \* preferences that matchesSpawnAlert throws on
    Handler,        \* configuration handlers in flight
    Flush,          \* flushes in flight
    NoRow

Wants == {Unreadable} \cup SUBSET Spawn

ASSUME AnnouncementAssumption ==
    IsFiniteSet(Announcement) /\ SpawnOf \in [Announcement -> Spawn]
ASSUME MalformedAssumption == Malformed \subseteq Registration
ASSUME ConfigAssumption ==
    Config \subseteq [device: Device, created: Nat, enabled: BOOLEAN,
                       reg: Registration \cup {NoRow}, wants: Wants]

VARIABLES
    regs,       \* the pushSubscriptions store: device -> row or NoRow
    handler,    \* #handleDeviceConfig calls between their get and their write
    pending,    \* #pendingSpawns
    timers,     \* which of "debounce" and "maxWait" are armed
    flush,      \* #flushBatch calls
    created,    \* history: the announcements made so far
    sent,       \* history: per device and spawn, the notifications that named it
    settled,    \* history: announcements whose batch has been dealt with, or was lost
    cut,        \* history: those whose batch ended where the matching threw
    dead,       \* registrations a push service has answered 404 or 410 for
    overlapped  \* history: devices with configurations handled at the same time

vars == <<regs, handler, pending, timers, flush, created, sent, settled, cut, dead, overlapped>>

Row == [created: Nat, reg: Registration, wants: Wants]
Idle == [at |-> "idle"]

-----------------------------------------------------------------------------

Init ==
    /\ regs = [d \in Device |-> NoRow]
    /\ handler = [h \in Handler |-> Idle]
    /\ pending = {}
    /\ timers = {}
    /\ flush = [f \in Flush |-> Idle]
    /\ created = {}
    /\ sent = [d \in Device |-> [x \in Spawn |-> 0]]
    /\ settled = {}
    /\ cut = {}
    /\ dead = {}
    /\ overlapped = {}

(* The configurations of a device that are being handled.  Nothing keeps   *)
(* them apart; overlapped lasts until the last of them is through.         *)
Handling(d) == {h \in Handler : handler[h] # Idle /\ handler[h].config.device = d}

(* A device's event arrives: the get of #handleDeviceConfig. *)
Deliver(h, config) ==
    /\ handler[h] = Idle
    /\ handler' = [handler EXCEPT ![h] = [at |-> "read", config |-> config,
                                          row |-> regs[config.device]]]
    /\ overlapped' = IF Handling(config.device) = {} THEN overlapped
                     ELSE overlapped \cup {config.device}
    /\ UNCHANGED <<regs, pending, timers, flush, created, sent, settled, cut, dead>>

(* Slip: only a copy of the same event is taken for superseded. *)
SupersededIfSame(config, row) == row # NoRow /\ config.created = row.created

(* Not newer than the row it has read. *)
Superseded(config, row) == row # NoRow /\ config.created <= row.created

Registered(config) == [created |-> config.created, reg |-> config.reg, wants |-> config.wants]

(* The rest of the handler: drop it, or delete the row, or put the new one.*)
Apply(h) ==
    /\ handler[h].at = "read"
    /\ LET config == handler[h].config
           d == config.device
       IN  /\ regs' = CASE Superseded(config, handler[h].row) -> regs
                        [] OTHER ->
                             IF ~ config.enabled THEN [regs EXCEPT ![d] = NoRow]
                             ELSE IF config.reg = NoRow THEN regs
                             ELSE [regs EXCEPT ![d] = Registered(config)]
           /\ overlapped' = IF Handling(d) = {h} THEN overlapped \ {d} ELSE overlapped
    /\ handler' = [handler EXCEPT ![h] = Idle]
    /\ UNCHANGED <<pending, timers, flush, created, sent, settled, cut, dead>>

(* A "spawn.created" event: #queueSpawn, whether or not its spawn waits or *)
(* has been sent already.                                                  *)
QueueSpawn(a) ==
    /\ a \notin created
    /\ created' = created \cup {a}
    /\ pending' = pending \cup {a}
    /\ timers' = {"debounce", "maxWait"}
    /\ UNCHANGED <<regs, handler, flush, sent, settled, cut, dead, overlapped>>

TakeBatch(f, late) ==
    /\ late \subseteq pending
    /\ settled' = settled \cup late
    /\ flush' = IF late = pending THEN flush
                ELSE [flush EXCEPT ![f] = [at |-> "reading", batch |-> pending \ late]]

(* Slips: the other timer stays armed, and the batch is not taken out.     *)
FlushBatchOneTimer(f, timer, late) ==
    /\ timer \in timers
    /\ flush[f] = Idle
    /\ TakeBatch(f, late)
    /\ timers' = timers \ {timer}
    /\ pending' = {}
    /\ UNCHANGED <<regs, handler, created, sent, cut, dead, overlapped>>
FlushBatchKept(f, timer, late) ==
    /\ timer \in timers
    /\ flush[f] = Idle
    /\ TakeBatch(f, late)
    /\ timers' = timers \ {timer}
    /\ UNCHANGED <<regs, handler, pending, created, sent, cut, dead, overlapped>>

(* A timer fires and #flushBatch takes what is pending, but for the spawns *)
(* that have too little time left (late).                                  *)
FlushBatch(f, timer, late) ==
    /\ timer \in timers
    /\ flush[f] = Idle
    /\ TakeBatch(f, late)
    /\ timers' = {}
    /\ pending' = {}
    /\ UNCHANGED <<regs, handler, created, sent, cut, dead, overlapped>>

(* What a notification to a device would name. *)
Matches(row, batch) == row.wants \cap {SpawnOf[a] : a \in batch}

(* pushSubscriptions.all(): the rows that the batch is sent to, or whose   *)
(* preferences, stored as the device sent them, are no lists.              *)
ReadDevices(f) ==
    /\ flush[f].at = "reading"
    /\ flush' = [flush EXCEPT ![f] =
           [at |-> "sending", batch |-> flush[f].batch,
            todo |-> {[device |-> d, row |-> regs[d]] :
                      d \in {e \in Device :
                               /\ regs[e] # NoRow
                               /\ \/ regs[e].wants = Unreadable
                                  \/ Matches(regs[e], flush[f].batch) # {}}}]]
    /\ UNCHANGED <<regs, handler, pending, timers, created, sent, settled, cut, dead, overlapped>>

(* The loop comes to a row whose preferences cannot be matched: #flushBatch*)
(* rejects, and the devices after it hear nothing of this batch.           *)
MatchThrows(f, target) ==
    /\ flush[f].at = "sending"
    /\ target \in flush[f].todo
    /\ target.row.wants = Unreadable
    /\ cut' = cut \cup flush[f].batch
    /\ flush' = [flush EXCEPT ![f] = Idle]
    /\ UNCHANGED <<regs, handler, pending, timers, created, sent, settled, dead, overlapped>>

Outcome(reg) == IF reg \in Malformed THEN {"malformed"} ELSE {"delivered", "gone", "failed"}

(* Slip: a send that fails ends the flush. *)
SendThrowing(f, target, outcome) ==
    /\ flush[f].at = "sending"
    /\ target \in flush[f].todo
    /\ target.row.wants # Unreadable
    /\ outcome \in Outcome(target.row.reg)
    /\ flush' = [flush EXCEPT ![f] = IF outcome = "failed" THEN Idle
                                     ELSE [@ EXCEPT !.todo = @ \ {target}]]
    /\ UNCHANGED <<regs, handler, pending, timers, created, sent, settled, cut, dead, overlapped>>

(* Slip: any failure takes the row for invalid. *)
SendImpatient(f, target, outcome) ==
    /\ flush[f].at = "sending"
    /\ target \in flush[f].todo
    /\ target.row.wants # Unreadable
    /\ outcome \in Outcome(target.row.reg)
    /\ regs' = IF outcome # "delivered" THEN [regs EXCEPT ![target.device] = NoRow] ELSE regs
    /\ flush' = [flush EXCEPT ![f].todo = @ \ {target}]
    /\ UNCHANGED <<handler, pending, timers, created, sent, settled, cut, dead, overlapped>>

(* The send to one device of the snapshot ends.  Keys that are malformed   *)
(* throw, and the row of that device, whatever it is by now, is deleted.   *)
(* A 404 or 410 that was relayed comes back as ok, and one that was not    *)
(* comes back without a status: either way nothing is deleted.             *)
Send(f, target, outcome) ==
    /\ flush[f].at = "sending"
    /\ target \in flush[f].todo
    /\ target.row.wants # Unreadable
    /\ outcome \in Outcome(target.row.reg)
    /\ regs' = IF outcome = "malformed" THEN [regs EXCEPT ![target.device] = NoRow] ELSE regs
    /\ sent' = IF outcome = "delivered"
               THEN [sent EXCEPT ![target.device] =
                       [x \in Spawn |-> IF x \in Matches(target.row, flush[f].batch)
                                        THEN @[x] + 1 ELSE @[x]]]
               ELSE sent
    /\ dead' = IF outcome = "gone" THEN dead \cup {target.row.reg} ELSE dead
    /\ flush' = [flush EXCEPT ![f].todo = @ \ {target}]
    /\ UNCHANGED <<handler, pending, timers, created, settled, cut, overlapped>>

FlushEnds(f) ==
    /\ flush[f].at = "sending"
    /\ flush[f].todo = {}
    /\ settled' = settled \cup flush[f].batch
    /\ flush' = [flush EXCEPT ![f] = Idle]
    /\ UNCHANGED <<regs, handler, pending, timers, created, sent, cut, dead, overlapped>>

(* What was pending or being sent is lost. *)
Reload ==
    /\ settled' = created \ cut
    /\ pending' = {} /\ timers' = {}
    /\ flush' = [f \in Flush |-> Idle]
    /\ handler' = [h \in Handler |-> Idle] /\ overlapped' = {}
    /\ UNCHANGED <<regs, created, sent, cut, dead>>

FlushStep(f) ==
    \/ \E timer \in timers, late \in SUBSET pending : FlushBatch(f, timer, late)
    \/ ReadDevices(f)
    \/ flush[f].at = "sending" /\ \E target \in flush[f].todo :
          \/ \E outcome \in Outcome(target.row.reg) : Send(f, target, outcome)
          \/ MatchThrows(f, target)
    \/ FlushEnds(f)

Next ==
    \/ \E h \in Handler, config \in Config : Deliver(h, config)
    \/ \E h \in Handler : Apply(h)
    \/ \E a \in Announcement : QueueSpawn(a)
    \/ \E f \in Flush : FlushStep(f)
    \/ Reload

Spec == Init /\ [][Next]_vars

(* Timers fire, and a relayed request settles within its own timeout. *)
FairSpec == Spec /\ \A f \in Flush : WF_vars(FlushStep(f))

-----------------------------------------------------------------------------

Target == [device: Device, row: Row]

TypeOK ==
    /\ regs \in [Device -> Row \cup {NoRow}]
    /\ handler \in [Handler -> {Idle} \cup [at: {"read"}, config: Config, row: Row \cup {NoRow}]]
    /\ pending \subseteq Announcement /\ created \subseteq Announcement
    /\ settled \subseteq Announcement /\ cut \subseteq Announcement
    /\ timers \subseteq {"debounce", "maxWait"}
    /\ flush \in [Flush -> {Idle} \cup [at: {"reading"}, batch: SUBSET Announcement]
                            \cup [at: {"sending"}, batch: SUBSET Announcement,
                                  todo: SUBSET Target]]
    /\ sent \in [Device -> [Spawn -> Nat]]
    /\ dead \subseteq Registration
    /\ overlapped \subseteq Device

(* No announcement waits without a timer, none of an earlier batch cuts    *)
(* the next one short, and each is in exactly one place.                   *)
InFlight == UNION {flush[f].batch : f \in {g \in Flush : flush[g] # Idle}}
BatchesAreApart ==
    /\ timers = IF pending = {} THEN {} ELSE {"debounce", "maxWait"}
    /\ created = pending \cup InFlight \cup settled \cup cut
    /\ pending \cap InFlight = {} /\ settled \cap cut = {}
    /\ (pending \cup InFlight) \cap (settled \cup cut) = {}
    /\ \A f, g \in Flush : f # g /\ flush[f] # Idle /\ flush[g] # Idle =>
          flush[f].batch \cap flush[g].batch = {}

(* However batches and device updates overlap, a device hears of a spawn   *)
(* at most as often as it was announced: once, but for racing upserts.     *)
AtMostOnce ==
    \A d \in Device, x \in Spawn :
        sent[d][x] <= Cardinality({a \in created : SpawnOf[a] = x})

(* Unless configurations of one device are handled at the same time, one   *)
(* that replaces another is newer: "an older duplicate can't undo a newer  *)
(* change", whatever the handlers of other devices and the flushes do.     *)
NewerReplaces ==
    [][\A d \in Device \ overlapped : regs[d] # NoRow /\ regs'[d] # NoRow /\ regs'[d] # regs[d] =>
          regs'[d].created > regs[d].created]_vars

(* A batch sends from a snapshot and deletes by the device's key: it takes *)
(* a row away only if the keys of the registration it has sent to do not   *)
(* decode, and one that does work only if the device has published since   *)
(* the snapshot.                                                           *)
RemovesOnlyMalformed ==
    [][\A d \in Device, f \in Flush :
          flush'[f] # flush[f] /\ regs[d] # NoRow /\ regs'[d] = NoRow =>
              \/ regs[d].reg \in Malformed
              \/ flush[f].at = "sending"
                    /\ \E target \in flush[f].todo \ flush'[f].todo :
                          /\ target.device = d /\ target.row.reg \in Malformed
                          /\ target.row # regs[d]]_vars

(* Every announcement is dealt with, whoever's send fails on the way, if   *)
(* no device whose preferences are no lists stops its batch.               *)
EveryBatchEnds == \A a \in Announcement : a \in created ~> a \in settled \cup cut

(* "Permanently invalid endpoint [...] remove rather than retry"           *)
(* (notifications.js:311): a 404 or 410 for the registration a device has  *)
(* now takes its row away.                                                 *)
DeadIsRemoved ==
    [][\A r \in dead' \ dead, d \in Device :
          regs[d] # NoRow /\ regs[d].reg = r => regs'[d] = NoRow]_vars
=============================================================================
