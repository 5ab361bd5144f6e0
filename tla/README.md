# cusucomap-worker: verification

`cusucomap-worker` is one browser page. It asks miniscord (a local bridge to a
Discord bot) what is around, keeps what it learns in IndexedDB, publishes it on
Nostr relays, serves requests of viewers and of the operator's commands page
over encrypted Nostr events, and sends push notifications. Everything runs in
one thread, so no two lines run at once; but every `await` hands control to
whatever else is ready, requests are dispatched without waiting for one another
(`rpc.js:40`), and the page reloads itself when a new build is deployed
(`worker-app.js:1288`). The state worth checking is what is read before an
`await` and written after it.

The modules here model that: **an action is what the code does from one
`await` to the next**, an IndexedDB `get` and the `put` it leads to are two
actions, and what a handler remembers in between is part of the state.

## Inventory

| component | state | operations | talks to | what is hard | what makes it correct |
|---|---|---|---|---|---|
| Scan ledger (`worker-app.js` 724-860, 1060-1195) | `scanSubscribers` rows: activeUntil, dailyLimit, scansUsedToday, scansUsedDate | authorize and charge, check, set, remove, refund | RPC, scan runner | get/put pairs of five handlers interleave; midnight | nobody scans without a grant; the count is the day's scans |
| Scan pools (`worker-app.js` 771-1050, `pokemon-state.js` 65-100) | `pendingScanPools` rows, un-awaited runners | create, run with retries, filter, settle, approve, discard | ledger, chain, entity stores | runner, approvals and the discard tick write one row from old copies; a reload kills a runner, an exception breaks it off | the status tells what happened; nothing is discarded or shared too early; a charge is answered, refunded or lost with its runner |
| Operator's scans (`core/area-scan.js`, `species-scan.js`) | none kept | run, build, ingest | chain | | |
| Miniscord connector (`miniscord-connector.js`) | the promise chain | search, gyms, unread, relay | miniscord | one failed call must not stop the chain | one search at a time, everyone answered |
| Pause gate and scheduled loop (`worker-app.js` 67-95, 509-544) | set of reasons, the waiting loop | pause, resume, wait | chain, batch, watch channel, dashboard | three holders, lost wake-ups, a pass that throws | waits only while paused, released by the last |
| Quest-scan batch (`worker-app.js` 228-394) | running, cancelRequested, attempt; lastRunDate in localStorage | start (three ways), cancel, retry, automatic run | gate, chain | retries, cancel, reload around the daily run | ends, lets go of the gate, once a day |
| Watch channel (`watch-channel-connector.js`, `worker-app.js` 600-631) | lastSeen in memory and in `workerMetadata`, the check under way, a special search | load, check, save, search with retries | gate, chain, gyms poll | a check may get ahead of the load; reload between save and search | each new message searched for, once |
| Entity stores (`application-state.js`, `pokemon-state.js`) | spawns, raids, research, gyms; status | upsert, sweep, prune, expire all research | publishing, notifications | sweeps put back snapshots | what despawned expires, what is live stays |
| Publishing (`worker-app.js` 396-470, `nostr-transport.js`) | replaceable events by created_at | publish on change, resync at start | relays | same-second events, resync with old snapshots | the relay ends with the store's state |
| Nostr transport | pool, subscriptions, last event time | subscribe, health check, forced reconnect | relays, RPC, notifications | which subscriptions survive | none is lost |
| RPC (`rpc.js`, `rpc-client.js`) | processed event ids; pending calls | dispatch, reply, prune; call, timeout | transport | duplicates over several relays, late answers | handled once |
| Notifications (`services/notifications.js`) | pushSubscriptions rows, pending spawns, two timers | queue, flush, send, device configuration | bus, relay of miniscord | flushes overlap each other and rotations; a spawn announced twice; preferences that cannot be matched | each device hears once per announcement; the newest configuration stays; dead ones go |
| Accounts (`services/accounts.js`, `auth/google.js`) | `users` rows: Google identity, linked keys | verify, find or create, link | RPC, Google | two sign-ins at once write back old rows | only proved keys are linked; one user per identity, links stay |
| Life cycle | setup form, starting guard, resume note | start, auto-resume, auto-update | all | a second start | wired once |
| Builders, resolver, schemas, ids, logging, dashboard, commands page | caches only | pure conversions, user interface | | | |

The same list, with the state of each part, is `components` in `PROJECT.json`;
every spot where something hard happens is a line of `hazards`.

## Modules

```
DailyQuota <--refines-- ScanLedgerSerial --extends--> ScanLedger     <--proofs-- ScanLedgerProofs
ScanLedger <--refines-- ScanService      --extends--> ScanPools      <--proofs-- ScanServiceProofs
MiniscordPacing <--extends-- WatchChannel        <--proofs-- WatchChannelProofs
Catalogue       <--extends-- CatalogueTopics     <--proofs-- CatalogueProofs
Directory       <--refines-- Accounts            <--proofs-- AccountsProofs
Notifications                                    <--proofs-- NotificationsProofs
RelayLink                                        <--proofs-- RelayLinkProofs
Lifecycle                                        <--proofs-- LifecycleProofs
```

A proof module extends the most detailed module of its line (`ScanLedgerSerial`,
`ScanService`, `CatalogueTopics`), and proves what holds of the module that one
extends too. `MC*` modules only give the constants of the runs.

### ScanLedger

`subs` is the store. `call[c]` is a request handler between its `get` and its
`put`: which one (`authorize`, `check`, `set`), for whom, and the row it has read.
`scan[s]` is what became of a scan that was charged. `Read` is the `get` every
handler starts with; `AuthorizeCharge`, `AuthorizeReject`, `CheckResume`,
`SetResume`, `SetReject` are the rest of the handlers, which decide on the
remembered row with the clock of that moment and put a row computed from it
(`ChargedRow`, `SeenRow`, `GrantedRow`), whatever the store holds by then.
`RefundRead` and `RefundResume` are `reimburseScanRequest`. `Remove` has no `get`.
`granted` is a history variable: who was ever given access. `Lose` is the pool's
first put, the runner or its refund throwing, with nobody to give the charge back.
`Reload` forgets the handlers and keeps the store. The fields nothing decides on
(seenCount, note, tag) are left out.

`ScanLedgerSerial` adds the assumption the code was written under, that
handlers do not overlap, and a bill per scan. `DailyQuota` is what the ledger
is for: a grant and a number per subscriber, charged and refunded in single
steps, cleared at midnight. The serial ledger implements it (`Quota`, a
refinement mapping that takes the day's count for `used`).

### ScanPools

`pools` is the store, `runner[s]` the function `runSubscriberScanViaMiniscord`
started without `await`: searching (with its attempt), filtering what is known
already, refunding, reading and writing its pool. A record that cannot be built,
or a store that rejects, throws out of it (`Throw`): its caller only logs that
(`worker-app.js:936`, `994`), and the pool stays as it is. `approval[a]` is
`approveScanResults` between its `get` and its `put`, `sweep` the 60-second
tick: it reads all pools, decides, and deletes them one by one. `public` is
what is in the spawns store. History are `shared`, what approvals emitted, and
`sweep.approved`, the scans approved since the tick read the pools.

### ScanService

The two composed as the request handlers wire them; it extends `ScanPools`, whose
steps it joins to those of the ledger (`Ledger`, an instance). `Start` goes on
after the awaited charge with the subscriber it charged, or its put rejects and
the charge is lost (`StartFails`); a result in the pool is what the charge was for
(`Serve`), giving up refunds before the pool is marked, an exception of the runner
loses a charge that is still open (`Break`), a reload stops both halves. It
refines each component's specification, `ScanPools` with its fairness.

### MiniscordPacing

`queue` and `line` are the promise chain with its gap; `reasons` is the pause
gate; `loop`, `quest`, `watch` and `request` are the callers. A continuation runs
in the turn that resolves its promise, so what a caller does at once with an
answer is in the action that delivers it (`Settle`). Building sightings from the
records looks up species, which may fetch, and is a step of its own (`LoopBuilt`,
`QuestBuilt`, `WatchBuilt`) that may throw: the batch and the special search let
go of the gate and end, the loop, which arms its next pass only at the end of this
one, is over (`LoopThrows`). Of the date of the last automatic batch, in
localStorage, the module keeps whether it is today's and was saved (`ranToday`),
so any number of days may pass, and a page load forgets a date that localStorage
refused.

### WatchChannel

The connector on top of the chain; it extends `MiniscordPacing`, whose steps it
takes through `Paced`, and whose `Alert` (the special search) it alone starts.
Message ids are only ever compared with the channel's last one, so `seen`
(memory), `saved` (`workerMetadata`) and the id a check carries are each whether
it is the last, and the channel may have any number of messages (`Post`).
`check` is `#checking` with its place between the awaits: asking, saving,
searching. The gym poll asks miniscord before `start()` has loaded the saved id,
and its answer may trigger a check, so `StartCheck` does not wait for `Load`. A
put that a page load cuts off may or may not be in the store (`ReloadPage`).
`spent` (the last message was searched for, or its search was cut off), `again`
and `early` are history.

### Notifications

What is queued and sent are announcements ("spawn.created" events): `#queueSpawn`
takes whatever is announced, and two upserts of one spawn at once announce it
twice (`CreatedIsNew` in the catalogue), so `SpawnOf` may give two of them one
spawn. `pending` and `timers` are the batch being collected, `flush[f]` a call of
`#flushBatch`: reading the registrations, then sending to the rows it has read
(`todo`), one by one. `handler[h]` is `#handleDeviceConfig` between its `get` and
its write; a configuration carries its device. `overlapped` is history: the
devices of which two configurations are, or were, handled at the same time, until
the last of them is through. A device's preferences are stored as it sent them,
and matching runs outside any `try`: if they are no lists (`Unreadable`) the flush
rejects at that device (`MatchThrows`), which `cut` remembers. `Send` has the
outcomes the transport lets through: miniscord's relay reports any relayed answer
as ok, and a failed one without a status.

### Catalogue

One collection of entities and the copies relays hold of it. `store` is the
collection, `queue` the upserts between their `get` and their `put` (with what
they have read), `tick` the 60-second tick with the rows it has left to flip or
delete, `expire` the operator's button, `resync` what `republishAllActive` has
read. `Observe` is `#ingest` up to the `get`, `Upsert` the rest with the
publication its event causes; `SweepRead`, `SweepPut`, `TrimDate`, `TrimRead`,
`TrimDelete` are the tick. `relay` keeps the newest copy by `created_at` in
seconds: a copy that is over is refused, any copy may be lost, and of two of
one second either may stay (`Publish`). `lost`, `changed` and `beaten` are
history: whose last publication reached nobody, when an upsert last changed a
row, whose copy is known to differ. `CatalogueTopics` adds which of the two
topics an upsert emits, with a history of the entities for which two upserts
were under way at once (`raced`): "created" queues a push notification,
"updated" does not.

### Accounts

`users` is the store, a row the Google identity and the keys linked to it;
`task[h]` is `linkGoogleAccount` between its awaits: verifying, found (with the
row it has read, or none), linking. `Verify` has two outcomes and looks the user
up; `Upsert` puts back the row it read or a new one under a random id; `Link`
puts it once more with the key, unless the row it read had it. Each write
carries the row as it was read. A look-up by identity or by key takes the first
of several rows in the order of their ids, which are random (`CHOOSE`).
`proven`, `told` and `overlapped` are history. `Directory` is what
`accounts.js:44` describes: one user per identity, its links only added to, in
single steps; `Promise` is the refinement mapping.

### RelayLink

`link`, `open`, `reopen`, `quiet` are the transport: whether anything comes or
goes, what the pool is subscribed to, the one subscription it remembers, and
how long since a sign of life. `heard` is what the pool has handed to this
subscription; a new one may be handed an event again as long as a relay still
delivers it (`MaxDelay`). `marked` is the replay memory with the age of its
rows, `job[j]` a call of `#dispatch` between look-up, mark, handler and reply,
`call[c]` the client's side. Time is counted in units of the health check;
IndexedDB requests and the client's timeout are over within one.

### Lifecycle

`screen` is what the page shows, `starting` the form's guard, `syncing` the
configuration `startWorker` is waiting with, `wired` and `failures` how often
this page was wired and how often a start failed after that. `note` is
sessionStorage, `saved` localStorage; a load in the same tab keeps both, a new
tab only the second. `startWorker` has no `await` before `republishAllActive`,
so wiring belongs to the step that calls it (`Submit`, `Load`), and the update
check begins only in `Synced`. A configuration is its key and its tick; the
checks of centre and radius have the same effect as an empty key. The saving of
the configuration comes before the handler's `try`: if it throws the guard stays
up and the form is dead until a page load (`SaveThrows`); as page loads are bounded
that is the one place where a run may stop, and its deadlock check is off.

## Runs

| run | shows | instance |
|---|---|---|
| `ledger` | stale writes of overlapping handlers and refunds never make access out of nothing (`AccessOnlyByGrant`), never take a count below zero, over the largest limit or into the future (`CounterInRange`); what the viewer is told and what is decided agree (`AnswersAgree`); as long as no two handlers overlap the count is the number of the day's unrefunded scans, short only of stray refunds (`CountMatchesScans`), and the ledger implements `DailyQuota` | 1 subscriber, 2 handlers, 2 scans, clock to 4 (two midnights) |
| `pools` | running scans keep their pool, statuses tell what happened, a pool says "collecting" while its runner works or since a reload or an exception ended it, only results are shared, pools go only after their grace, approved ones only if approved under the tick, runners that nothing kills or breaks end | 1 scan, 2 approvals, 2 spawns that despawn at different times, 1 retry |
| `service` | what a pool shows was paid for, what an approval published too, failures are refunded and both halves agree (`HalvesAgree`), every charge ends with a result, a refund, or the reload or exception that lost it, both components are implemented | 1 handler, 1 scan, 1 approval, 1 spawn, a day's end |
| `pacing` | the gate is honest, one search per caller, at most one call leaks past a pause, one automatic batch a day; an id saved as seen has been searched for and is not searched for again but by a check that got ahead of the load; requests are answered, batches and checks end | 2 entries, 2 groups, 1 retry each, 1 requester, any number of days, messages and page loads |
| `notifications` | batches are apart, a device hears of a spawn at most as often as it was announced, batches end unless unreadable preferences stop them; newer replaces older unless two of one device overlap, a flush removes a row only for keys that do not decode | 2 devices, a spawn announced twice, 5 configurations (one disables, one has bad keys, one is unreadable, one unusable), 2 handlers, 2 flushes |
| `catalogue` | relays have every live entity whose publication was not lost, no older than its last change; the tick takes only what was over when it looked; "created" is said of what is new, but for two upserts at once; what is over is swept | 1 entity, 2 ends and one that is no date, 2 upserts in flight, 2 days, 1 page load |
| `relay_link` | a request is carried out at most once, an answer is the call's own, a dead connection is replaced | 2 calls of one key, 2 jobs, replay window and delay of 2, 1 silent death, 1 page load |
| `accounts` | only proved keys are linked; until two sign-ins of one identity overlap, one user per identity whose links stay, as `Directory` has it | 2 identities, 2 keys, 3 ids, 2 handlers, any number of sign-ins and page loads |
| `lifecycle` | one worker per page but for starts that failed late, resumed as it was, and on the newest build in the end | 2 keys that decode and one that does not, 2 deploys, 2 loads by hand, 2 late failures |
| `approved_unpublished`, `dead_endpoint`, `subscription_lost` | disagreements of code and documentation, see Findings | as the run above of the same module |

**Why these bounds.** Two handlers are what one stale write needs; a third one
adds only a longer chain of the same overwrites, and the theorems below hold for
any number. Rows of different subscribers never touch each other, so one
subscriber is enough. Handlers and scan ids are interchangeable in `ledger`, as
are handlers, identities and keys in `accounts` (user ids are not: `CHOOSE` goes
by their order); both check safety only, so symmetry is sound there; no run with a
liveness property uses it. A day has two ticks, so access can end inside a day and
a day can end inside access; three ticks cross one midnight, four cross two. One
retry takes both branches of every retry test. Two approvals and the tick are all
the writers a pool has besides its runner. Two spawns with different despawn times
let a pool be partly stale. The largest limit is 2 so that 1 is neither the first
nor the last scan. Two entries and two groups let a pause or a cancel fall in the
middle; a requester knows nothing of another but that the chain is longer, and the
theorems hold for any number. In `notifications` both announcements are of one
spawn, which two flushes can hold at once, each for two devices; one registration
has keys that do not decode, one configuration cannot be matched, and the
configurations replace, disable and spoil one another in any order and number,
handled two at a time while flushes send to rows they have read. In `catalogue`
rows of different entities never touch each other except in the order of two
loops, so one entity is enough; of its two ends one passes within the clock's
range and one does not, two upserts in flight let one be put over another's row,
and the retention of zero lets the trim meet rows the sweep has just read. In
`relay_link` the stale limit is one unit and the delay two, so that a replaced
pool can be handed an event the old one was handed; the theorem covers every delay
within the replay window. Two deploys in `lifecycle` let one happen while the page
is on its way to the other. In `accounts` two handlers are what one overlap needs,
two keys let two devices sign in to one account and one device to two, and three
ids leave one free when both identities have a row.

**Fairness.** `ScanPools`, `ScanService`: a runner that nothing kills or breaks
keeps going, because a search settles by its own 12-second timeout and IndexedDB
requests settle. `MiniscordPacing`: the chain's calls time out, the gap and the
pauses between retries are timers, a species lookup settles as any fetch does.
`WatchChannel` adds that IndexedDB's load and put settle and that GET /unread
does, by an answer or its timeout. Nothing is assumed of the operator, of the
requesters, of the loop, of exceptions or of who posts in the watched channel.
`Notifications`: timers fire and a relayed request has its own timeout.
`Catalogue`: the tick is an interval timer and its requests settle. `RelayLink`:
time passes, timers fire, IndexedDB requests settle; relays are not assumed to
deliver or acknowledge anything. `Lifecycle`: a load ends, a start settles, and
the host keeps answering the update check. Reloads are never fair; liveness is
stated up to a reload.

## Theorems

All are proved by `tlapm` for every value of the constants, from the named
assumptions beside them (dates and limits are positive numbers, the clock is a
number, `NoRow` is no row, and the like).

* `ScanLedgerProofs!TypeCorrect`, `AccessTheorem`: access comes only from the
  operator. `AccessOnlyByGrant` is inductive with `TypeOK` because it speaks of
  the rows held in handlers and refunds as well as of the stored ones: a row
  with a date was granted when it was read, and `granted` only grows.
* `AnswersTheorem`: follows from the types alone, for every held row.
* `RangeTheorem`: `CounterInRange` with `TypeOK` is inductive because it, too,
  speaks of held rows: a charge adds one only where `Admissible` of the same row
  said the count was below a limit, a refund has its floor, and a row's date was
  today's when it was written.
* `CountTheorem`, `QuotaTheorem`, of `ScanLedgerSerial`: as long as no handlers
  overlapped (`~ tangled`), `SerialInv` holds: one handler or refund at most is in
  flight (`OneInFlight`), the row it holds is the stored one (`RowsAreStored`),
  bills are dated no later than today (`BillsOK`), and only a refunded scan was
  paid back while one whose subscriber was removed has no bill (`BillsSettle`).
  With that, one write changes the bills of one scan as it changes the count, and
  the cardinality lemmas turn the day's bills into the number in the row; each
  write maps to the step of `DailyQuota` of the same name or to none. `Scan` is
  finite, as a count needs, and `NoRow` is no grant.
* `ScanServiceProofs!TypeCorrect`, `PoolsHeld`: the discard tick never takes a
  running scan's pool. The inductive invariant is
  `HeldWhileRunning /\ NothingBeforeStart`: the second part says that nothing
  holds anything of a scan before its request put a pool, so that neither an
  approval nor a snapshot from before can reach the new pool; the first speaks
  of the tick's snapshot and of its list, so that deciding and deleting late
  keeps it. That only *terminal* statuses are stale is what carries it.
* `StatusIsHonest`, `SharesResults`, `DiscardsStale`, over that invariant: every
  copy of a pool that is held anywhere (`Held`: the store, the runner's, an
  approval's, the tick's snapshot) tells the truth of its own status (`Tells`),
  and a runner that is done is done for good, so writing an old copy back cannot
  make an untrue status; what an approval shares it took from such a copy; all
  copies of a pool have one age (`OneAge`), and what the tick has doomed was stale
  when it read it (`DoomedIsStale`) and stays so: an approval in between changes
  its status, not its age, and adds no spawn. What the tick has read as finished
  is so still, is gone, or was approved under it (`Sighted`).
* `LedgerImplemented`, `PoolsImplemented`, `ServiceAgrees`, of `ScanService`: its
  every step is one of the ledger's or leaves the ledger alone, and one of the
  pools' or leaves the pools alone; the second needs that who was charged is a
  subscriber (`Entries`). `ServiceInv` is the invariants of the pools with what
  relates the halves: what the ledger has written of a scan told by where its
  runner is (`Stage`), who was charged named by every copy of its pool (`Owned`,
  from `RowsKeepOwner`: a step invents no owner but that of a request), and
  nothing found by a runner that got no answer (`Fruitless`), so that what is
  published was served and stays paid for. A broken runner's charge is lost if it
  was still open and stays as it is if not. `LedgerAssumption` repeats the
  ledger's own assumptions.
* `WatchChannelProofs`: `ConnectorPaces` shows that the connector's every step
  is one of `MiniscordPacing` or none, so that what holds of the pacing holds of
  both. `PacingInv` proves `GateTheorem`, `SearchTheorem`, `LeakTheorem` and
  `DailyTheorem` together, because an answer releases the gate only as its
  caller's one search and the loop's next step depends on the gate; `OneSent`
  counts a leak together with the call that may still leak, `OncePerDate` that no
  batch has run while the date is not today's. `SeenTheorem` and `OnceTheorem`
  come from `ConnectorInv`: what is saved is what was spent, and a check that did
  not begin early began with the saved id in memory.
* `AccountsProofs!LinksTheorem`: the invariant is `LinksAreProven` with
  `HeldIsProven`, the same of the rows that sign-ins hold. `DirectoryTheorem` and
  `ToldTheorem` rest on `Orderly`, which holds until sign-ins overlap: who is
  writing is its identity's only one (`Alone`), holds its row as it is in the
  store or knows there is none (`Current`), there is one row per identity
  (`OneEach`), and what was told is in it (`ToldKept`). With one row per identity
  no look-up depends on the order of ids (`OnlyOne`), so every write maps to a
  step of `Directory` or to none; `ASSUME` is only that `NoUser` is no id and no
  row.
* `NotificationsProofs!TypeCorrect`, `BatchesTheorem`, `OnceTheorem`,
  `NewerTheorem`: an announcement is in one place; a device hears of a spawn at
  most as often as it was announced; a row only gives way to a newer one.
  `OnceTheorem` says that every notification of a spawn has used up one of its
  announcements (`Spent`): what waits, is being read for or is left to send is not
  among those a device has had, and no two flushes hold one announcement
  (`Apart`), so a send uses a new one; counting them needs `Announcement` to be
  finite. `NewerTheorem` holds for any number of configuration handlers and rests
  on `ReadIsCurrent`: who has read the row of a device that is not `overlapped` is
  its only handler (`Alone`), and the row is still the device's, or a flush has
  deleted it. `RemovalTheorem`: a target of a flush is removed with its own keys
  or with newer ones of its device, never otherwise.
* `CatalogueProofs!TypeCorrect`, `TakesTheorem`, `RelayTheorem`: `TypeOK` needs
  `OneOwn`, that the button has at most one upsert in flight, to type what it
  goes back to. `TakesOnlyWhatWasOver` rests on `TodoIsOver`: what the tick has
  left was over when it was read and time does not run back. `RelayAgrees` holds
  only after the resync; `AgreedSoFar` already says it, while the resync is to
  publish, of the entities its snapshot has no row for (`SpokenFor`), whose
  copies it will not touch. `CreatedTheorem` needs that the sweep puts only rows
  that are stored (`SweepsStored`) and that two upserts of one entity in flight
  have been noted (`QueuedTwice`), so that an upsert that found nothing still
  does when it puts its row (`QueuedIsNew`).
* `RelayLinkProofs!TypeCorrect`, `HandledTheorem`, `AnsweredTheorem`: a job that
  is looking up or marking was handed its event within this unit of time
  (`YoungIsFresh`: `quiet = 0`), so no forced reconnect is due, so no second job
  can be handed the same event; what was marked outlives the event
  (`MarkOutlivesEvent`), because `MaxDelay <= ReplayWindow`. That a sign of life
  is noted when an event arrives is what carries it.
* `LifecycleProofs!OneWorkerTheorem`, `ResumesTheorem`: the first needs
  `Screens` (who may be starting on which screen), the second `NoteIsFresh` (a
  note is there only between the stash and the load that uses it, and is the
  configuration that ran last).

Only model-checked: everything under fairness (`RunnerEnds`,
`ChargeIsAnswered`, `EveryCallerGoesOn`, `CheckEnds`, `EveryBatchEnds`,
`OverIsSwept`, `StuckIsHealed`, `UpdateIsTaken`, and the fairness of `ScanPools`
in `ImplementsPools`), which `tlapm` cannot prove. Every other property of the
passing runs is a theorem. The type invariants of the ledger, the
pools and the catalogue are proved and checked by no run.

## Findings

Each is a run that TLC must find violated; `findings` quotes the line.

1. `ApprovedIsPublished`: a pool approved while it is still collecting can end as
   "broadcast" with a result nobody published.
2. `DeadIsRemoved`: a push service's 404 or 410 never removes a registration,
   because the transport reports it as ok.
3. `SubscriptionsSurvive`: the transport remembers one subscription for a forced
   reconnect and the worker makes two; once a connection has been quiet for the
   stale limit, broken or not, device configurations are not heard again until the
   page is loaded anew.

Smaller disagreements are part of the models and bounded by properties that hold:
a pool that is approved after the discard tick has read the pools is deleted as
"broadcast", by the status it had then, although `pokemon-state.js:73` has such a
pool kept as a record (`approved` in `DiscardOnlyStale`); a reload or an exception
leaves a pool that says "collecting" for ever, which `pokemon-state.js:69` takes
to be owned by a call in flight (`killed` and `broken` in `StatusTellsOutcome`); a
grant that overlaps a charge writes the old count back although
`worker-app.js:1180` says usage is never touched (`CounterInRange`; exact when
handlers do not overlap, `ImplementsDailyQuota`); a refund of yesterday's scan
comes off today's count although `worker-app.js:762` calls it safe (`Stray` in
`CountMatchesScans`); the gate is asked before a call is chained, not before it is
sent as `worker-app.js:513` has it (`AtMostOneLeak`); a start that fails late
leaves its wiring, although `worker-app.js:1394` says nothing downstream stands a
second one (`failures` in `OneWorker`); the tick and the resync work from
snapshots, so they may overwrite a row renewed, or publish one changed, since
(`TakesOnlyWhatWasOver`, `beaten` in `RelayAgrees`); two observations of a new
spawn at once both say "created" although `application-state.js:46` says upsert
emits exactly that of a new id (`raced` in `CreatedIsNew`); a check may get ahead
of the load of the saved id, and then a message that was unread before a restart
is searched for again although `watch-channel-connector.js:33` says it is not
(`early` in `SearchedOnce`); a page load between the saving of an id and its
search loses the alert (`spent` in `SeenIsSearched`); overlapping sign-ins of one
identity make two users, or the later write drops the other's key, although
`accounts.js:44` has the user keyed by `sub` (`overlapped`); a key linked to two
Google accounts finds the one whose row comes first by its random id
(`CurrentUser`); two configurations of one device handled at once both compare
themselves with the row from before both, so an older one can replace a newer
although `notifications.js:395` says it cannot undo it (`overlapped` in
`NewerReplaces`); and after a disable, which deletes the row with its date, an
older configuration delivered late enables the device again
(`notifications.js:407`; nothing that is kept could tell it from a new one).

Errors that nobody handles have effects the models keep and the properties name:
an exception in a runner loses its charge for good (`ChargeIsAnswered` has it end
as `lost`); a device whose stored preferences are no lists stops every batch that
comes to it, and the devices after it hear nothing (`cut` in `EveryBatchEnds`); a
spawn announced twice is heard of twice (`AtMostOnce`); a scheduled pass that
throws is the last one (`LoopThrows`); a save that throws leaves the setup form
dead (`SaveThrows`); and a date of an automatic batch that could not be saved is
forgotten by a page load, which may run it again that day (`AutoOncePerDay` counts
anew there).

## Not modelled

* Cryptography (push encryption, VAPID, JWT, Nostr signatures), parsing and
  wording of records and messages, logging, the operator's counters, generated
  data: they keep no state that another part decides on, or are conversions of
  bytes.
* The cache of Google's keys (`google.js:23-37`): after a rotation a good token
  fails until the cache runs out, which for the accounts is a token that does
  not verify.
* The cached access token of FCM (`fcm-sender.js`): a stale one is a failed send.
* The commands page and the dashboard. They show what the worker answers and keep
  nothing it depends on. `commands-app.js:366` says that list and rows can never
  drift apart; a refresh that fails, or two that overlap, leave the older list
  until the next one.
* The species resolver's cache (`species-resolver.js:91-152`). It keeps for good
  whatever a name was resolved to, the base species included when the request for
  the form failed for a passing reason; the picture and the types of an alert
  depend on it, no state of the worker does.
* The hex lattice of an area scan (`core/area-scan.js`) and the texts of
  commands: pure conversions that no state depends on.
* Rejections of IndexedDB requests other than those named above: the runner's and
  the pool's first put are modelled with them, a late start's reads too
  (`SyncFails`), everywhere else a request settles without an error. One that did
  not would end the handler it is in, as a page load between its steps does.
* The watch channel's deletion of old messages and its 15-second throttle: a
  check may come at any time, which includes every throttled schedule.

What could follow: the ledger's theorems carried into the service (a pool only
for whom the operator granted access, by `LedgerImplemented` and `Owned`), and
`RelayLink` composed with the device configurations it delivers.
