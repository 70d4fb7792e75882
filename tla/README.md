# Verification of ChargeGhost Core

ChargeGhost Core simulates a fleet of EV charging stations that speak OCPP 1.6
and 2.0.1 to a central system (CSMS).  This directory holds TLA+ models of the
program, TLC runs that check them on small instances, and TLAPS proofs about
them for every instance.  `PROJECT.json` maps every definition to the source
lines it translates, lists the runs, the mutations that each property detects,
the hazards, the findings and the theorems.

`tlc -workers 2 -config <run>.cfg <module>` runs a check, `tlapm <M>Proofs.tla`
checks the proofs about module `<M>`.

## 1. The system

A process runs a *fleet manager*, which owns one *station runtime* per enabled
station.  A runtime owns an *engine* (connectors, sessions, meters), a protocol
*bridge* (1.6 or 2.0.1) with its durable *message queue*, a *command
dispatcher*, charging profiles, a local list and an authorization cache, a simulation
loop, a meter ticker and a persistence coordinator.

```
 REST / TUI ── FleetManager ── StationRuntime ─┬─ Engine ── Connector
                                               │    │ callbacks (after e.mu is released)
                                               │    ├──> status commands ──> CommandDispatcher ─┐
                                               │    └──> queue records   ──> MessageQueue ──────┤
                                               ├─ Bridge16 / Bridge201  <── drainQueue, Run ────┘
                                               │    ├── CSMS (requests of the CSMS call Engine)
                                               │    ├── charging profiles ──> limit of a session
                                               │    └── local list, cache ──> admission of a tag
                                               ├─ simulation tick, meter ticker
                                               └─ persistence coordinator, autosaves ── disk
```

| Component | State | Operations | Hard to get right | What makes it correct |
|---|---|---|---|---|
| Connector (`engine/connector.go`) | status, persistent status, cable, lock, status before a fault | plug, unplug, charging transitions, reserve, availability, fault, lock | two overlapping notions of status | shown status agrees with the cable; a fault remembers what it displaced |
| Engine (`engine/engine.go`) | connectors, sessions, meters, pending remote starts, deferred availability, reservations | some thirty exported operations under one mutex; `Simulate` every second | long sequences of legal calls; single-EVSE mode shares one meter; calls finding expired things | energy only for a session; waiting requests are consumed or dropped exactly once; no silent status change |
| Engine persistence (`engine/persist.go`, `persistence/`) | JSON snapshots | save every 5 s, load at start | a snapshot keeps less than the engine | a restart yields a state the engine could be in |
| REST and CSMS request handlers (`api/`, `v16/handlers.go`, `v201/handlers.go`) | none of their own | one or several engine calls each | the engine changes between the calls of one request | each request does what it is for |
| Callbacks (`cmd/chargeghost/callbacks.go`) | last status sent per connector and kind | session started, session stopped, status changed | run after the lock is released, on any goroutine | suppressed duplicates were delivered; records queue in order |
| Dispatcher (`ocpp/command.go`) | bounded channel, held command | Enqueue, EnqueueWithRetry, Run | channel full, link down | commands run in order and only while connected |
| Message queue (`ocpp/queue/`) | records with retry state, on disk; dead letters | Enqueue, Peek, Update, Dequeue, Clear | crash between send and dequeue | no record vanishes |
| Bridge 1.6 (`v16/bridge.go`, `senders.go`, `transaction_queue.go`) | connected, registered, drain flag, failed starts | enqueue start/meter/stop, drain, boot, resync | three goroutines start a drain; link lost at any point; lost replies; a retry budget that changes | at-least-once, in order |
| Bridge 2.0.1 (`v201/bridge.go`, `transaction_queue.go`, `queue_drain.go`) | transaction builders, sequence numbers, pending reset | transaction events, drain, reset on idle | events of one transaction from several goroutines; offline flag; reset between events | numbers unique and in queue order; told transactions are closed |
| Charging profiles (`profile_manager.go` of both) | profiles per connector, purpose and transaction | set, clear, limit, composite schedule | stacking, expiry, recurrence, transactions without an id yet | the schedule foretells the limits; a profile limits its own transaction |
| Local list, authorization cache (`local_auth_*.go`, `auth_cache*.go`, `admission.go`) | entries, list version, autosaves | full and differential update, answers of the CSMS, clear, three readers | expiry, switched-off books, overlapping and delayed saves | offline only a granted acceptance admits; nobody is turned away for what a book forgot |
| Firmware and diagnostics (`firmware_manager.go`) | status sequence | timed steps, cancel | overlapping requests | one sequence at a time |
| Station runtime (`station_runtime.go`) | lifecycle state, goroutines | Start, Stop, superviseShutdown | three goroutines set the state | the state reflects the goroutines |
| Fleet manager (`fleet_manager.go`) | configuration, station map, per-station lock | create, update, delete, start, stop, restart, enable, disable, reload, shutdown | two locks; stops that take seconds and time out; stale handles | one live runtime per station, reachable until stopped |
| WebSocket hub, TUI, client, configuration, logging, timeline | views and I/O | | | no state of their own that the others depend on |

Interactions that matter: the engine invokes callbacks after it has released
`e.mu`; the callbacks enqueue into the dispatcher and the message queue; the
drain calls back into the engine (`SetActiveTransaction`, `StopSession`);
handlers look at the engine in one call and act in another; the fleet manager
replaces whole runtimes while their goroutines may still drain.

## 2. Modules

| Module | Models | Used by |
|---|---|---|
| `Connector` | one connector as a record, each method of `connector.go` an operator on it | `Engine` |
| `Engine` | the engine of one station: every operation, and the tick one session at a time | `Station`, `EngineProofs` |
| `EngineProofs` | theorems about `Engine` | `StationProofs` |
| `Station` | engine composed with its callers: REST, the CSMS's requests call by call, tick, restart | `MCStation`, `StationProofs` |
| `StationProofs` | theorems about `Station` | |
| `Outbox` | what a durable queue promises, without saying how | `Drain16`, `Transactions201` (refinement) |
| `Drain16` | sessions, callbacks, queue, drain, senders, link, registration, crash and restart of a 1.6 station | `MCDrain16` |
| `Transactions201` | the same of a 2.0.1 station: builders, numbering, offline flag, drain, Reset | `MCTransactions201` |
| `Drain16Proofs` | theorems about `Drain16`, and that it implements `Outbox` | |
| `Transactions201Proofs` | theorems about `Transactions201`, and that it implements `Outbox` | |
| `Notifier` | status callbacks, duplicate suppression, dispatcher, boot, resync, TriggerMessage | `MCNotifier` |
| `NotifierProofs` | theorems about `Notifier` | |
| `Charging` | profile managers of both versions, the sessions they limit, their file | `MCCharging` |
| `ChargingProofs` | theorems about `Charging` | |
| `Admission` | local list, authorization cache, their files, and who is admitted | `MCAdmission` |
| `AdmissionProofs` | theorems about `Admission` | |
| `Fleet` | fleet manager and runtime lifecycle of one station | `MCFleet` |
| `FleetProofs` | theorems about `Fleet` | |

### Connector and Engine

A connector is a record `[status, persistent, plugged, locked, preFault]`; a method is an
operator from record to record, so that an engine operation is a composition of
them, as in the code.  `sessions` is the key set of the sessions map, `metering`
the meters whose `IsCharging` is set (one meter for all in single-EVSE mode),
`ticking` what is left of `Simulate`'s loop while it holds the lock.  `reported`
and `unclosed` are histories of the callbacks.  Every exported method is one action
because it holds `e.mu` throughout; the tick is several actions for readability only: no
other action is enabled in between (`Unlocked`).

Time is a choice: any call that drops expired reservations may drop any subset
`X`; the tick may find any pending start or Finishing connector timed out.
Configuration read inside a call (`StopTransactionOnEVSideDisconnect`,
`UnlockConnectorOnEVSideDisconnect`, the charging limit) is a choice at that
call.  Voltages, currents and idTags of sessions are left out.

### Station

Each REST endpoint and each request handler is an action of its own, named for
it.  Most are one engine call.  The others are taken apart: Reset (stop every
connector's session, then normalise), ChangeAvailability of the whole station,
remote stop and `StopCharging` (look up, stop), and UnlockConnector in both
versions.  `request` holds the one in progress and `open` which of the sessions
open at its arrival still are; anything may run between its calls.  The CSMS sends one
request at a time, REST runs beside it.  `Restart` is a crash together with
`LoadState`: what lies between the last save and the crash is lost, so the state at the
save is all that matters; a snapshot keeps neither a lock nor the status a
fault displaced, and expired reservations (`X`) and pending starts (`P`) are
dropped.  `FaultConnector`, `ClearConnectorFault` and locking are called by
tests only; `FaultOps` and `LockOps` switch them on.

### Outbox, Drain16 and Transactions201

A 1.6 record is `[kind, s, conn, tx, id, retries, raw]`: `s` is the session it is
about, `tx` the transaction id put into it, `id` its uuid.  `calls` are callbacks
that run outside the engine's lock and have not yet enqueued.  `work[d]` is the
place of drainer `d` in `drainQueue`: `loop` (Peek, checks), `send` (about to
call the sender), `reply` (with an outcome).  `Restart` keeps the queue file and
the last snapshot.  `Pick` covers the exhausted, malformed, cascaded and due
cases; `Refused`, `QueuedAgain`, `Received` and `NotReceived` the sender;
`Deauthorize`, `Succeed`, `Reject` and `Fail` what follows a reply.  The CSMS may
answer anything, and an answer may be lost after the request was received.

In `Transactions201` a callback is a call of several steps: it finds its transaction in the
books (`AllocateStarted`, `AllocateUpdated`, `AllocateEnded`; an Ended that emptied the
books completes a waiting reset in `LastEnded`), stamps sequence number and offline flag
(`Stamp`), queues the record (`Enqueue`) and, for a start, names the transaction to the
engine (`SetActive`).  `Mark` is `markQueuedEventsOffline`, which goes through copies of the
queue one at a time and writes back those not marked yet.  A Reset is immediate (`ResetStop`
per session) or waits (`ScheduleReset`), and `MaybeCompleteReset` empties the books.
`Restart` reads `transactions_201.json` (`Loaded`) beside the engine's snapshot; `Survives`
says, from what was on disk, which transactions a crash cuts off.  `raced`, `cut` and
`excused` are histories of what is known to go wrong (section 4); the properties except
exactly these.

`Outbox` allows a record to leave only after delivery or burial.
`NothingLost` is the refinement `Drain16 => Outbox`, and `Transactions201 =>
Outbox`, with `pending`, `delivered` and `buried` mapped to the keys of the queue, of
the requests received and of the dead letters.

### Notifier

A goroutine that changed the engine holds a `path` of statuses to report, each with
one or two kinds (`status`, `fault:<code>`).  `MarkSent` and `EnqueueStatus`
are separate steps, as in the callback.  The dispatcher receives one command,
holds it while the link is down and executes it.  `Connect` enqueues a
BootNotification; its acceptance enqueues a resync per connector, in any order
(`GetConnectorIDs` ranges over a map), which reads
the live status when it is sent.  `OnTriggerMessage` enqueues a boot or a status
command that passes the duplicate check by.

### Charging

`profiles` is a set of records; `Candidates`, `ResolveLimit`, `ResolveTxLimit`
and `Composite` are the managers' functions of the same names, with sets of limits
where Go's map order decides.  `GetLimit` is what the engine asks every tick,
`Foretold` what a reader of the composite schedule takes the limit for.  A
session gets its transaction id later: `Started16` is the answer in 1.6's drain, which
names whatever session the connector has by then, `Refused16` the start that is refused,
rejected or given up, `Started201` the 2.0.1 callback.  `lost` remembers the sessions whose
number is not their own, or whose transaction the books lost track of.  Remote starts stash a
profile on the session or the pending start in two calls (`OnRemoteStart`, `StashProfile`).
`Restart` loads an older engine snapshot, the profile file or nothing of it.

### Admission

`Decision` and `LocalSessionDecision` are `authorization_decision.go` and
`local_session_admission.go`; `AdmitLocalSession`, `AdmitRemoteStart16`,
`AdmitRemoteStart201` and `ValidateIDTag` are the readers, each with the keys it looks at.
Updates of the list are compared (`SendLocalList`) and applied (`AcceptList`) under
two locks.  An autosave of the list is a goroutine that copies, cuts the file
and writes; the cache's is a timer with a flag, and when only the runtime is stopped it
outlives it with that runtime's cache (`left`, `LeftFires`, `LeftWrites`).  `NoTag` is a
start for which no tag is configured.  `said` remembers everything a book was ever told
of a tag, `told` the list the CSMS takes the station to have.

### Fleet

One station id; fm.mu sections are steps, `opMu` is held from `Lock` to the end of the
operation.  `op[t]` is the request goroutine `t` serves, with its program
counter and the *ManagedStation* it looked up.  A runtime has the lifecycle
`state` that the code shows and the `phase` its goroutines are really in.  `Cancel`
and `Mark` are two steps because `Stop` unlocks between them.  `AfterStop` says what each
operation does after `Stop` returned nil or timed out.  `astray` collects the runtimes that
`Reload`, `CreateStation` and `DeleteStation` let go of while they run.

## 3. Runs

| Run | Instance | Shows |
|---|---|---|
| `station_outlet` | one connector with its own meter, two tags, every endpoint and request, faults and locks, two energy levels | status changes are reported; deferred changes are applied; an Inoperative connector stays so; a plugged-in session is not displaced; every session is announced; an unlock or a Reset has stopped what was open |
| `station_single` | two connectors on one EVSE, two reservation ids, Reset, restarts | the inductive invariant `IInv` (among it one cable at a time and exclusive reservations); reserved connectors freed; a Reset of two connectors stops what was open |
| `drain16` | one session, two drain goroutines, retry budgets 1 and 2, one link loss, one crash | single flight, no overtaking, delivered records leave, nothing lost (refinement of `Outbox`) |
| `drain16_live` | one session with a meter sample, one link loss, no crash, fairness | a connected station empties its queue |
| `drain16_order` | one session, one link loss | **violated**: a start is queued again behind its own stop |
| `tx201` | one session (Started, Updated, Ended), one link loss, one crash | events in order of their numbers, late ones flagged offline, a rejected start cascades, nothing lost (refinement of `Outbox`) |
| `tx201_books` | two EVSEs, two sessions, overlapping callbacks, both kinds of Reset, one crash | every transaction the CSMS was told of is closed, also after the restart |
| `notifier` | one goroutine, two changes of up to two statuses, a fault code, a channel of two, one link loss, one failing send, one TriggerMessage, fairness | duplicates are suppressed only when delivered; the CSMS knows the status when all is quiet and nothing was lost; eventually every status is known or forgotten |
| `notifier_race` | two goroutines | **violated**: the CSMS keeps an older status |
| `charging` | both versions, five profiles (default, transaction, station, recurring, expiring and tied ones), two sessions, one crash | the composite schedule foretells the limits; a transaction's profile limits no other |
| `admission` | both versions, two tags, a list of at most one entry, two savers, a crash or stop at any time | offline a tag needs a granted, unexpired acceptance; no session is ended without a reason; the CSMS knows the list; a quiet file is what memory holds |
| `fleet` | two goroutines, four requests of any kind, fairness | at most one live runtime unless astray, none lost, no state comes back, every request ends |

### Bounds

- `station_*`: one connector shows everything about a connector; two show single-EVSE mode,
  where connectors share a meter and unplug each other. Reservation identity needs two ids,
  matching needs two tags.  Energy levels stand for "not full" and "full"; with two, a tick
  may also add less than what is left; `station_single`, whose invariants do not depend on
  the energy (and are proved for all values), leaves it at 0.  `Requests` names the requests
  taken apart in the run: in `station_single` only Reset, whose loop needs two connectors.
  `StopOnDisconnect` there is {FALSE}, the value under which sessions outlive cables;
  `station_outlet` has both.  The requests of one call are always all there.
- `drain16*`, `tx201`: one session has up to three records and a requeued copy, so order,
  cascade and retry already occur; a second drainer is what single flight is
  about.  Retry budgets 1 and 2 let the budget shrink and grow.
- `tx201_books`: the drain is off (`Attempts` is empty) and no link is lost, since nothing
  in the books depends on either; two sessions on one EVSE let a callback meet its
  successor, on two the file has two transactions to keep apart.
- `notifier`: a channel of two fills up with a path of two statuses; two changes
  are needed to repeat one status.  There is one goroutine, because with two
  `Converged` does not hold (`notifier_race`).
- `charging`: one connector and the station (0).  `MaxEvents` bounds time steps, sessions,
  requests and crashes together at 4: set two profiles, start, crash; or request, start,
  stop, start.  `Window` 4 covers two recurrences of `Cycle` 2, so that a schedule wraps.
  `ProfileCap` 1 makes the limit on profiles bite at the second.
- `admission`: `ListCap` 1 makes an update of two tags one too many; two savers are the
  least that overlap; three changes are a list, a cache entry and a clear, or two list
  changes and a crash.  The updates are a full list of one tag or of all, and a differential
  one that blocks a tag and deletes the others, so that what is deleted is absent when it is
  accepted; `AdmissionProofs` covers every update.  All expiries are one moment: an entry is
  with or without expiry, and that is all the code tells apart.
- `fleet`: four requests allow a runtime that is stopping after a timeout,
  its replacement, a removal and a recreation.

`CHECK_DEADLOCK FALSE` is set where the requests, sessions or link losses are
bounded and the system comes to rest; the two station runs check deadlock.
Symmetry (tags, reservation ids, drainers, savers) is used only in runs without liveness.

### Fairness

`Drain16`: callbacks and a drain pass that has begun go on (every request times out), the 30
s loop keeps starting passes, and the head's retry interval eventually passes (strong
fairness, because passes that come too early return).  `Notifier`: goroutines run, timers
fire, the dispatcher executes what it holds while the link is up.  `Fleet`: a mutex is not
denied forever (strong fairness of `Lock`; Go's mutex hands over to starving waiters), an
operation that runs goes on, cancelled goroutines return.  Nothing is assumed of requests,
timeouts, failures, the link or the CSMS.

### What the mutants show

For every property of a passing run `PROJECT.json` names a
definition and a plausible bug in it (a dropped guard, a record not dequeued, a
meter not switched off, a cap off by one) with which TLC finds the property
violated.  The definitions named `Bug...` are these bugs and are used nowhere else.

## 4. Findings, and where the code falls short

Two disagreements between the code and its own comments are runs:

1. `drain16_order` (`v16/senders.go`, `SendStartTransaction`): when the link drops
   between the drain's check and the sender's, the start is queued again behind its
   own stop.
2. `notifier_race` (`callbacks.go`): marking and enqueueing are two steps, and
   two goroutines may enqueue in the opposite order.

The rest are behaviours the models contain and the properties are stated around; none has
a run of its own.

*Engine and station*
- With `StopTransactionOnEVSideDisconnect=false` a session's meter keeps running
  without a cable (`unplugConnectorLocked`).
- A pending remote start is consumed by a plug-in on an Unavailable, Faulted or
  locked connector: `startSessionLocked` stores the session and starts its meter, then
  `StartCharging` fails and nobody is told (`engine.go:540-549`).  The session stays until
  something stops it.  `StartAnnounced` excepts exactly this plug-in.
- A session that outlived its cable is replaced by a plug-in that consumes a pending
  remote start; `PluggedSessionKept` speaks of sessions whose cable is attached.
- Cancelling or expiring a reservation makes an Unavailable connector Available
  (`connector.go:143`; `GO_REIMPLEMENTING_GUIDE.md:440` says otherwise).
  `InoperativeStays` excepts reserved connectors.
- A second `FaultConnector` overwrites the status the first displaced.
- A restart drops an expired reservation and leaves its connector Reserved for nobody
  (`persist.go:214`).  `ReservationFrees` excepts restarts.
- Stop requests stop whatever session the connector has by then; a 2.0.1
  UnlockConnector opens the lock under a session that started after its look.
- A session started between Reset's stops and `NormalizeAfterReset`
  (`v16/handlers.go:242`) survives with its meter stopped.

*1.6 transactions and status*
- A stop queued before its start was answered carries the provisional
  transaction id for good; a late answer names whatever session is there
  (`v16/bridge.go:511`), which then has the number, and the profiles, of another
  transaction until its own start is answered - for good, if that came before.
  `LimitsOnlyItsOwn` excepts the session while it has another's number (`lost`).
- The stop of a rejected start is looked up among open sessions, but its
  session has ended, so it is sent (`blockedByFailedStart`).

*2.0.1 transactions*
- Two callbacks of one transaction may take one sequence number (`raced`).
- A Reset on idle sets `pendingReset` after it looked for sessions; if the last
  one ends in between, nothing completes the reset until the next session ends.
- The boot reason is consumed before the BootNotification is accepted.
- A Reset empties the books while a stop callback is pending: its transaction is
  never closed (`cut`).  So does a start callback that runs after its own stop,
  or after another start on the EVSE (`AllocateStarted` replaces the builder); and a
  reset waiting for the last Ended event drops what was started since the books were
  looked at (`LastEnded`).
- A crash cuts a transaction off (`Survives`) when the engine's last snapshot does not have
  its session with its number (it is saved every 5 s, `transactions_201.json` at every
  event); when the crash came after the file gave the transaction up and before its Ended
  event was queued; and when the file holds the number of an earlier transaction of the EVSE
  beside it (`saveTransactions` keeps one of them, in map order).  Every other transaction
  goes on and is closed, which `TransactionsClosed` says.
- The provisional id 1 of the sessions API collides with the first id the
  bridge mints.

*Charging profiles*
- A 1.6 remote start's TxProfile is stored without a transaction and never applies
  (comment at `v16/handlers.go:199`); the 1.6 file drops transaction ids, so that a
  restart turns a TxProfile into one of no transaction and a TxDefaultProfile
  with a transaction into one for all.
- 2.0.1 loses the profile of a remote start when the cable is already in
  (the start callback runs before the profile is stashed).
- 2.0.1 may take a stale transaction for the EVSE's (`ActiveTxIDForEVSE`), and its
  composite schedule leaves out profiles that name a transaction.
- 1.6 looks at validity only at the start of the window and at recurrence only
  in the first cycle (`Blurred`).  Schedule durations are stored and ignored.  Of
  profiles with equal stack level Go's map order chooses.

*Authorization*
- 1.6 fills the cache while it is disabled: `SendAuthorize` and
  `SendStartTransaction` do not ask the key, which
  `TestAuthorizationCacheEnabledFalse_BypassesCacheReadsAndWrites` says they do.
- `ValidateIDTag` looks at no key: a disabled list can end the session of a tag
  the cache admitted.
- A local start without a tag is admitted offline without a look at either book
  (`local_session_admission.go:17`; the REST API passes none when no `rfid_tag` is
  configured), and a 2.0.1 remote start while `AuthorizeRemoteStart` is off.
  `OfflineNeedsGrant` excepts both.
- The cache's timer is not stopped with its runtime: after a restart in the same process it
  writes the old cache over the file (`auth_cache_persist.go:57`).  `CacheOnDisk` waits for it.
- In 2.0.1 the two ways in read different keys (`LocalAuthorizeOffline` stands
  before the cache only for local starts).
- The version check of SendLocalList and the update are two lock sections.
- Overlapping autosaves of the list can leave an older or unreadable file, and a crash
  within a second of ClearCache brings the cache back.  Files are written in
  place.

*Fleet*
- `Reload` starts a runtime beside one that is Failed or still Stopping
  (`reconcileStart`, `fleet_manager.go:484`): two persistence coordinators write one
  directory.
- `DeleteStation` removes the station after a stop that timed out, and lets go of a
  runtime started between its stop and the removal.
- A disabled station can get a runtime (`RestartStation` does not look at the
  flag; `StartStation` looks before it waits for the lock).

## 5. Proofs

`EngineProofs` proves, for every number of connectors, every set of tags,
reservation ids, availability types, disconnect settings and energy bounds, and
both EVSE modes: `Spec => []IInv`, and from it `TypeOK`,
`EnergizedHasSession` and `ReportedIsCurrent`.  The assumptions are
`ConstantsOK` and `AvailabilityOK` of `Engine`, which both station runs evaluate.

The properties are not inductive one by one.  `EnergizedHasSession` needs that a
stored remote start waits on an unplugged connector (`PendingStartWaits`),
otherwise a plug-in could start a second session; `MeterFollowsStatus` needs
`EnergizedHasSession`; `ReportedIsCurrent` needs that a connector without a
session is quiet; and everything needs that the two statuses of a connector
agree with its cable (`Sound`).  `IInv` is their conjunction, checked by
`station_single` before it was proved.

The argument: an operator of `Connector` is *calming* when it keeps a connector
sound and creates neither a cable nor a Charging, Suspended or Finishing status
(`Calmer`); all are, except `PlugIn` and the charging transitions.  `CalmStep` shows that a
step that ends some sessions and changes every connector by calming operators
preserves the part of `IInv` about connectors and meters (`ConnPart`); `WaitStep` that it
preserves the part about waiting requests (`WaitPart`).  Most actions are instances of these two.
`FocusStep` treats the actions that change one connector otherwise (start,
suspend, resume, charge).  `NextIInv` collects one lemma per action.

`StationProofs` carries this over to `Station`, under `StationOK` in addition:

- `StationInvariant`: `StationSpec => []IInv`, restarts included.
  `StepIsEngineStep` shows that every call of a handler is a step of `Engine` or
  opens a lock, which a lemma of `EngineProofs` covers too.
  `RestartStep` treats the restart: `Kept` forgets the status a fault displaced, which is sound only
  because nothing is Faulted where restarts happen; `NoFault` is that
  strengthening, and `StationOK` (`FaultOps => ~Restarts`) is justified by the
  code: only tests fault a connector.
- `RequestsStopFirst`: `[]StopsFirst`.  `RequestInv` is the strengthening: what a
  Reset has not yet stopped is open only where it has still to stop.
- `StationTypeCorrect`: `[]StationTypeOK`.
- `SessionsAnnounced`: `StartAnnounced`.  The history `unclosed` counts up to two
  announcements, so the proof needs that where no session is at most one is still open
  (`OneUnclosed`), that of a session displaced after its cable was gone.
- `DeferredChangeApplied`, `SessionNotDisplaced`, `InoperativeEndures`,
  `ReservationEndsFree`: the station's action properties.  Each is proved once for the
  engine's operations, from what an operation may do to one connector (the lemmas
  about `Connector`), and carried to the station's steps.  `StationInv` is what they need
  beyond `IInv`: every connector record is well-typed and its two statuses agree, even
  for an id outside the map (`Class`).

`FleetProofs`, under `FleetAssumption` (`MaxOperations` is a natural number): `TypeOK`,
`WritersApart`, `Reachable` and `NotResurrected`.  None is inductive. `FleetInv` adds: one
holder per `opMu` (`HoldersApart`); that a request in progress has a number left for the
runtime it may build (`Counted`, the reason runtimes are fresh); what the holder of the lock
knows of its runtime at each place of the operation (`Stage`, e.g. that a runtime about to
be replaced has drained); that the state shown agrees with the goroutines (`Shown`); and
that whatever lives or is about to is astray or registered (`Kept`, of which `Reachable` is
the part the code promises).

`AdmissionProofs`, under `AdmissionAssumption` (among it that the tags are finite,
which the caps need): `TypeOK` and the five properties.  The invariant says that every
entry in a book, a file, or a copy about to be written was said to that book
(`AllGiven`), which is why no order of torn writes and restarts makes an acceptance or
a refusal up; who writes the list file, over what, and what it will hold (`ListSaves`); and
the same for the cache's timer and the one a stopped runtime left (`CacheSaves`).

`Drain16Proofs`, for any number of connectors, drainers, sessions, crashes and
losses: `TypeOK`, `InOrder`, `DeliveredLeaves`, and the refinement `NothingLost`.  `DrainInv`
relates the queue to the history of what it accepted (`Numbered`: ids increase
along the queue and name what was put), keeps a drainer that has a record at the head
of the queue while `draining` admits one (`Passes`, which is what makes a
dequeue hit the record that was sent), and accounts for every id (`Accounted`).
`InOrder` is then inductive: an id leaves only from the head.  The refinement is by steps: every
action of the drain is `Put`, `Deliver`, `Retire`, `Bury` or a stutter of `Outbox`; the one
hard case is a record queued again under the same key, where `Retire` must see the
other copy.

`NotifierProofs`: `TypeOK` for any number of goroutines; `MarkIsDelivered` and
`Converged` in every behaviour in which no two goroutines report the same connector
at once (`Apart`).  The code does not ensure `Apart`, and without it both are
false: that is the finding of `notifier_race`.  So the theorems say that this overlap is
the only thing wrong: link loss, full channel, failed sends, late timers, boots and
triggers in any order do no harm.  `NotifierInv` follows a status from the mark to
the CSMS: a mark is for the notification at hand (`Reporting`), or for the last command
about it in the pipe of held and queued commands, or for what the CSMS has
(`Delivery`); a connector nobody works on is marked for its current status or not at all
(`Settled`); and one that was never reported is known from a boot that is still to
come or has come (`Unreported`).  `Conn` is assumed a finite set of positive numbers, as
connector ids are.

`Transactions201Proofs`, for any number of EVSEs, sessions, callbacks at once, link
losses, crashes and Resets, under `Transactions201Assumption`: `TypeOK`,
`EventsInOrder`, `OfflineTold`, `RejectedStartCascades`, `TransactionsClosed` and the
refinement `NothingLost`.  `TxInv` has a part for each, none inductive by itself:

- `Numbered` ties every record, marking, reception and dead letter to the event the
  queue accepted under its id; ids increase along the queue, and what was received or
  buried is not behind its head.  Hence a head that leaves is gone for good.
- `Starts` and `Ends`: each session gets at most one Started and one Ended event.
  A session not started yet is heard of nowhere - books, file, callbacks, queue
  (`Fresh`); one whose Ended event is under way has left the books, and, once the event
  is stamped, the file too, so that no restart brings it back.
- `Sequenced`: the number a callback takes is the builder's next, and every number
  queued is below it, in memory and on disk, unless two callbacks held the transaction
  at once.
- `Cascades`: a rejected start is remembered until an Ended event is buried; what the
  drain is about to send was checked against that memory, and stays so since only
  the drain changes it.
- `Late`: an event older than the connection is marked, excused, or among the copies
  `markQueuedEventsOffline` has still to look at; none is left when the link is up.
- `Closing`: a session that is not cut off is open, or its stop callback is still to
  find it in the books, or its Ended event is in somebody's hands or queued.  A
  restart keeps it because a session restored with a number finds in the file the one
  transaction that number leads to (`OnFile`).
- `Counts` bounds the records by the sessions and updates, which is what makes every
  record one of the names of the abstract outbox.

The refinement then takes one step of `Outbox` for each of the drain's; marking,
retries and restarts change no name and are stutters.

`ChargingProofs`, for any connectors, catalogue, criteria and bounds: `TypeOK`,
`LimitsOnlyItsOwn` and `ScheduleForetells`.  `ChargingInv` says what a manager may hold, in
memory and on disk (`Kept`), that a profile's transaction is the one it was meant for or, in
1.6, forgotten in a restart (`Meant`), that a 1.6 session has its own number, none yet, or
one that a late answer gave it and `lost` remembers (`Numbered`), and, of 2.0.1, that an
EVSE on which no callback was lost has one transaction in the books, its builder's, and that
it is the session's unless the session's start callback is still to run (`Owned`).  This is
what `ActiveTxIDForEVSE`, which takes any entry of the EVSE, relies on. `ScheduleForetells`
needs no more of the steps than `Kept`; the rest is arithmetic: between two boundaries of a
profile the same periods have begun, in every cycle (`CyclesSteady`) or in none
(`PeriodsSteady`), validity does not change but where `Blurred` says so (`ValidSteady`), and
so the limit sampled at the last boundary is the one that holds.  It takes the profiles as
TLC cannot, any number with any periods, in any order.  `CatalogueAssumption` gives times
and levels their types and makes `StartPeriod` a number of seconds from the schedule's
start, not before it (`engine.go:75`); the REST API does not check that, and a negative one
would take effect at the schedule's start, where there is no boundary.

Only model-checked:

- Liveness under fairness (`DrainsWhenConnected`, `SettlesWhenUp`, `OperationsEnd`):
  outside the prover's reach, as are ENABLED and induction over data.

## 6. Not modelled, and what is left

- Firmware and diagnostics (`firmware_manager.go`): a status sequence on timers
  behind one request each, read by no other component.  Its one subtlety: the
  goroutine of a cancelled update sets the status to Idle and clears `cancelFunc`
  when it notices, which may be those of the next update by then.
- Handlers answered without a state the others read: reports, monitoring,
  display messages, costs, certificates, log uploads, DataTransfer, and the
  configuration keys no component above reads.
- Request decoding, JSON, WebSocket fan-out, TUI, API client, configuration parsing,
  logging, timeline, status tracker.
- The operator's queue requests (clear, dead letters), the reservation-expired
  callback's broadcast, the in-memory queue (same interface as the durable one).
- Within `Fleet`, the other stations, the default station id, passwords and the
  operation history; a station's directory appears only as "two live runtimes
  write it".
- Steps of the code that are one step here: in `Transactions201` the reading of a number
  with the allocation, and `completeReset` (which takes the lock for the books
  alone) with the check before it in `MaybeCompleteReset`.  In `Admission` the timer a stopped
  runtime left fires only after the next runtime has loaded the cache, and goroutines of
  the list that have not copied it yet end with the runtime.
- Composition stops where the models meet: `Station` makes no transaction
  records, `Drain16` and `Transactions201` keep of the engine only the sessions,
  `Charging` and `Admission` neither.  A single product is out of TLC's reach.

Every safety property the passing runs check is proved, the notifier's two under
`Apart`.  Next would come longer
runs of the liveness properties, and the parts the components list calls partly
modelled.
