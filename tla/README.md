# Charging point operator server: a TLA+ verification of its core

The repository is the back end of a charging point operator (`cpo-server`, Node.js and MongoDB).
Several server processes share one database. Charging stations speak OCPP to it, users and
operators a REST API, roaming partners OCPI and OICP, and Stripe does the billing. All source
paths below are relative to `src/cpo-server/src/`.

This directory models the parts that carry the program's own logic under concurrency: the database
locks, the queue of asynchronous tasks, the life of a charging session from its start to its bill,
its consumption and price, its way onto a paid invoice, and the WebSocket connections of a station.
TLC checks them on small instances; TLAPS proves every safety property of the passing runs, some
under premises that section 5 names, for all values of the constants.

## 1. Inventory

| Component | State | Operations | What is hard | What makes it correct |
|---|---|---|---|---|
| Locks: `locking/`, `storage/mongodb/LockingStorage.ts` | one document per lock id in `locks`, with an expiration date | acquire (with or without a time-out), purge of an expired lock, release | several processes, death while holding, purge by id after a stale read | one holder; the document is the holder's; acquire returns; orphans are removed |
| Asynchronous tasks: `async-task/`, `scheduler/tasks/AsyncTaskCheckTask.ts` | `asynctasks` documents with a status; the list of a pass | create, pass, run, save, start-up reset | stale lists, every host woken by the same event, crash between two saves | one run at a time; nothing stranded in RUNNING; a queued task ends with a result |
| Charging sessions: `server/ocpp/services/OCPPService.ts`, `server/ocpp/utils/OCPPUtils.ts`, `TransactionStorage`, `ChargingStationStorage` | `transactions` documents; the connectors inside `chargingstations` documents | start, meter values, stop, soft stop, status notification | whole documents read, changed over many awaits and saved; failure half-way; two sources of truth (connector and transaction) | a stop is final; the connector does not show a stopped session; one ongoing session; orphans closed |
| Soft stop: `server/rest/v1/service/TransactionService.ts`, `CloseTransactionsInProgressTask` | none of its own | stop or clear on behalf of the operator or the scheduler | competes with the station's messages | as above |
| Billing: `integration/billing/`, `BillTransactionAsyncTask`, `BillPendingTransactionTask`, `BillUnpaidTransactionTask`, `BillingPeriodicOperationTask` | `billingData` of a transaction, `invoices` documents, the invoices and items in Stripe | postpone, queue, bill, charge, synchronise, retry unpaid | queued before saved, repeated notifications, whole-document saves over a billed status, lost answers, death between two lines, four tasks under different locks | billed once, and with the final figures; every line once and on one invoice; replicas never ahead of Stripe |
| Scheduler: `scheduler/` | cron table, one lock per task | run a task per tenant | a run that outlives its 15 minute lock | one run at a time |
| WebSocket server: `server/ocpp/json/` | connections by station, per-URL lock, pending requests | open, message, close, ping, clean-up | replaced connections, bounded wait for the lock, initialisation that takes long | every handler gets its turn, the lock is not leaked, a closed connection leaves the cache, the remaining one can be reached |
| Roaming: `server/ocpi/`, `server/oicp/` | sessions and CDRs on transactions | push session, push CDR, pull and patch | partner failures, lock released before the CDR is posted | a CDR is posted once |
| Consumption and pricing: `OCPPUtils`, `ConsumptionStorage`, `integration/pricing/` | running totals and pricing context in the transaction; `consumptions` documents | take over a meter value, last consumption, extra inactivity, price a chunk | lost, repeated, late values in overlapping handlers; steps; tariffs that change | totals agree with the meter; nothing counted or priced twice |
| Smart charging | charging profiles | compute, push | external optimiser | - |
| REST, OData, SOAP, authorization, storage, cache, notifications, migrations, other integrations, bootstrap | - | - | - | - |

How they interact. Handlers of OCPP messages, REST calls and scheduled tasks all go through
`OCPPService` and the two storages, with no transaction around a read and its save. A status
notification after a stop queues a `BILL_TRANSACTION` task; `AsyncTaskManager` runs it on some host
under a lock of `LockingManager`. The close task repairs sessions whose connector has let them go.
The messages of a station reach `OCPPService` through `JsonOCPPServer`, whose per-URL lock is meant
to let them in one at a time. Billing tasks write to Stripe and keep replicas of what they wrote.
`PROJECT.json` lists every hazard at its line.

## 2. Modules

| Module | Models | Main correspondence |
|---|---|---|
| `ExclusiveLock` | the promise of `createExclusiveLock` | `holders`: the flows that have been told they hold the lock |
| `Locking` | `LockingManager`, `LockingStorage` | `locks` is the collection restricted to one id; `pc[p]` is the await a flow is at; `lease`, `wait` are its two dates, in ticks; `retry` is the parameter |
| `AsyncTasks` | `AsyncTaskManager` and its storage | `status[t]` is the document; `job[h][t]` is how far the `Promise.map` callback of host `h` is with `t`; `trigger[h]` is a call of `handleAsyncTasks` to come; `watching` are the hosts whose change stream is open; `lock[t]` is the lock of `t`, of which only the promise `ExclusiveLock` makes is used |
| `SessionLifecycle` | what the handlers together promise for each transaction | `status`: new, ongoing, stopped, complete (extra inactivity known), billed, or gone |
| `ChargingSession` | transaction handlers, soft stops, billing of one connector | `tx`, `conn` are the database; `flow[f]` holds the handler's copies and the await it is at; `tasks`, `bills` count billing tasks waiting and billings done |
| `Metering` | consumptions and pricing of one session | `tx.run` are the running totals and `tx.priced` the pricing model of the transaction, `docs` the consumptions by `endedAt`; `flow[f]` holds a handler's copy and, in a soft stop, the copy of its caller (`given`); `now`, `reading`, `ended`, `stopped` are the station |
| `InvoiceLedger` | what a customer may expect of the invoices | `items`, `final`: the lines and the finalized invoices |
| `Invoicing` | the billing of the stopped sessions of a user | `bill`, `extra` are in the transactions, `local` is `invoices`, `queued` the tasks; `stripe`, `created`, `items`, `keyed` are Stripe; `flow[f]` is one run of a task with its copies |
| `OcppConnection` | `JsonOCPPServer` for one station | `cache` is the entry of `jsonWSConnections`, `locked` that of `runningWSRequestsMessages`, `closed`, `keyed`, `assigned`, `failed` the fields of the wrappers; `flow[f]` a call of `onOpen` or `onMessage`; `sock` the sockets |
| `MC...` | constants for TLC | |
| `...Proofs` (eight modules) | theorems | section 5 |

The rule everywhere is one action per stretch of code between two accesses to the database (or to
an outside service whose answer matters). A refusal before anything is saved is a disjunct that
leaves the database as it was.

Abstractions that matter, and why they lose nothing the properties speak of:

* *Locking.* One lock id, because all queries are by `_id`. Dates are ticks left. The sleep of the
  time-out loop and the do/while condition are one action, `Wake`.
* *AsyncTasks.* Every host starts down and starts with the three steps of `init()`: `Restart` resets,
  `Launch` calls the first pass, `Watch` opens the change stream; others may come in between. Tasks may
  be queued before any host is up. One pass per host at a time: two passes in one process share only the
  database, so two hosts show what they can do to each other. `ExpireLock` frees the lock of a host that died,
  and nothing else: a living host is assumed to finish a task within the 15 minutes of its lock.
  Saving a status is assumed to succeed.
* *ChargingSession.* A document keeps four facts: who wrote its stop, whether it has consumption,
  whether the extra inactivity is known, and its billing status. `"ROAMING"` stands for the
  transaction of a roaming user, for whom billing does nothing and whose partner may fail a start, a
  stop or a CDR; `"UNBILLED"` for one started with billing switched off. Ids are in the order of the
  start timestamps, as the query for the last transaction sorts by timestamp. Users share one
  billing lock, which can only refuse more. Every station-wide save is a save of the one connector.
* *Metering.* Energies and times are naturals counted from the start of the session. A consumption is
  priced as one chunk, where the code cuts it at every minute. The choice of the tariff is free at every
  consumption (restrictions on the day, the hour, the energy, the duration decide it in the code), so
  every sequence of tariffs is there. Amounts are left out: what is priced is a quantity. Every message
  carries the energy register and the register of a station never decreases; see section 7 for what
  happens otherwise. Whether time without consumption counts as inactivity depends on a charging
  profile, and is free.
  A soft stop is two steps: its caller reads the transaction, later `softStopTransaction` stamps the stop
  with the last consumption of that copy, while `handleStopTransaction` reads the transaction afresh and
  takes the last value it finds as `meterStop`. The timestamp of the stop may thus be earlier than time
  already priced. `Fallback` saves the caller's copy with a stop; it may follow a refusal (the
  transaction has been stopped) or an error at any point before the save. The duration of a stop
  (`dur`) is `totalDurationSecs`, taken from the copy that is stopped.
* *Invoicing.* The locks are left out on purpose: a lease can run out under its owner, and what the
  module shows does not need them. A session has the same number of lines each time it is billed. An
  invoice is named like the session whose idempotency key created it. Stripe is what its API promises:
  an item goes on a draft only, a repeated key with the same parameters gets the first answer, with
  others it is refused. Stripe forgets keys after a day at the earliest; a repetition that late is
  outside the model. `void`, `uncollectible` and `deleted` invoices, which only an operator produces,
  are left out.
* *OcppConnection.* The server is one process, so the code between two awaits is a step. A station may
  have any of the given connections open; a connection that is fully gone may be reused. Answers of a
  station take no lock. What a handler does beyond the connection is one step, `HandleAndEnd`.

Operators whose comment starts with "Seeded fault" are not used by any specification. Each is a
plausible wrong version of the definition that follows it (a dropped guard, a missing reset, a
swapped order) and serves to confirm that a property notices it.

## 3. Runs

| Run | Instance | Shows |
|---|---|---|
| `lock_timely` | 3 flows, validity 3, time-out 1 | `MutualExclusion`, `HolderOwnsDocument`, and that `Locking` implements `ExclusiveLock`, when no flow dies or outlives its lease |
| `lock_recovery` | 2 flows, validity 2, time-out 1, 1 crash, overruns allowed | every `acquire()` returns (`AcquireReturns`); the lock of a dead flow is removed (`OrphanRecovered`); nothing but an outlived lease or a raced purge takes the document from under a holder (`OnlyRaceOrOverrun`) |
| `lock_purge_race` | 2 flows, 1 crash, no overrun | **violated**: a purge deletes a valid lock |
| `async_settle` | 2 hosts, 1 known and 1 unknown task, concurrency 1, 2 crashes, cron on | one run at a time (`OneRunAtATime`), no stranded task (`RunningHasRunner`), a task is left to the scheduler in three known ways only (`NoLostWakeup`), every known task ends with a result that stays (`EventuallySettled`) |
| `session_serial` | 1 flow, 2 transactions, 2 waiting tasks | stop final, connector correct, billed once and complete, `ChargingSession` implements `SessionLifecycle`, orphans closed, for every order of whole operations |
| `session_second_start` | 1 flow, 2 transactions | **violated**: two ongoing transactions on a connector |
| `session_overlap` | 2 flows, 1 transaction | **violated**: meter values erase a stop |
| `session_billing_race` | 2 flows, 1 transaction | **violated**: billed before the extra inactivity is known |
| `invoicing` | 2 flows, 2 sessions, 2 lines each, 4 operations | a session is invoiced once (`InvoicedOnce`), completely where it says BILLED (`BilledIsInvoiced`); `ReplicasNotAhead`; the billing implements `InvoiceLedger` |
| `ocpp_connection` | 2 connections, 1 message under way, 2 trials, 3 failed pings | `NoLeakedLock`; what is cached can be removed (`CacheRemovable`) and only what is closed is (`OnlyClosedLeave`); `Served`, `StaleEntryRemoved`, `Reachable` |
| `metering` | 2 flows, 3 tariffs, 2 units of time, up to 2 units of energy in each, 3 handlers | `TotalMatchesMeter`, `TimeCountedOnce`, `FlatFeeOnce`, `DocsNotAhead`; no energy escapes the pricing (`NoEnergyForgotten`); only the rounding of steps prices energy twice (`OnlyRoundingReprices`) |
| `metering_steps` | 1 flow, a tariff with energy steps of 2 and a stepless one, 3 units of time | **violated**: energy is priced twice |

Bounds. Three flows are one holder and two that compete for its succession; two flows and one death
are what the purge race needs, the dead owner coming back as one of the purgers. In `lock_timely` no
lock ever expires, so the purge is not reached there; `lock_recovery` exercises it and
`lock_purge_race` shows that exclusion cannot be claimed once it is. Validity and time-out are small, but
the time-out is shorter than the validity, as in the two locks the code waits for
(`acquireSiteAreaSmartChargingLock`, 5 seconds of 180, and `acquireBillUserLock`, 60 of 600), so that a
lock can expire while others wait. In `acquireChargingStationLock` the time-out is twice the validity, but
nothing calls it. Two hosts and two
tasks give stale lists, refused locks, a reset by one host of a task the other runs, and a start of one
host at any point of the work of the other; two crashes let a host die with a lock and another die while
it recovers. Two transactions are needed for a second start and for the last
transaction of a connector to hide an earlier one; two waiting tasks for a bill requested twice.
`MaxBills = 2` is enough to see a second billing. `MaxTx` bounds the starts, `MaxTasks` the waiting
tasks of one transaction (further ones are not queued), `MaxCrashes` the deaths.

In `invoicing` two flows and two sessions give two tasks on one draft, a second draft for a session
that was half billed, and a charge between two lines; four operations (`MaxOps`) are a billing, its
repetition, a charge and a review. Two lines are the first and a later one, which is where a death or a
lost answer leaves a session half invoiced. In `ocpp_connection` two connections are an old and a
new one; with two trials a waiting handler waits on and gives up; three failed pings are those of the
code, which has ten trials. In `metering` three handlers (`MaxOps`) are two values and a stop, or a stop, the
extra inactivity and a late value. Two units of time with up to two of energy in each (`MaxTime`,
`MaxPower`) are a value before and one after the end of the charging, and totals up to 4; the tariffs
have energy in steps of 2, charging time without steps and in steps of 2, parking time in steps of 1
and without, and a third one is the stepless energy definition that is the last choice of every session, so
that chunks leave a remainder to the next one, which may be priced by another tariff. Three handlers are
also a soft stop, whose caller read the session before a value was saved, and its fallback.
Three units of time take longer than a run should.

`CHECK_DEADLOCK` is switched off for `invoicing` and `metering`, which count the operations they may
begin and stop when these are used up. The other models never stop.

Overlap. `session_serial` takes operations one after the other. That is what the per-URL lock of
`JsonOCPPServer` aims at for the messages of one station; the REST API, the scheduler and a lock that
is waited for at most five seconds break it. The two-flow runs show what is lost then. They are
kept to their shortest form: the two-flow instance has several million states with two transactions,
too many for the liveness property.

## 4. Fairness

* `Locking`: weak fairness of a started flow (awaits return; `release` is in a `finally`), of the
  requests (cron tasks come back) and of the clock.
* `AsyncTasks`: weak fairness of each host's steps while it is up, of its restart and of the steps of
  `init()`, and of the expiration of a dead host's lock. Creation and crashes are never fair. With `Cron = TRUE` a pass
  can always start: that is `AsyncTaskCheckTask`.
* `ChargingSession`: weak fairness of an operation that has begun; strong fairness of the close task
  per flow and transaction, since the scheduler calls it for ever and it takes all transactions that
  match, whatever messages arrive in between. No message of a station, no REST call and no billing
  task has to come.
* `OcppConnection`: weak fairness of every handler that has begun except while it initialises (the
  database checks of `initialize()` may take for ever), of the close handler, of the clean-up timer,
  and of the calls of a connection that stays open, because a station sends heartbeats. No station has
  to connect, to answer or to disconnect.
* `Invoicing` and `Metering` claim nothing about progress and state no fairness.

Liveness holds under these only: a host that stays down, or a deployment without the scheduler, is
outside them.

## 5. What is proved

All proofs are for every value of the constants, under the `ASSUME` of each module (numbers are
naturals, `Unknown` is a set of tasks).

* `LockingProofs`. `TypeCorrect` needs nothing else. `TimelyMutualExclusion`,
  `TimelyOwnDocument` and `TimelyRefinement` assume `Timely` (no death, no overrun). Mutual exclusion
  is not inductive: a flow about to purge or to check would destroy it. `LockInv` adds that the
  document is the holder's with the same lease, that every active flow has a lease that has not
  run out, hence that no document is ever expired and nobody reaches the purge. The refinement then
  maps insert to `Enter`, release to `Leave` and everything else to a stutter.

  With crashes, waits past a lease and purges, the invariant is `HolderKeepsDocument`: the one document is
  the holder's, with its lease. `OnlyRaceOrOverrunBreaks` needs no premise and says what can break it: a
  holder out of time, or a purge whose document is not the expired one it read. The two are therefore
  the premises of `CrashSafeMutualExclusion` and `CrashSafeRefinement`: `[]HoldersInTime` and
  `PurgeOnlyExpired`, the property that `lock_purge_race` refutes. Neither is true of the code in
  general; the theorems say that a delete conditioned on the expiration date, and work that ends within
  its lease, is all that is missing. Once a premise has failed nothing is claimed.
* `AsyncTasksProofs`. The invariant behind `AsyncOneRun` and `AsyncRunner` says that a host at a stage between acquisition and release is a holder of that task's lock, that
  a lock has at most one holder, that a host not in a pass has no job, and that a RUNNING task is at
  such a stage somewhere or a host is down. The start-up reset is the delicate step: it may reset a
  task another host is running, which is harmless to these properties because the lock remains.

  `AsyncNoLostWakeup` has no premise. It says of every step that leaves a task PENDING with no host about to
  read the list, with the task ahead of it, or at work on it, that the step is one of three: the task is
  saved while no change stream is open, the host that awaited it dies, or it is refused the lock of a dead
  host. The first case is the window in `init()`, which launches its first pass before it watches.
  `SavedIsResult` adds that nothing overwrites the result of a task before its lock is released. So a host
  that is refused the lock of a living host, and does not repeat its pass, leaves a task that the other has
  yet to save, or one that is no longer PENDING. The other two cases are those in which the scheduled check is needed; `EventuallySettled`
  shows that it is enough.
* `ChargingSessionProofs`. `SessionTypeCorrect` for any number of flows. It is strengthened by
  `Aimed`: a handler past its first step has a transaction to save to.
* `ChargingOverlapProofs`. Any number of operations that overlap. The runs `session_overlap` and
  `session_billing_race` show that the properties are then false; the theorems say how little has to be
  kept apart for them to hold. `Apart`: no two handlers are between reading and saving the *same*
  transaction. `BillApart`: no billing task is at work on a transaction that a status notification is
  about to save. Under `[]Apart`, `OverlapStopIsFinal`; under both, `OverlapBilledOnce`,
  `OverlapBilledComplete`, and `OverlapLifecycle`: `ChargingSession` implements `SessionLifecycle`, through
  the mapping `Stage`. `OverlapInv` says that a transaction being started has no document and no
  second handler starting it, that a meter value or stop about to be saved is of a transaction still
  ongoing, and that a completion keeps the stop it read. `BillingInv` says that a transaction counts as
  billed when its status says so and only then, that a task waits for a complete transaction only (except
  while the notification that queued it has yet to save it), that the copy of a notification says BILLED
  when the document does, and that one task bills at a time. For the refinement each action is shown to
  move at most one transaction, and that one by at most one stage; what is not obvious is that a
  deleted transaction never returns: the only handlers that could save it hold its id, and `Apart`
  keeps them off.
* `ChargingSerialProofs`. `OneHandlerConnector`: when handlers come one at a time (`OneHandler`),
  with billing tasks overlapping them freely, `ConnectorShowsLive`. Every handler saves the whole
  connector, so here `Apart` would not do. `ConnectorInv` says that neither the connector nor the copy of
  the handler at work shows a transaction its station stopped, and that a stop leaves the connector free
  until it has saved the transaction. `SerialStopIsFinal`, `SerialConnector`, `SerialBilledOnce` and
  `SerialBilledComplete` are the corollaries for `Serial`, where no flows overlap at all, which is the
  instance of `session_serial`.
* `OcppConnectionProofs`. `ConnectionTypeCorrect` and `ConnectionLockReleased`. `NoLeakedLock` is not
  inductive alone: one adds that a handler that is not idle has a connection, and that a handler in the
  wait will itself be at work when it takes the lock. `ConnectionCacheRemovable` and
  `ConnectionOnlyClosedLeave` rest on `EntryInv`: what a handler, the close event or the periodic check
  has chosen to remove before it waited is closed (`OthersClosed`, `LeaversClosed`), though the entry of the
  cache may be another one by the time of the removal.
* `InvoicingProofs`. Five theorems from one invariant: a key is used with the invoice that holds the line
  and the other way round (`ItemsAreKeyed`); the lines of a session are written in order and on one
  invoice (`LinesInOrder`); and what bills, local invoices and the copies of the flows say is true of
  Stripe and stays so (`GoodBills`, `GoodLocals`, `GoodFlows`): a status they hold is not ahead, a
  session about to be BILLED has all its lines, a flow at line l has written those before l. The
  refinement maps a new line to `WriteLine`, the finalization to `Finalize` and all else to a stutter.
  No lock and no bound on the operations is used.
* `MeteringProofs`. Seven theorems, for any number of handlers, any tariffs, any length and power. The
  invariant (`MeteringInv`) says of the transaction in the database, of the copy of every handler and of
  the copy a soft stop was called with alike that total and last value belong to a reading of the station,
  that no more energy is absorbed than delivered, and that charging and parking are priced up to two marks which do not overlap; and of the documents that
  they are not ahead. A stop's duration reaches the marks of its own copy, so a stale timestamp does no
  harm.

  What energy is priced and absorbed is followed from copy to copy (`Copies`): after a step every copy is
  one there was before, or prices a consumption on top of one, or stops one. `OnlyRounding` and
  `EnergyAccounted` both follow from that. The first: `EnergyPricedOnce` is false (run `metering_steps`),
  and a step from a state in which no copy has energy priced twice to one in which some has is a pricing
  that finds what was absorbed in the middle of a step and rounds it. `EnergyAccounted` says of every copy
  alike that what it shows as delivered is absorbed but for less than a step of some tariff, so it does
  not matter which of the overlapping handlers saves last. Nothing is claimed once the extra inactivity
  is computed: it is priced with the total of the last consumption document, which a handler that died
  before its save of one may have left behind the total of the transaction. The lemmas on whole steps (the
  remainder of a division, the steps of a sum) stand at the head of the module.

Only model-checked: liveness (`AcquireReturns`, `OrphanRecovered`, `EventuallySettled`, `OrphanClosed`,
`Served`, `StaleEntryRemoved`, `Reachable`), as fairness and ENABLED are out of the prover's reach.

## 6. What the violated runs say of the code

1. `LockingManager.ts:153-158` reads a lock and deletes it by id: a second purger removes the
   lock the first has just acquired. A delete conditioned on the expiration date would close it.
2. `OCPPService.ts:2515`: the simulated stop of an ongoing transaction has headers without tenant and
   station and always fails; only transactions without consumption are cleaned up.
3. `OCPPService.ts:277`: saving the whole transaction undoes a stop saved meanwhile.
4. `OCPPService.ts:2041`: the billing task can read the transaction before it is saved.
5. `ConsumptionChunkPricer.ts:200`: the mark of what is priced is rounded down to a whole step of the
   tariff in force. After a tariff of another step size, or without steps, it falls below what is priced,
   and the energy in between is priced again. Nothing asks for one step size in a session, and
   `BuiltInPricingIntegration.ts:84` appends a stepless definition to every one. Never moving the mark
   back below what was absorbed would close it.

## 7. Not modelled, and the plan

Not modelled: the servers' request handling, authorization, storage queries without state of their
own, notifications, migrations and clients of outside services (inputs and outputs, or static
tables); smart charging (an external optimiser).

What is left out of the modelled parts, and what is known there:

* *Consumption.* A message without an energy value sets the total to
  what `convertToFloat(undefined)` yields (`OCPPUtils.ts:231`); a register that decreases counts the
  same inactivity twice; the filter with an `async` predicate (`OCPPService.ts:2392`) filters nothing.
  Each is excluded by an assumption named in section 2.
* *Billing.* A session can stay PENDING for ever: its task was refused the lock of the user, or a copy
  saved by the charge or the pending task replaced BILLED. It can end FAILED with part of its lines
  invoiced. The unpaid task and the update of the charge save billing data whole and may erase the
  `transferID` of a dispatch; `StripeBillingIntegration.ts:1145` stores an id that the next pass
  cannot look up. Nothing in the code promises otherwise, so no property says so; `PROJECT.json`
  lists these as hazards. Fund transfers, users and payment methods are not modelled.
* *WebSocket server.* Requests to the station, their time-out and their answers; the shared headers of a
  connection; REST connections.
* *Asynchronous tasks.* Failing saves of a status. `EMAIDS_IMPORT` (`types/AsyncTask.ts:49`), which
  `EmaidService.ts:388` queues, has no case in `createTask` (`AsyncTaskManager.ts:209`): such a task stays
  PENDING for ever and the passes retrigger one another, although `AsyncTaskBuilder.ts:32` logs that it
  will be processed soon. The tasks of `Unknown` are these; the properties except them.

Next, in this order:

1. *Roaming CDR*: `checkAndSendTransactionCdr` of OCPI and OICP over `ExclusiveLock`, where the
   promise is returned without `await` before the `finally` that releases the lock.
2. *Fund transfers*: dispatch, approval and sending, with the death between the two saves.
3. *Requests to the station*: time-outs, late answers and the remote start and stop that use them.
4. *Scheduler*: task locks and tenants, composed with `Locking` under overrun.
5. *Proofs*: the composition of `ChargingSession` with `Invoicing`.
