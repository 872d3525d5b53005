# CentralOps: TLA+ models of the event pipeline

CentralOps polls security vendors, normalises and routes their events, and delivers
them to SIEMs and other destinations. Its promise is in
`docs-site/docs/concepts/architecture.md:139-142`: at-least-once delivery and "nenhuma
perda silenciosa" (an event that fails always shows up in quarantine or in the resend
queue). The models here follow an event from the vendor to the destination and ask, at
each hand-over, who is responsible for it and what happens when somebody dies, fails,
is refused or works at the same time.

Paths below are relative to `src/backend/app/collectors/` unless they start with `src/`.

## 1. Inventory

### The data path

```
vendor API --> collection cycle --> routing --> one message per destination
                 | lock, cursor,      |            | Celery        | Kafka topic
                 | dedupe claims      |            v               v
                 +--> quarantine      |        dispatch <---- consumer group
                 |      ^  replay     |            |
                 |      +-------------+            v
                 +--> sightings,         lease, permit --> chunks --> breaker --> sink
                      heartbeat                    |                 (Redis keys)
                        |                          +--> destination_dlq <--> drain
                      absence tick --> Detections
```

| Part | State | Operations | Hard behaviour | What makes it correct |
|---|---|---|---|---|
| Collection cycle (`pipeline.py`, `state/cursor.py`, `state/dedupe.py`) | Redis lock, hot cursor (Redis), cold cursor (database), dedupe keys, the batch and the set of unsettled claims of the running cycle | take lock, load cursor, claim, quarantine, drop, batch, hand off, settle, save cursor, error path, `finally` | failure between claim and hand-off, half-done saves, lock lost or outlived, dead worker, two cycles at once | a stored cursor never passes an event nobody has; a claim always has a keeper; no event is worked on twice at once; every event is eventually dealt with |
| Circuit breaker (`circuit_breaker.py`) | three Redis keys with TTL per destination | check, record_success, record_failure | every step is its own round trip; late results; dead probe holder; lost round trips | a healthy destination is not refused for longer than a bound; sending never stops for good |
| Dispatch (`tasks.py`, `pipeline.py`, `delivery.py`) | Celery messages, chunk and attempt counters, dead-letter rows | look up destination, send chunk, retry, reject, dead-letter, autoretry | partial acceptance, failed dead-letter insert, redelivery after a crash, second message for the same batch, retries used up | an event is at the sink, in a row, or still in a live message |
| Chunking (`pipeline.py:_chunk_batch`) | none, a pure loop | cut a batch by items and bytes | limits that interact, events larger than the limit | nothing dropped, duplicated, reordered; limits kept |
| Dead-letter drain (`tasks.py:drain_destination_dlq`, `src/backend/app/db/repository.py`) | `destination_dlq` rows and their `error_kind`, the task's lot | list, stamp, dispatch, read back, delete, continue | delivery is inferred from a stamp; live traffic writes the same rows; two drains; crash mid-lot | a row is deleted only when the sink has the event; every requested row is tried |
| Routing (`routing/engine.py`, `pipeline.py:_enqueue_routed`) | the routes, the copies in each sub-batch | order, match, canary, drop, final, masking, residency, loop guard, sampling, fallback, lint | order and combination of rules; look-ups that fail | every event has an outcome; one copy per destination, masked if any route masks; the lint reports only dead routes |
| Cursor boundary (`cursor_boundary.py`) | remembered keys at the last timestamp | filter, remember | inclusive lower bounds, capped memory | no event at the boundary is skipped |
| Bulkhead (`output/destination_limiter.py`, `output/concurrency_pool.py`) | leases in a Redis sorted set, a semaphore per process | acquire, wait, fail open, resize, release, evict | clocks differ, replies are lost, holders die, the cap is edited meanwhile | cap respected across processes; permits neither made nor lost; slots come back; nobody waits for ever |
| Vendor limiters (`domain_limiter.py`, `rate_limit_redis.py`) | leases, token buckets | acquire, release | leases that end before their holder | cap respected |
| OAuth token cache (`auth/`) | token, refresh lock | get, refresh | two refreshers, expired lock | one refresh, no stale token kept |
| Quarantine (`quarantine.py`, `tasks.py:286-440`, `src/backend/app/routers/quarantine.py`) | rows and their marks, write budget per reason, replays in flight | insert, discard, expire, replay one or many | crash between hand-over and commit, two replays, discard under a replay | no row marked unless its event was sent; deleted rows stay deleted; accepted replays end; a flood of one reason hides no other |
| Ingest buffer and shedding (`ingest_buffer.py`, `load_shedder.py`) | Redis lists and counters | push, drain, shed | buffer at its ceiling, crash between pop and hand-off | loss only by policy and counted |
| Kafka data plane (`dataplane/kafka_transport.py`) | the partition, committed offset, assignment, each consumer's position and attempts | frame, bisect, produce, fetch, dispatch, seek back, commit | rebalance under a dispatch, late commit, refused seek, size refusals | a committed offset hides no unsettled record; records in order; the delivery contract |
| Absence rules (`inflight/absence.py`) | three Redis hashes (seen, alerted, heartbeat), Detections, backlog flag | flush sightings, tick: hold, forget, close, alert, mark | two halves that never meet: the tick judges by what cycles wrote; overlapping ticks; failures between commit and mark | alerts mean a silent source; no key leaves unheard; alerts end |
| Backfill, scheduler, capture, other in-flight rules, enrichment, normalisation, reduction, vendors, senders, API, front end | see `PROJECT.json` | | | |

`PROJECT.json` lists all components with their status, and under `hazards` the places
in the code that are hard to test, each with the properties that cover it.

### How the parts interact

* The cycle hands a batch to dispatch by enqueuing one message per destination
  (`_enqueue_routed`, `pipeline.py:2422-2606`). A cycle that fails after the first
  destination reads the same events again, so dispatch sees a second message for the
  same batch (`EnqueueAgain` in `Dispatch`).
* Dispatch consults the breaker before every attempt of every chunk. `Dispatch` leaves
  the answer open; `CircuitBreaker` models who gets which answer.
* Dispatch and the drain share the dead-letter rows. In `Dispatch` the table is a
  function from events to error kinds; `DlqDrain` gives rows their identity, because
  the drain deletes by primary key.
* The two lanes, Celery (`Dispatch`) and Kafka (`KafkaPlane`), are shown to implement one
  abstract specification, `DeliveryContract`: whoever hands a batch over may rely on
  it whatever `EVENT_DATAPLANE` says.
* A dispatch of either lane runs inside the two limits of `Bulkhead`; a routed sub-batch of
  `Routing` is what a lane is handed; a cycle's quarantine writes and a replay's hand-overs
  are `Quarantine`; the flush at the end of a cycle feeds `Absence`.
* The drain calls dispatch with a lot. `DlqDrain` uses the results `Dispatch` allows:
  returned with some events rejected, `BreakerOpen`, another exception.

## 2. Modules

One specification module per component, an `MC` module for TLC, and a `Proofs` module
with the theorems. `DispatchProofs` holds the theorems of the three modules that make up the
sending side: `Dispatch`, `Chunking` and `CircuitBreaker` (whose definitions carry a `Chunk` or
`Breaker` prefix where they would share a name).

### CollectCycle

One (integration, stream). Events are the positions of the vendor's stream and a cursor
is the last position consumed; mapping, OCSF, enrichment and routing are reduced to what
they do to control: append, quarantine or drop. `pc` is the place in
`run_collection_once` / `_run_collection_once`:

| `pc` | code |
|---|---|
| `off`, `load` | lock (`pipeline.py:815-903`), token, configuration, `cursor_store.load` |
| `collect` | the `async for` over the collector: `Deduped`, `Quarantine`, `Discard`, `Append`, `EndOfStream` |
| `enqueue`, `enqueueLast` | `_enqueue_dispatch` in the loop and after it: `EnqueueTo`, `ShedTo`, then `Settle` |
| `saveHot`, `saveCold` | the two halves of `CursorStore.save`, also from the `except` path (`Fail`) |
| `release`, `unlock` | `finally`: `release_many(unsettled_claims)`, then the compare-and-delete of the lock |

`Next` holds everything that may go wrong while the lock outlives its cycle: any operation may
raise, also before the cursor is loaded (`FailEarly`, which stores `cursor_before or {}`); the
reply of the SET NX may be lost, or the task interrupted at that await, with the key set and not
yet in `unsettled_claims` (`ClaimUnseen`, the await and the `add` being two steps); the release may
be refused (`ReleaseFails`), keys evicted under their cycle (`ClaimEvict`, the volatile-lru of
`state/dedupe.py:16-23`), the process shut down or killed (`Shutdown`, `Crash`). `LockFault`
(`LockExpire`, `BeginLockless`) breaks the one assumption left and is in `SpecLockLost`. Redis
is flushed only between cycles. A quarantine write over budget, or refused, counts as `discarded`.

Some of these do lose events, and the code has nothing against it. History variables that
no guard reads record them: `orphaned` (the claim outlived its cycle unsettled, so the retry
takes the event for a duplicate), `skipped` (a cycle that found no position started at the
default lookback), `evicted` and `overrun`. The properties then say that nothing is lost but by
one of these causes.
The acknowledgement hooks of queue-like sources (`on_cycle_committed`, `on_cycle_aborted`) are
not modelled: the stream here is one that is read again from a cursor.

### CircuitBreaker

The three keys are their remaining TTLs, in ticks. Each Redis round trip is one action, so `check`
is `CheckOpen` then `WinProbe` or `Refused`, and `record_failure` is `RecordFailure` then
`Trip`. Any round trip may be refused (`CheckFailsOpen`, `RecordLost`) and any worker may
die (`WorkerDies`). A send takes up to `SendMax` ticks (`asyncio.wait_for`); a send that
overlapped an outage may fail (`doomed`), others succeed or end unrecorded. The two
round trips of `record_failure` fit into one tick, that is, recording takes much less than
a second against a cooldown of seconds.

### Dispatch

One batch, one destination, up to `Copies` messages. `queued -> send -> done`, or `dlq`
when the batch is turned into a `dispatch_to_dlq` message. `Reject` has both outcomes of
`persist_rejected_to_dlq`; `PersistBatch` has both outcomes of `persist_batch_dlq`, whose
result the code ignores (`dropped`). `Transient` is the exception that reaches Celery:
autoretry up to `MaxRetries`, then the task fails and is acknowledged. `Publish` may be refused
by the broker, for the retry as for the dead letter. Both ways of ending a message with
unsettled events are recorded in `abandoned`, with their cause. `Crash` puts the
message back (acks_late). The destination may be reconfigured at any time. Aggregation,
concurrency slots, lineage, capture taps and metrics are left out.

### DeliveryContract

What a lane promises for a batch it was handed: it owns the batch until every event is
settled (accepted, dead-lettered, or logged as given up) or until it admits to have let a message
go (`abandoned`), takes no outcome back, and gets there in the end. The mapping of `Dispatch`
reads `owned` as "some message is live" and `abandoned` as "some message was let go"; that of
`KafkaPlane` reads `owned` as "produce() has not returned or the committed offset is below the
end of the partition", and never abandons.

### KafkaPlane

One sub-batch on one partition. The producer side is `_frames`, `_produce_framed` and `produce`:
bisection by size, refusal by the client or the broker, one acknowledgement per record,
oversized events to the dead-letter table, an exception that makes the collector start over. The
consumer side is `run_dispatch_consumer`: `GetOne`, one action per outcome of the
dispatch, `Transient` with its seek, `SeekRefused`, `Commit`. The group (`Join`,
`Rebalance`) is external; it may move the partition while its former owner is dispatching. Sizes are a constant
function of the run of events, so nothing is assumed of the encoding. Closing and making a
producer anew is left out. `_commit` catches `CommitFailedError` only; any other error of it ends
the loop, which is `Die` before or after the commit.

### Routing

`find_unreachable` and `route_batch`, one step per route and event. Labels are integers, a
text or nothing; conditions keep their operators, `_canonical_field` and the rule that what
does not compare does not match. Canary and sampling take the event's bucket instead of a
hash. `redact` is the mask; its fields are not modelled. `Persist` writes the rows of the events
without a destination at the end of `_enqueue_routed`; `PersistFails` is the write that fails and
is only logged. `WellFormed` leaves out conditions that spell one field twice, which
`validate_condition` accepts: for those the lint is not sound (see the observations).

### Bulkhead

The lease script is one atomic action (`Admit`, `Refuse`, `Unreachable` with both outcomes),
with the caller's clock; `DestinationSlot` is its limit, target and free permits, and
`Retarget` the three branches of `retarget`. A dispatch holds its lease as long as it likes: the
lease wraps every chunk and retry and is never renewed. `Overdue` is a holder whose lease has run out on some
clock, `Current` one whose lease has not. The order in which a semaphore wakes its waiters is
left to fairness.

### Quarantine

Intake under `_make_quarantine_budget`, and the replay path of the API and of the task in the
same steps, because both read, map, hand over to each destination and then commit. Rows are
`held`, `marked` or `gone`. The mapping is reduced to "events no longer fail for this reason".

### Absence

One rule. The cycle that reads the source is `Collect` / `CollectFails`, `SaveState` (watermark
and `last_run_capped`), `Count` and `Flush` (the two Redis pipelines of `apply_absence_presence`), in
the order of the code: the state is saved before the sightings are flushed. `Stranger` is any
other cycle of the organization, at any moment, between `Count` and `Flush` too: it writes the
heartbeat of every absence rule and, for events of its own, keys; what it collects is assumed
not to be behind. The tick is `Begin` (the lock), `Read` or `Held` (snapshot
and guards; `Read` also chooses what the rules before this one left of the tick's shared budget), `Unwatch`, `Close`,
`Unmark`, then `Bump` or `Alert` key by key, and `Mark`. Time is counted in tick
periods, and hashes hold ages. A tick is assumed to end before the next is due, so that ticks overlap only
when Redis refuses the lock (`BeginUnlocked`, the code fails open); suppression is assumed to
outlast a silence. History variables: `own` (age of the last heartbeat of the cycle that reads the
source, whoever wrote the stored one), `hidden`, `heard` and `starved` (a tick came to the key's
silence and was held, failed, or had no budget left).

### Chunking

The loop of `_chunk_batch` as a state machine, one step per event. Events are the positions of the
batch, which gives the bytes of its first 0, 1, 2... events: the size of an event, and of a run of events,
is a difference of two of these, so no definition sums over a sequence. A chunk is the run of positions between the ends of two
chunks.

### DlqDrain

Rows are records with a key `<<event, gen>>`: an event whose row was deleted gets a new
key. `List`, `Stamp`, `SendReturns` / `SendRefused` / `SendFails`, `Read`, `Delete` are
the statements of `drain_destination_dlq` that commit on their own; `LiveDeadLetter` is
live traffic writing to the same table at any moment, and `Purge` the retention job.
`SendSkipped` is a dispatch that returns without having sent or rewritten anything (a shadow
destination). `fate` is a history variable: whether the sink accepted the event, retention deleted
the row, its dispatch sent nothing, or another drain stamped it again before its outcome was read.

## 3. Runs

Every property names its code in the comment above it. The bounds are the smallest in
which each case happens, and are stated with each run.

| Run | Checks | Instance |
|---|---|---|
| `collect` | `TypeOK`, `CursorCovered`, `ClaimsBacked`, `EventuallyAccounted` | 2 workers, 2 destinations, 3 events, page cap and batch 2, overlap 1, 2 failures: 108 132 states |
| `collect_faults` | `ExclusiveProcessing`, `NoCascade` under lock faults too | 2 workers, 1 destination, 2 events, 1 failure: 2.2 million states |
| `breaker` | `BreakerTypes`, `BlackoutBounded`, `SendsContinue` | 3 workers, threshold 2, cooldown 2, window 3, send up to 1 tick |
| `dispatch` | `TypeOK`, `NothingLost`, `ImplementsContract` | 2 messages, chunks {1,2} and {3}, 1 retry per chunk, 1 Celery retry, 2 retryable errors, 1 crash: 231 056 states |
| `chunk_reference` | `NothingDropped`, `WithinLimits`, `FewestChunks` | every batch of up to 5 events of 4 sizes, 5 configurations |
| `kafka` | `TypeOK`, `CommittedSettled`, `InOrder`, `ImplementsContract` | 2 consumers, 2 events of two size profiles, 2 rebalances or deaths, 1 produce that raises, 1 retry |
| `routing` | `NoSilentLoss`, `OneSafeCopy`, `UnreachableSound` | every set of up to 3 of 12 routes, 4 events, 2 destinations, 3 defaults, 3 sampling settings, look-ups that fail |
| `bulkhead` | `TypeOK`, `CapHeld`, `PermitsConserved`, `LeaksHeal`, `NobodyStuck` | 3 dispatches in 2 processes, clocks 1 tick apart, caps 1 and 2, lease 2, 1 fault: 135 130 states |
| `quarantine` | `TypeOK`, `MarkedWasSent`, `KindsRepresented`, `DeletedForGood`, `AcceptedSettles` | 3 events of 2 reasons, one cut, 2 destinations (one sheds), 2 replays at a time, 1 fault |
| `drain` | `TypeOK`, `NoRowLost`, `RequestedTried` | 2 drains, 2 events (one not JSON), lots of 1, ceiling 1, rows deleted and inserted again, 2 faults: 180 435 states |
| `absence` | `TypeOK`, `OpenIsMarked`, `HonestAlert`, `ForgottenWasAlerted`, `AlertsEnd` | 2 keys, 2 tickers, window 1, forgotten at age 3, at most 1 key watched, budget 1, 1 failure of any kind: 905 318 states |

* Two destinations let the broker refuse the second after the first; a failure may hit
  either half of a save. A page cap of two with an overlap of one cuts the cycle short of the
  three events and makes the next one re-read an event. With two failures a cycle that was cut
  short meets another that is.
* Three workers in the breaker run are a probe, a late result and a worker that is
  refused. The horizon (3 ticks) is longer than any TTL that remains.
* Two chunks let a message fail after the first was accepted, and a chunk of two lets the
  sink accept half of it. Two retryable errors against one retry use the retries up.
* The chunk sizes are below, at and above `max_bytes`; `max_bytes = 0` turns the byte limit off.
* With a ceiling of one a request of two rows needs a continuation. `drain_alone.cfg`, kept beside the runs,
  passes with the same properties for one drain of four rows (one without payload, one not JSON) and a
  ceiling of two: 267 625 states.
* The two size profiles of the Kafka run are a batch that is refused and bisected, and one with an
  event that fits no record; two disturbances move the partition away and back under a
  dispatch. `InOrder` and `CommittedSettled` need both consumers to hold a record.
* The route catalogue has every attribute at each value at least once, two spellings of one field, a route
  listed twice for a destination, and pairs that differ in masking only; three routes
  suffice for a route that is shadowed, one that clones and one that masks.
* In the bulkhead run a lease of 2 against clocks one tick apart lets a dispatch overstay its
  lease on one clock and not on the other, and others be admitted in its place.
* In the absence run a silent key is alerted in one period and forgotten in the next. With two silent keys, a
  cap of one and a budget of one, a cycle finds the vigil full and a tick runs out of budget. A
  cycle takes less than a period (`CycleMax = 0`), so an event that happens during one may be taken to
  happen after it (the guard of `Happen`).
* `MaxFailures`, `MaxTransients`, `MaxCrashes`, `MaxFaults` and `MaxGen` bound how often something happens.
  The theorems hold for every value of them and assume no relation between them.
* Symmetry is used in `collect_faults` only, which checks no liveness.
  `collect_faults` also uses a view without the sinks, which no guard reads and neither of its
  properties mentions. `collect` uses a view that forgets how an event was answered and keeps whether it was:
  no guard reads the difference, and every step of a cycle changes what is kept.
* Deadlock checking is off where the system may really stop: a batch that is settled, a
  drain that is finished, a loop that has ended.

### Fairness

* `CollectCycle`: weak fairness of "start or continue a cycle" per worker. The beat fires
  every stream at its cadence and Celery works its queue off. Failures are bounded, which
  reads "once they stop".
* `CircuitBreaker`: time passes, a worker with a batch calls `check`, and a send ends by its
  timeout and is recorded or lost. Nothing is assumed about the sink.
* `KafkaPlane`: the collector repeats a cycle that failed, dispatchers run, a free partition is
  assigned. Rebalances are bounded ("once they stop").
* `Bulkhead`: time passes, polls and sends end (timeouts), and strong fairness of `Permit`, because
  `asyncio.Semaphore` serves its waiters in order.
* `Quarantine`: workers take messages and finish what they took; nothing is assumed of operators.
* `Absence`: cycles and ticks run at their cadence and periods end. Strong fairness of `Pass` only says that
  time does not stop because somebody is always busy when it is looked at.
* `Dispatch`, `DlqDrain`: the queues are consumed. A drain is assumed to end within the
  hard time limit of Celery (15 minutes); a task killed by it is acknowledged and its remaining rows
  wait for the next request.

### Where the code and its documentation disagree

| Instance | What TLC finds | Said where |
|---|---|---|
| `collect_lock_lost` (a listed run) | A cycle without the lock skips events that another cycle has claimed; that one is interrupted and releases the claims; the first stores its cursor past them. Nobody reads them again. | `pipeline.py:829-831`, "nunca para perda de dado" |
| `collect_early_failure.cfg` (`PositionKept`) | An exception before `cursor_store.load` stores `cursor_before or {}` = `{}` over the position, hot and cold. | `state/cursor.py:10-12`, "não perdemos a posição original" |
| `dispatch_exhausted.cfg` (`NoSilentLoss`) | After `max_retries` a retryable error ends the task, and no dead letter is written. A refused `apply_async` of the dead letter (`tasks.py:206, 221`) ends the same way. | `architecture.md:141`, "Nenhuma perda silenciosa" |
| `drain_concurrent.cfg` (`DrainsConverge`) | A second drain stamps the row that the first one's dispatch has rewritten; the first takes the stamp for its own and deletes a refused event. | `src/backend/app/db/repository.py:3184`, "concurrent reprocess tasks converge safely" |
| `drain_unsent.cfg` (`OutcomeIsTrue`) | Dispatch to a shadow destination returns without sending; the stamp survives and the drain deletes the row. | `tasks.py:475`, "sem perder evento"; `src/backend/app/db/repository.py:3203-3205`, "ninguém a reescreveu e o evento saiu" |
| `routing_unwritten.cfg` (`UnroutedKept`) | The write of the dead-letter rows of events without a destination may fail; `persist_batch_dlq` then returns `False`, which `_enqueue_routed` does not look at, and the cycle goes on. | `pipeline.py:2479-2480`, "zero perda, visível, replayável" |
| `routing_loop.cfg` | The loop guard is asked only about destinations the routes name (`pipeline.py:2444`): a default destination that points back at the Wazuh manager gets the events of Wazuh. | `LoopNeverFed`, the purpose of the guard |
| `bulkhead_drained.cfg` | A slot whose limit was lowered gives one permit back per exit. When it drains with fewer exits than that, or its last waiter is cancelled, it is idle above its target, and the next `retarget` to the same value changes nothing. | `output/concurrency_pool.py`, "O limite novo passa a valer à medida que o trabalho drena" |
| `absence_starved.cfg` (`LeftForNextTick`) | Bumps spend the alert budget as new alerts do, and all rules of a tick share it: with more silent keys than budget, the same first keys are bumped at each tick, and the others are forgotten without an alert. The defaults are a budget of 200 and up to 5000 keys per rule. | `src/backend/app/core/config.py:673`, "Teto GLOBAL de Detections novas por tique"; `inflight/absence.py:498`, "ficam para o próximo tique" |
| `absence_stranger.cfg` (`ObserverWasLooking`) | Every cycle of every stream of the organization writes the heartbeat of all its absence rules (`pipeline.py:1131-1144`, `inflight/absence.py:209`). With the collector of the source dead and another one alive the tick holds nothing back, and alerts on a source nobody is reading. | `inflight/absence.py:25-32`, the heartbeat "prova que estava OLHANDO" |

The configurations other than the first are kept beside the runs; each is checked with the `MC` module of its
component.

Smaller observations made while modelling:

* A dead worker's claims hide its events until the key's TTL; `state/dedupe.py:56-66` knows.
* Quarantined, suppressed and dropped events stay in `unsettled_claims`, so a successful
  cycle does release claims, against `pipeline.py:936-937`.
* A late success between `EXISTS` and `SET NX` of `check` lets a second probe through, and a success
  between the two round trips of `record_failure` does not keep the breaker from opening.
* The docstring of `record_failure` calls its window both sliding and fixed from the first failure;
  `EXPIRE` on each failure makes it sliding.
* A batch dead-lettered as `breaker_open` may have been sent in part (`tasks.py:199` says never attempted).
* Kafka: an unexpected exception of the dispatch is committed without a dead letter, although the
  docstring says that what was rejected is in the table already (`Failed`, counted as `dropped`). A produce that
  timed out may still be stored (`Stored /\ Raise`), which makes a duplicate.
* Routing: the fallback ignores residency and delivers unmasked. Of two routes to one destination an earlier one
  that samples and does not protect detections wins over a later one that does. `find_unreachable` may report a
  live route when a condition spells one field twice (excluded by `WellFormed`).
* Bulkhead: with the default timeouts one chunk may hold its lease for four attempts of 30 s and 1.4 s of backoff,
  121.4 s, against a `LEASE_MS` of 120 s (`pipeline.py:2910-2942, 3227-3263`, `output/destination_limiter.py:48-52`); the lease
  wraps all chunks and is never renewed. `CapHeld` therefore counts the leases that have not run out;
  the dispatches that overstay come on top of the cap.
* Quarantine: two replays of one event both send it (a docstring names a dedupe check that the code does
  not make); a discard under a replay does not stop the delivery; a replay to a destination that sheds is
  marked. Events over the budget are only counted.
* Collection: an interruption between the reply of SET NX (`pipeline.py:1274`) and `unsettled_claims.add` (1295), a lost
  reply, or a `release_many` that is refused leaves a claim without a cycle; until its TTL the event
  is a duplicate to everybody (`orphaned`).
* Absence: a cycle whose source failed writes the heartbeat all the same, and a flush that was lost is
  forgotten at the next heartbeat; both can alert falsely. `HonestAlert` excepts the first, and the heartbeat of another
  cycle of the organization that masks a dead one (`Masked`): with two streams it is false without that
  exception (`absence_stranger.cfg`). The second is not a silence by the hashes. Forgetting a key can delete a sighting that
  was flushed after the snapshot. A close that fails after the key was forgotten, a tick that dies before its mark is
  written, or a mark that is written after the vigil was lost, leaves the Detection open until the key is seen and
  returns (`AlertsEnd` excepts it). `_compile_absence` accepts a `forget` within window plus grace
  (`inflight/runtime.py:563-565` asks for `forget >= window` only; with the defaults, any window below 150 s), with which a
  rule never alerts: `ForgottenWasAlerted` is about the others (`Candidates`). Two cycles that flush at once may pass the cap on
  watched keys between `HLEN` and `HSET`.

## 4. Theorems

All are checked by TLAPS down to the last leaf, for every value of the constants that
satisfies the named `ASSUME`s.

| Theorem | Statement |
|---|---|
| `CollectCycleProofs!CycleTypes` | `SpecLockLost => []TypeOK` |
| `CollectCycleProofs!CursorNeverPassesUnaccounted` | `Spec => []CursorCovered`: a stored cursor passes no event but those accounted for, `orphaned` or `skipped` |
| `CollectCycleProofs!ClaimsAlwaysBacked` | `Spec => []ClaimsBacked` |
| `CollectCycleProofs!LockAloneLosesNothing` | `SpecLockLost` implies that always, while `failures = 0`, `NoLossAtRest` holds and nothing is `orphaned` or `skipped`: cycles that overlap lose nothing while none fails |
| `CollectCycleProofs!ExclusiveUnderFaults` | `SpecLockLost => []ExclusiveProcessing` |
| `CollectCycleProofs!LockLossDoesNotCascade` | `SpecLockLost => []NoCascade` |
| `DispatchProofs!BreakerTyped` | `BreakerSpec => []BreakerTypes` |
| `DispatchProofs!BlackoutEnds` | `BreakerSpec => []BlackoutBounded` |
| `DispatchProofs!EventsChunkedOnce` | `ChunkSpec => []NothingDropped` |
| `DispatchProofs!ChunksWithinLimits` | `ChunkSpec => []WithinLimits` |
| `DispatchProofs!GreedyIsOptimal` | `ChunkSpec => []FewestChunks` |
| `DispatchProofs!DispatchTypes` | `Spec => []TypeOK` |
| `DispatchProofs!BatchNeverLost` | `Spec => []NothingLost`: a message that ended has settled the batch or is recorded as let go |
| `DispatchProofs!OnlyLetGoLoses` | a batch with an unsettled event and no live message had a message let go, after its last retry or because the broker refused what its run published |
| `DispatchProofs!LaneKeepsContract` | the Celery lane implements `DeliveryContract!Safety` |
| `KafkaPlaneProofs!KafkaTypes` | `Spec => []TypeOK` |
| `KafkaPlaneProofs!GroupNeverSkips` | `Spec => []CommittedSettled` |
| `KafkaPlaneProofs!RecordsInOrder` | `Spec => []InOrder` |
| `KafkaPlaneProofs!KafkaKeepsContract` | the Kafka lane implements `DeliveryContract!Safety` |
| `RoutingProofs!NoEventLostInRouting` | `Spec => []NoSilentLoss` |
| `RoutingProofs!MaskingWins` | `Spec => []OneSafeCopy` |
| `RoutingProofs!LintIsSound` | `Spec => []UnreachableSound` |
| `BulkheadProofs!BulkheadTypes` | `Spec => []TypeOK` |
| `BulkheadProofs!CapAlwaysHeld` | `Spec => []CapHeld` |
| `BulkheadProofs!PermitsAlwaysConserved` | `Spec => []PermitsConserved` |
| `QuarantineProofs!QuarantineTypes` | `Spec => []TypeOK` |
| `QuarantineProofs!MarkedAlwaysSent` | `Spec => []MarkedWasSent` |
| `QuarantineProofs!GoneStaysGone` | `Spec => DeletedForGood` |
| `QuarantineProofs!KindsAlwaysRepresented` | `Spec => []KindsRepresented` |
| `DlqDrainProofs!DrainTypes` | `Spec => []TypeOK`, for any number of drains |
| `DlqDrainProofs!RowsLeaveForAReason` | `Spec => []NoRowLost`, for any number of drains |
| `DlqDrainProofs!LoneDrainLosesOnlyUnsent` | while one drain runs at a time, a row is lost only when its dispatch sent nothing |
| `AbsenceProofs!AbsenceTypes` | `Spec => []TypeOK` |
| `AbsenceProofs!AlertsAreHonest` | `Spec => HonestAlert` |
| `AbsenceProofs!OpenAlwaysMarked` | `Spec => []OpenIsMarked` |
| `AbsenceProofs!NoKeyForgottenUnheard` | `Spec => ForgottenWasAlerted`, for every budget |

The `TypeOK`s carry more than types where the bounds are consequences of the protocol, and are then
proved from the safety invariants rather than before them: that an event has at most one row (drain),
that no permit goes below zero (bulkhead), that no replay
acknowledges a message which is not its own (quarantine), that the keys a tick forgets,
closes and alerts are disjoint (absence).

* **Collection.** `FaultyInv` (types, `ExclusiveProcessing`, a worker past its
  `finally` holds nothing, a running cycle holds the lock unless it overran it) is inductive under every fault, because a claim is made by SET NX and
  leaves Redis only through the cycle that holds it, its TTL or an eviction, which is recorded. `NoCascade` follows from its last
  part. `CycleInv` adds what the cursor needs: no cycle overran its lock, so one runs at a time; everything read is in the batch or
  answered for (`ReadCovered`); destinations already served hold the batch
  (`ServedHoldBatch`); both the cursor being stored and the one an error would store are
  covered (`SaveCovered`, `BeforeCovered`); an unsettled claim outside the batch was diverted
  (`DivertedAccounted`). `CursorCovered` alone says nothing about a cycle in progress, and a
  duplicate is skipped safely only because `ClaimsBacked` and the lock hold together.
  `SharedInv` does without the lock. With overlapping cycles a cursor may stand past an event that another cycle has
  only claimed, so `CursorCovered` is false; what remains true while nothing fails is that everything a claim, a cursor
  or a cycle has passed is accounted for or in the batch of *some* running cycle (`AllCarried`), and that a cycle drops its batch
  only when every destination has it. Once all cycles have ended nothing is left in a batch. With the violation of
  `collect_lock_lost`, where one failure is allowed, this says exactly what pipeline.py:829 may claim:
  losing the lock is harmless by itself and loses data together with a cycle that fails.
* **Breaker.** The closed breaker is not inductive. `LateFailures` says that a send that saw the
  outage is at least as old as the recovery, so its failure is recorded by tick
  `SendMax`; `OpenEnds` says that the remaining cooldown ends within the horizon.
* **Chunking.** `ChunkInv`: the closed chunks and the open one are consecutive runs of positions, within
  the limits, and the byte counter is the difference of two prefix sums (`OpenChunk`). Optimality is the
  argument that the greedy cut stays ahead: `Ahead` says that no chunk of any other cut within the
  limits ends later than the chunk closed in its place. It is preserved because a chunk is closed
  only when the next event does not fit, and prefix sums are monotone. It is an invariant of the loop, so the number of
  chunks needs no induction.
* **Dispatch.** `PassedSettled`: the chunks before the current one are settled, so finishing
  the last chunk settles the batch. `AbandonedEnded` and `RetriesCounted` give `abandoned` its meaning: only a message that
  ended was let go, and one is exhausted only when more of its runs failed than there are retries. Nothing is
  assumed about how many fail, so the exhausted branch is part of what is proved.
* **Contract.** `ReleasedSettled` (and its counterpart in `DispatchProofs`) is the point: a lane that
  has let go of a batch has settled it, or admits that it has not. The steps then map one by one.
* **Kafka.** `ProducerInv`: every event is settled, in a record, in a frame still to do, or set aside
  (`Covered`), through bisections and restarts. `OwnerBehind`: the records between the committed offset and the
  owner's position are settled, but for the one in hand; `InHand`: a consumer that lost the partition
  may hold any record, which is harmless because its commit is refused.
* **Routing.** `LintOK` with the lemma `SubsumesSound` (a subsuming condition matches whatever the
  subsumed one does) carries the lint; `HandOK` says that the routes applied so far are exactly those the
  definition gives and that a destination is held by a masking route if any of them masks. `Accounted` is the
  bookkeeping of `route_batch`, and `StoredOK` that of the rows.
* **Bulkhead.** `LeaseInv`: the slot of a holder whose lease has not run out is in the sorted set, and no
  clock evicts it (`HeldIsLive`). Then these holders are counted by the
  script (`HoldersCounted`), and of those it admits one has read a cap that allows them all. How long a dispatch holds is not
  bounded. `PermitInv` is the balance of permits under every branch of `retarget`.
* **Quarantine.** `HandedOver`: what a replay has done of its destinations was sent. `Fresh`: an event
  that was not handled has no row. `Counted`: a counter is the number of writes, capped one above the budget.
  For the types, `MessagesKept`: an event has at least as many messages as tasks at work on it, since a task
  acknowledges late and only its own; and `WholeSent`: what is being sent was stored whole.
* **Absence.** `AllBounded` is what makes an alert honest: an event that was not read has waited no longer than
  the cycle's own heartbeat is old and a cycle may take, or than the lag that was saved; the other parts say it of the
  heartbeat that the running cycle is about to write, between the save of its state and its flush. The step from the
  cycle's own heartbeat to the stored one is where `Masked` is excepted.
  `HeardInv` carries the forgetting: the silence of a key that is neither heard nor starved has only now become one and the
  tick of this period has still to come to it (`Fresh`). Nothing is assumed of the budget: a tick that comes to a silence with
  none left is one of the exceptions the property names, and `absence_starved.cfg` shows what becomes of it.
  `MarksInv` follows the mark of an open Detection through a tick: in the hash, in the snapshot of the tick that
  is about to close it, or among the marks to be set (`MarkedAt`); it needs that ticks do not overlap
  (`OneAtATime`), which holds until a write or a lock fails. That the least and the greatest age exist
  is proved from the well-foundedness of the naturals (`LeastExists`, `GreatestExists`).
* **Drain.** `StampMeansFate`: after the dispatch a stamp that survived belongs to an event that met one of the fates, and so does
  every row about to be deleted. `KeysIssued`: a row inserted
  meanwhile has a key the drain does not hold. Everybody else's steps may rewrite or delete a row of the lot, which is harmless
  (`BystanderStep`); only a second stamp makes the first false, which is the fate `restamped` and what `drain_concurrent.cfg`
  shows. While one drain runs at a time there is none, and what remains is the dispatch that sends nothing.

Every safety invariant and action property of the runs is stated by a theorem. Only model-checked are the liveness
properties, because TLAPS does not reason about fairness: `EventuallyAccounted`, `SendsContinue`, `LeaksHeal`,
`NobodyStuck`, `AcceptedSettles`, `RequestedTried`, `AlertsEnd` and the liveness part of `ImplementsContract` (its safety part is
proved for both lanes); and the violations.

## 5. Not modelled, and the plan

Next, in this order:

1. Sources that are acknowledged (`vendors/gcp_pubsub.py`, `pipeline.py:781-812, 1910`): a cycle that fails returns its
   messages before its claims are released, which only the lock makes safe; a worker that dies leaves claims that
   make the next cycle acknowledge the redelivered messages as duplicates. With them the push ingest
   buffer (`ingest_buffer.py`), whose popped events a failed cycle does not put back.
2. The refinement of the two lanes' callers: that the collection cycle hands each lane what `DeliveryContract` starts from.
3. `Backfill` (`backfill_tasks.py`): windows, pause and cancel racing the worker's commit, and the cursor that
   one stream's end hands to the next stream's start.
4. `CursorBoundary`, in place of the constant `Overlap`; `TokenCache`; sliding windows and sequences of in-flight
   rules (`inflight/window.py`, `inflight/runtime.py`).

The models cover the code that decides what happens to an event between the vendor and the destination, and who
is told about it. That is a small part of the repository: most of its lines are vendor adapters, mapping
and enrichment data, HTTP handlers with their schemas, migrations and the user interface, which have no
protocol to check. A map of a large share of the repository's lines is therefore not a goal.

Within the modelled parts, a continuation of the drain whose `apply_async` fails (`tasks.py:602`) is left out: its rows wait
for the next request.

Left out for good: vendor APIs and wire formats (I/O), the mapping language and
enrichment (data, fail-open), metrics, tracing, capture and lineage (they never change
what is delivered), the HTTP API apart from the endpoint that starts drains, licensing,
secrets, the front end, migrations and deployment.
