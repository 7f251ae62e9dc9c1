# Verification of the webhook delivery service

TLA+ models of this repository, the TLC runs that check them on small
instances, and TLAPS proofs of what matters most. The code is the reference:
every definition is translated from it, and `PROJECT.json` ("map") names the
lines each one stands for. Paths below are relative to `src/`.

## 1. The system

| Part | State it keeps | Operations | Talks to |
|---|---|---|---|
| Event ingestion (`app/services/event.py`, `app/queries/event.py`) | `event` table, unique on (tenant, idempotency key) | `POST /events/`: insert or find, commit, dispatch | Postgres, broker |
| Event fan-out (`fan_out_event_deliveries`, task `deliver_event`) | `delivery` rows | read matching endpoints, insert a row for each, commit, dispatch each | Postgres, broker |
| Delivery worker (`deliver_to_endpoint_once`) | `delivery` row under a row lock | claim, read the endpoint, POST, record, dispatch a retry, commit | Postgres, broker, receiver |
| Recovery (`send_stuck_deliveries`, scheduled by beat) | none | select due pending rows, dispatch each | Postgres, broker |
| Broker and workers (Celery on Redis) | two queues, messages with countdowns, unacknowledged messages; a pool of processes | deliver, acknowledge late, deliver again; one pool takes both queues | every task |
| Endpoint management (`app/services/endpoint.py`) | `endpoint` table | POST, PATCH, DELETE, list | Postgres |
| Delivery log (`list_delivery_logs`) | none (a cursor that the client keeps) | one page per request | Postgres |
| Tenants and authentication | `tenant` table | create, look up by API key | Postgres |
| Test receiver (`test-receiver/main.py`) | bounded log of webhooks, configuration with a failure counter | answer, configure, reset, clear | workers |
| Load test (`scripts/load_test.py`) | statuses counted in a round of pages | send events, page through the log until as many rows are finished as it expects, or its time is up | API |
| Application shell, migrations, seed, demo scripts | none of their own | configuration, rendering, seeding | |

How they interact: a request commits an event and then sends `deliver_event`.
That task commits rows and then sends one `deliver_to_endpoint` message for
each. A worker that takes such a message locks the row with `SELECT ... FOR
UPDATE SKIP LOCKED`, posts with the row locked, sends the retry message *before*
its commit, and commits. The recovery reads rows without a lock and sends
messages for rows that workers may hold at that moment. Endpoints are read by
fan-out and again by the worker, and change in between.

What is hard, and what makes each part correct:

* **Delivery worker.** Several messages may name one row (retry, duplicate,
  recovery); the process may die after the receiver has the POST and before the
  commit; the retry message and the row are written separately. Correct: one
  worker per row, an exact `attempt_number`, a receiver that has accepted hears
  again only after a lost commit, final statuses that tell the truth, no POST
  before its date, no pending row that nothing will ever look at.
* **Recovery.** It must find every row whose message was lost, and must not
  make anything worse by dispatching rows that are being worked on.
* **Fan-out.** Delivered again after its commit, it inserts the rows again.
  Correct: the rows of one execution appear together, exactly for the endpoints
  that matched, and messages name committed rows only.
* **Ingestion.** Concurrent requests with one key. Correct: one event, answers
  that agree, one dispatch.
* **Endpoints.** PATCH and DELETE read without a lock. Correct: a deleted
  endpoint stays deleted, and a stale update undoes nothing.
* **Delivery log.** Rows share `created_at` and appear late, because it is the
  *start* of the inserting transaction. Correct: no row twice, no steady row
  skipped; a client that adds up several pages is not misled by rows that are
  settled between them.
* **Workers as a whole.** Both queues share one pool, and retries never end as
  long as endpoints fail. Correct: no message, row or event falls between the
  queues, the tasks and the table; every event is served in the end, however
  long the backlog of deliveries is; every row that is due is sent in the end,
  however many others fall due, and although its own retry message may come too
  early and be dropped.
* **Test receiver.** Webhooks overlap with each other and with changes of the
  configuration. Correct: exactly the next N fail.

`PROJECT.json` ("hazards") lists each hazard at its line with its properties.

## 2. Modules

| Module | What it is |
|---|---|
| `DeliveryLifecycle` | abstract: the life of one `delivery` row |
| `Delivery` | the core: rows, messages, workers, fan-out, recovery, time, failures |
| `MCDelivery` | instances of `Delivery` |
| `DeliveryProofs`, `DeliveryCounting` | theorems about `Delivery` |
| `IdempotentEvents` | abstract: what `POST /events/` promises |
| `EventIngest`, `MCEventIngest` | concurrent ingestion, and its instance |
| `EventIngestProofs` | theorems about `EventIngest` |
| `EndpointTable` | the `endpoint` table: abstract to `Endpoints`, extended by `FanOut` |
| `Endpoints`, `MCEndpoints` | concurrent endpoint requests, and an instance |
| `EndpointsProofs` | theorems about `Endpoints` |
| `FanOut`, `MCFanOut` | executions of `deliver_event` while endpoints change |
| `FanOutProofs` | theorems about `FanOut` |
| `DeliveryLog`, `MCDeliveryLog` | keyset pagination while rows appear and settle; the load test as its client |
| `DeliveryLogProofs` | theorems about `DeliveryLog` |
| `Pipeline`, `MCPipeline` | all of it composed: API, beat, two queues, one pool, recovery in order |
| `PipelineProofs` | theorems about `Pipeline` |
| `TestReceiver`, `MCTestReceiver` | the test receiver under overlapping requests |
| `TestReceiverProofs` | theorems about `TestReceiver` |

Definitions marked "Mutant" in a comment are plausible bugs; nothing in the
specifications uses them. They exist to show that the property each of them is
paired with in `PROJECT.json` would notice.

### Delivery

| Variable | Code |
|---|---|
| `row[d]` | `status`, `attempt_number`, `next_retry_at` of a row |
| `active` | endpoints with `is_active` |
| `toDispatch` | rows committed by a fan-out whose message is still to be sent |
| `queue[d][k]` | messages for `d` that may be taken in `k` ticks (`countdown`) |
| `poll` | rows the recovery has selected and not dispatched yet |
| `pc[w]`, `job[w]`, `mem[w]` | the worker's place in `deliver_to_endpoint_once`, its row, and the row as its session sees it |
| `posts`, `acked`, `forgotten` | history: POSTs sent, 2xx received, POSTs whose record was rolled back |

The row lock is not a variable: it is held from `Claim` to `Commit` or to a
failure, and `Locked` says so. `Claim`, `FindEndpoint`, `Post`,
`DispatchRetry`, `Commit` and `Ack` are separate steps because other processes
may run, and this one may fail, between any two of them. `Recorded` is the
whole of `_post_and_record_delivery`'s effect on the row; the HTTP status, body
and latency columns are left out.

Time is relative: `next_retry_at` and countdowns count down to 0 with `Tick`,
and how long ago a date has passed is not kept. All processes share the clock;
skewed clocks are not modelled. A tick may come at any point of a task.

Failures. `TaskFails` is an exception, or a child process that is killed:
Celery acknowledges the message, so it is gone, and the transaction rolls
back. `WorkerDies` is the loss of a whole worker: with `acks_late` its message
is delivered again. `Redeliver` is the visibility timeout of the Redis
transport. A commit whose acknowledgement is lost is `Commit` followed by a
failure. The broker keeps messages in no order.

`FanOutCommit` creates any set of new rows with distinct endpoints; it does not
ask whether an endpoint is still active, because it may have been deactivated
since it was read. `FanOut` models the reading.

### EventIngest

A request is named by the event it would insert. `pc` follows it through
`insert_event_idempotently_for_tenant` and `ingest_event`. An insert waits for
an open insert of the same tenant and key (`Uncommitted`), as Postgres' unique
index does, and does nothing when that one commits; `SelectExisting` is the
select that follows, under READ COMMITTED (`app/database.py:14`). `Fail` stands
for every exception, lost connection and dead process; after the commit it is
the gap between the two writes that `docs/known-gaps.md` describes under
"Transactional Outbox".

### EndpointTable, Endpoints and FanOut

`Endpoints` has the requests: `Load` reads the row, `Save` and `Delete` commit,
`Refresh` reads it again after the commit, and `Reply` sends the answer. A DELETE
may commit and be answered between these two, so that an answer may show an
endpoint active after the answer of its DELETE; what a request *reads* after the
DELETE shows it inactive, and this is what `DeletedIsSeen` says.
SQLAlchemy updates only the columns whose new value differs from the loaded one
(`Assigned`), so that a stale PATCH cannot write `is_active`. A list of event
types is an opaque set. `FanOut` extends `EndpointTable`, which `Endpoints` is
shown to implement, so that endpoints change under a running fan-out in every
way the API allows. `steady` and `ever` record which endpoints have matched an
event all the time, or at any time, since it came. `DuplicatesExplained` counts
the workers lost on the event in question and the redeliveries of its message;
a task that raises is acknowledged and explains nothing.

Two concurrent PATCH requests that set both fields may leave a row with one
field of each when one of them repeats a value that it had read: its column is
then not part of the UPDATE. No document of the repository promises otherwise,
and no property here says that updates are atomic.

### DeliveryLog

`Begin` and `CommitRows` give the rows of one transaction its start time;
`ReadPage` is one select with the look-ahead row. The cursor is the pair
(created_at, id); its encoding keeps both exactly. Rows of other tenants and
endpoints are never candidates and are left out. A client that asks for no
status may be the load test: it counts the finished rows of its events (`Ours`)
on each page, and at the end of a round it is `Over` or starts `Again`
(`wait_for_deliveries`). `Expected` is the product that it computes before it
waits (`scripts/load_test.py:141`). It is not the number of its rows: there are
more when a fan-out ran twice or an endpoint was added, and the load test may
then stop with rows unfinished; there are fewer when an endpoint is deleted, and
the status `failed` is not counted, so that it waits until its time runs out
(`timeout`). `WaitEndsTruthfully` says what its report is worth in every case.

### Pipeline

`EventIngest`, `FanOut` and `Delivery` each look at the steps inside one task.
`Pipeline` puts them together and keeps what they do to each other:

| Variable | Code |
|---|---|
| `event[e]` | the request: before its commit, between commit and dispatch, answered, or failed in between |
| `row[d]` | `new`: pending without `next_retry_at`; `dated`: pending with one; `settled` |
| `ahead`, `overdue` | whose `next_retry_at` is to come, and whose has passed, in its order |
| `countdown` | rows for which a retry message waits for its time |
| `queue` | the messages on `default` and on `delivery`, first in, first out |
| `task[p]`, `left[p]` | what each process of the worker runs, and what its loop has still to dispatch |

A `deliver_to_endpoint` is the claim (`TakeDelivery`) and the commit after the
answer (`Settle`), or, when the answer is to be retried, the claim, the dispatch
of the retry (`DispatchRetry`) and the commit (`CommitRetry`); the process is
occupied, and its row locked, throughout. A row may be retried any number of
times, because retries that never end are the load under which the other
messages must be served.

The retry's message and its date go their own ways. The message waits in
`countdown` from its dispatch on and may arrive (`Arrive`) while the row is still
locked, and be dropped, before or after the date has passed, or after the date
was rolled back. A date that is set and not committed belongs to the task:
`ahead` and `overdue` hold the process in place of the row until `CommitRetry`
puts the row there, so that a late commit places an earlier date before rows
that are due already. Of the dates only their order is kept; several retry
messages that wait for one row are one. `TaskFails` is a failure at any point,
the commit included: it loses the task's message and rolls back; redelivery is
in the other modules.

### TestReceiver

`receive_webhook` awaits the body before it reads the configuration, and then
changes counter and log without another await: `Handle` is one step between
the arrival of a webhook and its answer. While it sleeps, other webhooks and
updates come in. `outcomes` records which webhooks were failed since
`fail_next_n` was last set. Status codes are `ok` or `error`; the length of the
delay is left out.

## 3. Runs

| Run | Instance | Shows |
|---|---|---|
| `delivery_safety` | 1 row, 2 retries (delays 1, 2), 2 workers, 2 failures, 1 duplicate, recovery, deactivation | the safety properties of `Delivery`; it implements `DeliveryLifecycle` |
| `delivery_liveness` | 2 rows of one endpoint, 1 retry, 1 worker, 1 failure, recovery one row at a time | rows are settled, those tried once also after a failure |
| `delivery_attempts` | 3 retries as in the code | violation: exhausted after four attempts |
| `delivery_stuck` | 1 failure | violation: a row whose first message is lost stays pending |
| `event_ingest` | 3 requests with one key, 1 of another tenant, 1 without a key, 1 failure | one event per key, agreeing answers, the abstract promise; waiting requests end and created events are dispatched |
| `endpoints_safety` | 3 requests, 2 endpoints of 2 tenants, 2 urls, 2 lists | deleted for good, nothing undone, `EndpointTable` implemented |
| `fan_out` | 1 event, 3 executions, 2 endpoints, 3 changes, 1 failure, 1 duplicate | each execution serves exactly the subscribers or nobody, and all are served |
| `fan_out_duplicates` | 2 executions, 1 failure | violation: two rows for one endpoint |
| `delivery_log_pages` | 4 rows, 3 of them the load test's, which expects 2; pages of 2, 2 times | no row twice, none left out; the load test reports only rows that are finished |
| `pipeline` | 2 events with a row each, 2 processes, recovery of 1 row at a time, 1 failure | nothing forgotten; every event served and every due row sent |
| `pipeline_blocked` | 2 events with 2 and 1 rows, 2 processes | violation: both processes post while an event waits |
| `test_receiver` | 4 webhooks, `fail_next_n` up to 2, 3 changes, a log of 2 | exactly the next N fail; the log keeps the newest |

Why these bounds. Every safety property of `Delivery` speaks of one row (rows
meet only in `poll` and in the workers), so one row with two workers has every
conflict over a row; two retries give a first, a middle and a last attempt, and
a delay longer than a tick. Two rows appear where rows compete: for a worker,
and for the recovery's limit. `MaxCopies` caps how many
ready messages the recovery piles up for a row: a further one is a message that
finds the row locked or settled, as the last one does. Three requests with one
key are a winner, a waiter, and a waiter that waits again when the winner rolls
back. Three requests for an endpoint are the POST and a racing PATCH and DELETE.
Three executions of a fan-out are what one failure and one duplicate can make.
Four rows on pages of two make a full last page and ties on either side of a
page's end; three rows of which two are expected are one duplicate, and two rows
that may be settled between the pages that count them. In `pipeline`, two due
rows are more than one recovery selects, so that the order of the select
decides; two processes may both be posting, or one post while the other fans out
or recovers, or take the retry message of a row that the other has not committed
yet. There `MaxCopies` keeps two messages for a row in the queue, one to be
dropped and one more; a further one would come after both. One recovery message
waits at a time, for the same reason. In `test_receiver` four webhooks are two
failures, a recovery and one more; a log of two overflows twice.

Deadlock is checked in every run: no specification stops, since time passes in
`Delivery`, and `AllOver`, `Quiet` and `Done` mark the ends of the others.

### Fairness

`Delivery.FairSpec`: time passes; a task that has started goes on (the POST has
a 10 s timeout and nothing waits for a lock, since locked rows are skipped); a
fan-out finishes its loop; every ready message is taken in the end (strong
fairness, because workers are now and then all busy; a Redis list is first in,
first out); the recovery is scheduled again and again, as `README.md:111` says
and `beat_schedule` asks for. (`docker-compose.yml` starts no beat: under it a
retry whose message is lost stays pending.) Nothing
is assumed of failures, of deactivation, or of what the receiver answers:
`Post(w, TRUE)` and `Post(w, FALSE)` are one step to the scheduler.
`EventIngest.FairSpec` and `FanOut.FairSpec` say that a request or a task that
has started goes on, and that messages are received in the end.
`Pipeline.FairSpec` adds that dates pass and countdowns end, independently of
each other, that the beat ticks, and that each queue is served
again and again when processes fall idle: Celery's Redis transport takes its
queues in turn (round robin). That is strong fairness for each queue, not for
each message: within a queue the order is first in, first out, and this is what
serves them all. A request may fail before it dispatches, and nothing says
whether an attempt succeeds.

### What the runs found

1. `README.md:110` says a row is exhausted after three attempts. The code gives
   up when the attempts exceed the three delays: four attempts.
2. `docs/known-gaps.md:5` says stuck work can be recovered. The recovery selects
   only rows with a `next_retry_at`, which a row has after its first recorded
   attempt; one whose first message is lost is never found.
3. `README.md:108` says fan-out inserts one row per endpoint. A task delivered
   again after its commit inserts the rows a second time.
4. `README.md:113` says a backlog on `delivery` never blocks the queue
   `default`. `docker-compose.yml:41` starts one worker for both queues, and slow
   POSTs may occupy all its processes while an event waits. `EventuallyTried`
   shows what does hold: the event is served in the end.

## 4. Proofs

Every safety property, action property and refinement that a run checks is also
a theorem, for any number of rows, endpoints, workers, processes, requests and
failures, any page size and batch size, and any table of delays.

The theorems rest on the named assumptions of the modules, which TLC evaluates
in every run. They say that bounds are natural numbers, that sizes and delays
are positive, that `Null` and the name of the recovery task are not among the
values they are told apart from, that processes are not rows, that ids of rows
are numbers, and that what a theorem counts is finite: the rows of the log and
the executions of a fan-out.

In each module the properties are consequences of one inductive invariant,
`IInv`; the lemmas say how each action keeps it.

**`Delivery`** (`DeliveryProofs`, `DeliveryCounting`). None of the properties is
inductive alone: that two workers never hold a row needs to know where each
worker is; that `success` tells the truth needs to know what a worker that is
about to commit has in its session. `IInv` therefore says, for each worker and
each point of its task, how `mem[w]` relates to the row it locks: equal to it
and runnable before the POST, one recorded attempt ahead after it, or given up
because the endpoint is inactive. With it: `InvariantHolds`, `TypeCorrect`,
`OneSenderAlways`, `SettledTruthfullyAlways`; `LifecycleImplemented` (initial
states map to initial states, each step to a step or a stutter of
`DeliveryLifecycle`); and the action properties `BackoffAlwaysRespected` and
`DeactivationAlwaysQuiesces`. `DeliveryCounting` adds what the history counters
need on top of it: `PostsAlwaysAccounted`, `AcceptedOnceAlways`,
`NeverStrandedAlways`; and, from the first of them, `PostsAlwaysBounded`: a
receiver hears of a delivery at most 1 + `len(RETRY_DELAYS_SECONDS)` times, and
once more for each failure, however many messages name the row.

**`EventIngest`** (`EventIngestProofs`). The stored events and the open inserts
have different keys, a conflict has its event, and a request knows of its answer
what the table says. From it `IngestTypeCorrect`, `OneEventPerKeyAlways`,
`AnswersAlwaysAgree`, `ConflictAlwaysExplained`, `AlwaysDispatchedOnce` and
`PromiseImplemented`.

**`Endpoints`** (`EndpointsProofs`). A stale PATCH is harmless because SQLAlchemy
writes only the columns that it changed. `Kept` is what that amounts to: a column
that one update alone asks for still has, until this update is saved, the value it
has read, and from then on the value it gave, whatever the other requests read
and write in between. `FreshIds` keeps inserts off rows that are there. From
them `EndpointsTypeCorrect`, `DisjointUpdatesAlwaysKept`, `DeletedAlwaysSeen`
and `TableImplemented`.

**`FanOut`** (`FanOutProofs`). `Tracked` puts the endpoints that match now between
those that have matched all the time and those that ever have; a run that reads
the endpoints inherits both bounds, `BeforeCommit` carries them to the commit,
and `Loop` says that what a run has still to dispatch is stored and not sent.
From them `FanOutTypeCorrect`, `FanOutAlwaysFaithful` and `SentIsAlwaysStored`.
`Paid` is a second invariant, and an equality: the messages and the executions of
an event are one, plus one for each worker lost on it and each redelivery of its
own. It bounds the rows of a subscriber, `DuplicatesAlwaysExplained`.

**`DeliveryLog`** (`DeliveryLogProofs`). `BeforeOrder` proves that (created_at,
id) orders the rows totally; without the id ties would break the cursor.
`Behind` and `Steady` divide the rows at the cursor: those shown are not after
it, steady rows that are not shown are. `More` is why a cursor is followed by
a page that is not empty. A page is the first rows of a set that may have any
size, so the proofs need that such a set has a least row (`LeastNumber`): that
comes from the well-foundedness of strict inclusion of finite sets, which the
library proves. `CountTrue` relates the load test's count to rows shown and
finished, whatever it expects. From them `LogTypeCorrect`, `AlwaysShownOnce`,
`ScanAlwaysComplete`, `WaitAlwaysEndsTruthfully` and `CursorAlwaysLeadsOn`.

**`Pipeline`** (`PipelineProofs`). `NothingForgotten` looks like bookkeeping, and
is not inductive: a fan-out that commits would overwrite rows already tried if
its event had a second message, and a message that is dropped because its row is
locked is only superfluous if the process that holds it really brings it on.
`SentOnce` says that an event has one message or one task, and no rows until
that task commits; `OneHolder` that a row is held by one process, from its claim
through the dispatch of its retry to its commit, and has no date or one that has
passed meanwhile; `Loops` that only a loop has rows to dispatch, so that no other
task forgets any; `Orders` that the queue `default` and the passed dates hold
nothing twice. From them `PipelineTypeCorrect`, whose point is that a date which
changes hands at a commit (`CommitRetryStep`) or goes with its task
(`TaskFailsStep`) leaves each pending row and each task exactly the one it should
have, and `NothingEverForgotten`. A *dated* row is not part of the latter: its
retry message may be dropped while the row is locked, without any failure, and
then only the recovery brings it back, which `OverdueServed` checks.

**`TestReceiver`** (`TestReceiverProofs`). `Counting`: while failures are wanted,
`fail_count` is the number of webhooks since `fail_next_n` was set, and
afterwards at least N have come. `PushFront` says what `appendleft` on a full
log does to each place. From them `ReceiverTypeCorrect`,
`AlwaysFailsThenRecovers` and `LogAlwaysKeepsNewest`.

Only model-checked: liveness (`EventuallySettled`, `RecoveredAfterCrash`,
`EventuallyDispatched`, `EventuallyOver`, `EverySubscriberServed`,
`EventuallyTried`, `OverdueServed`), which rests on fairness and ENABLED and is
out of the prover's reach.

## 5. Not modelled

* Payloads, signatures, HTTP headers and bodies: data that no property here
  tells apart.
* Tenants and authentication: a single insert and a lookup.
* Migrations, configuration, logging, error rendering, health checks.
* Clock skew between workers, and deletion of rows by hand.
* A database connection that is lost while its worker goes on posting: it frees
  the lock, and another worker may claim the row before the first one's commit
  fails. `TaskFails` and `WorkerDies` end the task with its lock.
* Rows whose commit raises every time, for instance because Postgres stores no
  NUL character in `response_body` (`app/services/delivery.py:273`). They stay
  due and are the oldest of every recovery; `batch_size` of them would fill every
  batch and keep it from all others. Failures are bounded here, so that no run
  meets this, and nothing in the code prevents it.
* A Compose setup without a beat: `RecoveredAfterCrash` and `OverdueServed`
  assume that the recovery is scheduled.
* Prefetching: the worker reserves a few messages ahead of its processes, which
  delays them but neither loses nor reorders what one queue holds.
* Of the tools: the dashboard page of the test receiver (it calls the modelled
  handlers and polls the log; what it keeps is which cards are open, by an id
  that `LogKeepsNewest` shows to repeat once the log is full),
  the seed (one transaction per tenant, run by hand on an idle database), the
  demo scripts, and the load test's concurrent POSTs, which are `EventIngest`.

## 6. Plan

Every safety property that the runs check is proved. What could follow:

1. Safety halves of the liveness properties: that a message of the queue
   `default` only moves forward, and what `Delivery` guarantees a row at the
   moment its message is taken.
2. `Pipeline` against the more detailed modules: which of its steps each step
   of `EventIngest` and `FanOut` is.
