------------------------------ MODULE Delivery ------------------------------
(***************************************************************************)
(* Delivering webhooks: the rows of the "delivery" table, the Celery       *)
(* messages that name them, the workers that run deliver_to_endpoint, the  *)
(* fan-out that creates rows and dispatches them, and the periodic         *)
(* recovery that dispatches due rows again.                                *)
(*                                                                         *)
(* A worker holds the row it works on with SELECT ... FOR UPDATE SKIP      *)
(* LOCKED from its claim to its commit or rollback, so the row lock is not *)
(* a variable: it follows from where the workers are (Locked).  Messages   *)
(* are acknowledged late: a task that raises loses its message, a worker   *)
(* that dies has it delivered again, and the broker may deliver a message  *)
(* twice.  Time passes in ticks; next_retry_at and message countdowns are  *)
(* kept relative to now, and how long past due a row is is not kept.       *)
(***************************************************************************)
EXTENDS Naturals, Sequences, FiniteSets

CONSTANTS
  Deliveries,      \* identifiers of delivery rows
  Endpoints,       \* identifiers of endpoints
  EndpointOf,      \* the endpoint a delivery is for
  Workers,         \* worker processes that run deliver_to_endpoint
  Null,            \* SQL NULL, and no job
  RetryDelays,     \* RETRY_DELAYS_SECONDS, in ticks
  MaxDelay,        \* a bound on those delays
  BatchSize,       \* the limit of one recovery select
  MaxAborts,       \* bound: task failures and crashes
  MaxRedeliveries, \* bound: messages the broker delivers twice
  MaxCopies        \* bound: recovery adds no message beyond so many ready ones

ASSUME EndpointAssumption == EndpointOf \in [Deliveries -> Endpoints]
ASSUME NullAssumption == Null \notin Nat /\ Null \notin Deliveries
ASSUME DelayAssumption ==
  MaxDelay \in Nat \ {0} /\ RetryDelays \in Seq(1..MaxDelay)
ASSUME BoundAssumption ==
  /\ BatchSize \in Nat \ {0}
  /\ MaxAborts \in Nat /\ MaxRedeliveries \in Nat /\ MaxCopies \in Nat

VARIABLES
  row,          \* the committed delivery rows
  active,       \* the endpoints whose is_active is true
  toDispatch,   \* rows a fan-out has committed and not dispatched yet
  queue,        \* messages for each delivery, by the ticks left to wait
  poll,         \* rows the recovery has selected and not dispatched yet
  pc,           \* how far each worker has come with its task
  job,          \* the delivery that task names
  mem,          \* the row as the worker's session sees it, uncommitted
  posts,        \* history: POSTs sent for each delivery
  acked,        \* history: 2xx answers received for each delivery
  forgotten,    \* history: POSTs whose record was rolled back
  aborts,       \* how many tasks or processes have failed
  redeliveries  \* how many messages the broker has delivered twice

database == <<row, active>>
broker == <<queue, redeliveries>>
worker == <<pc, job, mem>>
history == <<posts, acked, forgotten>>
vars == <<database, toDispatch, broker, poll, worker, history, aborts>>

-----------------------------------------------------------------------------
(* Rows *)

Settled == {"success", "exhausted", "failed"}
Statuses == {"absent", "pending"} \cup Settled
Timer == (0..MaxDelay) \cup {Null}
Row == [status : Statuses, attempt : 0..(Len(RetryDelays) + 1), dueIn : Timer]

NoRow == [status |-> "absent", attempt |-> 0, dueIn |-> Null]
NewRow == [status |-> "pending", attempt |-> 0, dueIn |-> Null]

\* Mutants: the claim forgets the status, or the rows without a date.
MayRunAnyStatus(r) == r.status # "absent" /\ r.dueIn \in {Null, 0}
MayRunDated(r) == r.status = "pending" /\ r.dueIn = 0
\* Mutant: it forgets the date.
MayRunEarly(r) == r.status = "pending"

\* The condition next_retry_at IS NULL OR next_retry_at <= now.
MayRun(r) == r.status = "pending" /\ r.dueIn \in {Null, 0}

\* Mutant: one retry too few.
RetriesTooFew(r, ok) == ~ok /\ r.attempt + 1 < Len(RetryDelays)

Retries(r, ok) == ~ok /\ r.attempt < Len(RetryDelays)

\* Mutant: next_retry_at is not set with the retry.
RetryAtOld(r) == r.dueIn

RetryAt(r) == RetryDelays[r.attempt + 1]

\* What _post_and_record_delivery leaves in the row after one POST.
Recorded(r, ok) ==
  [status  |-> IF ok THEN "success" ELSE IF Retries(r, ok) THEN "pending" ELSE "exhausted",
   attempt |-> r.attempt + 1,
   dueIn   |-> IF Retries(r, ok) THEN RetryAt(r) ELSE Null]

\* The row lock taken by FOR UPDATE lasts until the transaction ends.
Holding == {"claimed", "posting", "retrying", "committing"}
Holds(w, d) == job[w] = d /\ pc[w] \in Holding
Locked(d) == \E w \in Workers : Holds(w, d)

\* Mutant: the select without FOR UPDATE SKIP LOCKED.
ClaimableUnlocked(d) == MayRun(row[d])

\* The row get_pending_delivery_for_update returns, skipping a locked one.
Claimable(d) == MayRun(row[d]) /\ ~Locked(d)

\* Mutant: the recovery looks for rows whose last attempt failed.
DueFailed == {d \in Deliveries : row[d].status = "failed" /\ row[d].dueIn = 0}

\* The rows list_due_pending_deliveries selects from: locked ones included.
DuePending == {d \in Deliveries : row[d].status = "pending" /\ row[d].dueIn = 0}

-----------------------------------------------------------------------------
(* Messages *)

\* apply_async(countdown = k)
Enqueue(d, k) == queue' = [queue EXCEPT ![d][k] = @ + 1]

InQueue(d) == \E k \in 0..MaxDelay : queue[d][k] > 0

TypeOK ==
  /\ row \in [Deliveries -> Row]
  /\ active \subseteq Endpoints
  /\ toDispatch \subseteq Deliveries
  /\ poll \subseteq Deliveries
  /\ queue \in [Deliveries -> [0..MaxDelay -> Nat]]
  /\ pc \in [Workers -> {"idle", "received", "done"} \cup Holding]
  /\ job \in [Workers -> Deliveries \cup {Null}]
  /\ mem \in [Workers -> Row]
  /\ posts \in [Deliveries -> Nat]
  /\ acked \in [Deliveries -> Nat]
  /\ forgotten \in [Deliveries -> Nat]
  /\ aborts \in 0..MaxAborts
  /\ redeliveries \in 0..MaxRedeliveries

Init ==
  /\ row = [d \in Deliveries |-> NoRow]
  /\ active = Endpoints
  /\ toDispatch = {}
  /\ poll = {}
  /\ queue = [d \in Deliveries |-> [k \in 0..MaxDelay |-> 0]]
  /\ pc = [w \in Workers |-> "idle"]
  /\ job = [w \in Workers |-> Null]
  /\ mem = [w \in Workers |-> NoRow]
  /\ posts = [d \in Deliveries |-> 0]
  /\ acked = [d \in Deliveries |-> 0]
  /\ forgotten = [d \in Deliveries |-> 0]
  /\ aborts = 0
  /\ redeliveries = 0

-----------------------------------------------------------------------------
(* fan_out_event_deliveries *)

\* One event's rows, one for each matching endpoint, in one commit.  Each was
\* active when it was read; by now it may have been deactivated.
FanOutCommit(S) ==
  /\ S # {}
  /\ \A d \in S : row[d].status = "absent"
  /\ \A c, d \in S : EndpointOf[c] = EndpointOf[d] => c = d
  /\ row' = [d \in Deliveries |-> IF d \in S THEN NewRow ELSE row[d]]
  /\ toDispatch' = toDispatch \cup S
  /\ UNCHANGED <<active, broker, poll, worker, history, aborts>>

\* The loop after the session, one message at a time.
FanOutDispatch(d) ==
  /\ d \in toDispatch
  /\ Enqueue(d, 0)
  /\ toDispatch' = toDispatch \ {d}
  /\ UNCHANGED <<database, redeliveries, poll, worker, history, aborts>>

Abort == aborts < MaxAborts /\ aborts' = aborts + 1

\* The task ends inside that loop.  When deliver_event is delivered again it
\* inserts new rows: that is another FanOutCommit.
FanOutDies(S) ==
  /\ S # {} /\ S \subseteq toDispatch
  /\ toDispatch' = toDispatch \ S
  /\ Abort
  /\ UNCHANGED <<database, broker, poll, worker, history>>

-----------------------------------------------------------------------------
(* deliver_to_endpoint *)

Receive(w, d) ==
  /\ pc[w] = "idle"
  /\ queue[d][0] > 0
  /\ queue' = [queue EXCEPT ![d][0] = @ - 1]
  /\ pc' = [pc EXCEPT ![w] = "received"]
  /\ job' = [job EXCEPT ![w] = d]
  /\ UNCHANGED <<database, toDispatch, redeliveries, poll, mem, history, aborts>>

\* A step of a worker's task that moves from one point to another and touches
\* its own session only.
Goto(w, from, to) == pc[w] = from /\ pc' = [pc EXCEPT ![w] = to]

OnlyWorker == UNCHANGED <<database, toDispatch, broker, poll, job, history, aborts>>

\* get_pending_delivery_for_update returns no row: endpoint_delivery_noop.
Skip(w) ==
  /\ Goto(w, "received", "done")
  /\ ~Claimable(job[w])
  /\ UNCHANGED mem
  /\ OnlyWorker

Claim(w) ==
  /\ Goto(w, "received", "claimed")
  /\ Claimable(job[w])
  /\ mem' = [mem EXCEPT ![w] = row[job[w]]]
  /\ OnlyWorker

\* Mutant: is_active is not looked at.
FindAnyEndpoint(w) ==
  /\ Goto(w, "claimed", "posting")
  /\ UNCHANGED mem
  /\ OnlyWorker

\* get_active_endpoint_for_tenant, after the claim and before the POST.
FindEndpoint(w) ==
  /\ Goto(w, "claimed", "posting")
  /\ EndpointOf[job[w]] \in active
  /\ UNCHANGED mem
  /\ OnlyWorker

\* Mutant: the row of a missing endpoint is given up like one out of retries.
CancelExhausted(w) ==
  /\ Goto(w, "claimed", "committing")
  /\ EndpointOf[job[w]] \notin active
  /\ mem' = [mem EXCEPT ![w].status = "exhausted"]
  /\ OnlyWorker

Cancel(w) ==
  /\ Goto(w, "claimed", "committing")
  /\ EndpointOf[job[w]] \notin active
  /\ mem' = [mem EXCEPT ![w].status = "failed"]
  /\ OnlyWorker

\* client.post and the receiver's answer: 2xx, or another code or an exception.
Post(w, ok) ==
  LET d == job[w]
      r == Recorded(mem[w], ok)
  IN  /\ Goto(w, "posting", IF r.status = "pending" THEN "retrying" ELSE "committing")
      /\ mem' = [mem EXCEPT ![w] = r]
      /\ posts' = [posts EXCEPT ![d] = @ + 1]
      /\ acked' = [acked EXCEPT ![d] = IF ok THEN @ + 1 ELSE @]
      /\ UNCHANGED <<database, toDispatch, broker, poll, job, forgotten, aborts>>

\* dispatch_delivery(countdown = delay), before the commit.
DispatchRetry(w) ==
  /\ Goto(w, "retrying", "committing")
  /\ Enqueue(job[w], RetryDelays[mem[w].attempt])
  /\ UNCHANGED <<database, toDispatch, redeliveries, poll, job, mem, history, aborts>>

Commit(w) ==
  /\ Goto(w, "committing", "done")
  /\ row' = [row EXCEPT ![job[w]] = mem[w]]
  /\ UNCHANGED <<active, toDispatch, broker, poll, job, mem, history, aborts>>

\* The task is over, its session closed, and the worker is free again.
Release(w) ==
  /\ pc' = [pc EXCEPT ![w] = "idle"]
  /\ job' = [job EXCEPT ![w] = Null]
  /\ mem' = [mem EXCEPT ![w] = NoRow]

Ack(w) ==
  /\ pc[w] = "done"
  /\ Release(w)
  /\ UNCHANGED <<database, toDispatch, broker, poll, history, aborts>>

-----------------------------------------------------------------------------
(* Failures *)

\* A POST counted in the session and not in the table.
Unsaved(w) == pc[w] \in {"retrying", "committing"} /\ mem[w].attempt > row[job[w]].attempt

\* The transaction of w's task rolls back.
Rollback(w) ==
  /\ Release(w)
  /\ forgotten' = IF Unsaved(w) THEN [forgotten EXCEPT ![job[w]] = @ + 1] ELSE forgotten
  /\ UNCHANGED <<posts, acked>>

\* The task raises, or its child process is killed: the message is acknowledged.
TaskFails(w) ==
  /\ pc[w] \in Holding \cup {"received"}
  /\ Rollback(w)
  /\ Abort
  /\ UNCHANGED <<database, toDispatch, broker, poll>>

\* The whole worker is lost: the broker delivers its message again.
WorkerDies(w) ==
  /\ pc[w] # "idle"
  /\ Enqueue(job[w], 0)
  /\ Rollback(w)
  /\ Abort
  /\ UNCHANGED <<database, toDispatch, redeliveries, poll>>

\* The visibility timeout passes and an unacknowledged message is delivered again.
Redeliver(d) ==
  /\ InQueue(d) \/ \E w \in Workers : job[w] = d
  /\ redeliveries < MaxRedeliveries
  /\ redeliveries' = redeliveries + 1
  /\ Enqueue(d, 0)
  /\ UNCHANGED <<database, toDispatch, poll, worker, history, aborts>>

-----------------------------------------------------------------------------
(* recover_stuck_deliveries *)

PollSelect ==
  /\ poll = {}
  /\ poll' \in SUBSET DuePending
  /\ Cardinality(poll') =
       IF Cardinality(DuePending) < BatchSize THEN Cardinality(DuePending) ELSE BatchSize
  /\ UNCHANGED <<database, toDispatch, broker, worker, history, aborts>>

PollDispatch(d) ==
  /\ d \in poll
  /\ queue[d][0] < MaxCopies
  /\ Enqueue(d, 0)
  /\ poll' = poll \ {d}
  /\ UNCHANGED <<database, toDispatch, redeliveries, worker, history, aborts>>

PollDies ==
  /\ poll # {}
  /\ poll' = {}
  /\ Abort
  /\ UNCHANGED <<database, toDispatch, broker, worker, history>>

-----------------------------------------------------------------------------
(* The rest of the system *)

\* DELETE /endpoints/{id}: nothing makes the endpoint active again.
DeactivateEndpoint(e) ==
  /\ e \in active
  /\ active' = active \ {e}
  /\ UNCHANGED <<row, toDispatch, broker, poll, worker, history, aborts>>

Lapse(t) == IF t \in {Null, 0} THEN t ELSE t - 1

\* Time passes, also while a worker waits for its answer or its commit.
Tick ==
  /\ row' = [d \in Deliveries |-> [row[d] EXCEPT !.dueIn = Lapse(@)]]
  /\ mem' = [w \in Workers |-> [mem[w] EXCEPT !.dueIn = Lapse(@)]]
  /\ queue' = [d \in Deliveries |-> [k \in 0..MaxDelay |->
       (IF k < MaxDelay THEN queue[d][k + 1] ELSE 0) + (IF k = 0 THEN queue[d][0] ELSE 0)]]
  /\ UNCHANGED <<active, toDispatch, poll, pc, job, history, aborts, redeliveries>>

-----------------------------------------------------------------------------

WorkerStep(w) ==
  \/ Skip(w) \/ Claim(w) \/ FindEndpoint(w) \/ Cancel(w)
  \/ \E ok \in BOOLEAN : Post(w, ok)
  \/ DispatchRetry(w) \/ Commit(w) \/ Ack(w)

WorkerAborts(w) == TaskFails(w) \/ WorkerDies(w)

Next ==
  \/ \E S \in SUBSET Deliveries : FanOutCommit(S) \/ FanOutDies(S)
  \/ \E d \in Deliveries : FanOutDispatch(d) \/ Redeliver(d) \/ PollDispatch(d)
  \/ \E w \in Workers, d \in Deliveries : Receive(w, d)
  \/ \E w \in Workers : WorkerStep(w) \/ WorkerAborts(w)
  \/ PollSelect \/ PollDies
  \/ \E e \in Endpoints : DeactivateEndpoint(e)
  \/ Tick

Spec == Init /\ [][Next]_vars

\* Time passes, a task that has started goes on, the broker hands every message
\* out in the end (a Redis list is first in, first out), a fan-out finishes its
\* loop and, when a beat runs, the recovery is scheduled again and again.
Fairness ==
  /\ WF_vars(Tick)
  /\ \A w \in Workers : WF_vars(WorkerStep(w))
  /\ \A d \in Deliveries : SF_vars(\E w \in Workers : Receive(w, d))
  /\ \A d \in Deliveries : WF_vars(FanOutDispatch(d))
  /\ WF_vars(PollSelect)
  /\ \A d \in Deliveries : SF_vars(PollDispatch(d))

FairSpec == Spec /\ Fairness

-----------------------------------------------------------------------------
(* Safety *)

InFlight(d) == \E w \in Workers : Holds(w, d) /\ Unsaved(w)

\* Duplicated messages, recovery and retries never put two workers on one row:
\* SKIP LOCKED gives every row to one task at a time.
OneSender ==
  \A d \in Deliveries, v, w \in Workers : Holds(v, d) /\ Holds(w, d) => v = w

\* attempt_number counts the POSTs exactly: each one is in the table, in the
\* session of the one worker that is about to commit it, or was rolled back.
\* No update is lost and no duplicate message sends a POST that is not counted.
PostsAccounted ==
  \A d \in Deliveries :
    posts[d] = row[d].attempt + forgotten[d] + IF InFlight(d) THEN 1 ELSE 0

\* A 2xx answer that is in the table, or about to be.
Answered(d) ==
  \/ row[d].status = "success"
  \/ \E w \in Workers : Holds(w, d) /\ mem[w].status = "success"

\* A receiver that has answered 2xx hears of this delivery at most once more for
\* each POST that was rolled back: retries, recovery and duplicates do not resend
\* it.  forgotten counts those that were not answered 2xx as well.
AcceptedOnce ==
  \A d \in Deliveries : acked[d] <= forgotten[d] + IF Answered(d) THEN 1 ELSE 0

\* A final status tells the truth: "success" was answered 2xx, "exhausted" has
\* used every retry, "failed" is only left by an endpoint that was deactivated.
SettledTruthfully ==
  \A d \in Deliveries :
    /\ row[d].status = "success" => acked[d] > 0
    /\ row[d].status = "exhausted" => row[d].attempt = Len(RetryDelays) + 1
    /\ row[d].status = "failed" => EndpointOf[d] \notin active

Handled(d) == \E w \in Workers : job[w] = d /\ pc[w] \in Holding \cup {"received"}

\* Nothing pending is out of reach: a row that was tried once carries a date, so
\* that the recovery finds it, and a row that carries none still has its
\* dispatch ahead, a message, or a worker, as long as no task has failed.
NeverStranded ==
  \A d \in Deliveries :
    row[d].status = "pending" /\ row[d].dueIn = Null =>
      /\ row[d].attempt = 0
      /\ aborts = 0 => d \in toDispatch \/ InQueue(d) \/ Handled(d)

Posting(d) == \E w \in Workers : job[w] = d /\ pc[w] = "posting"

\* After an endpoint is deactivated at most one POST still goes out for each
\* delivery: that of a worker that had already read the endpoint as active.
DeactivationQuiesces ==
  [][\A d \in Deliveries : EndpointOf[d] \notin active =>
       /\ posts'[d] # posts[d] => Posting(d) /\ ~Posting(d)'
       /\ Posting(d)' => Posting(d)]_vars

\* No POST goes out before its date, whatever message asks for it: a duplicate,
\* a retry, the recovery or a redelivery after a crash.
BackoffRespected ==
  [][\A d \in Deliveries : posts'[d] # posts[d] =>
       row[d].status = "pending" /\ row[d].dueIn \in {Null, 0}]_vars

\* Every row lives the life its abstract specification allows.
Lifecycle == INSTANCE DeliveryLifecycle WITH
  MaxAttempts <- Len(RetryDelays) + 1,
  status <- [d \in Deliveries |-> row[d].status],
  attempt <- [d \in Deliveries |-> row[d].attempt],
  accepted <- {d \in Deliveries : acked[d] > 0}

ImplementsLifecycle == Lifecycle!Spec

-----------------------------------------------------------------------------
(* Liveness *)

\* Without failures every row reaches a final status.
EventuallySettled ==
  \A d \in Deliveries :
    row[d].status = "pending" ~> row[d].status \in Settled \/ aborts > 0

\* With failures, every row that was tried once does.
RecoveredAfterCrash ==
  \A d \in Deliveries :
    row[d].status = "pending" /\ row[d].dueIn # Null ~> row[d].status \in Settled

-----------------------------------------------------------------------------
(* What the documentation says *)

\* README, "After three attempts the row is marked exhausted".
ExhaustedAfterThree ==
  \A d \in Deliveries : row[d].status = "exhausted" => row[d].attempt = 3

\* docs/known-gaps.md, "stuck work can be recovered".
StuckWorkRecovered ==
  \A d \in Deliveries : row[d].status = "pending" ~> row[d].status \in Settled
=============================================================================
