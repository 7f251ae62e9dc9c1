------------------------------ MODULE Pipeline ------------------------------
(***************************************************************************)
(* The whole way of an event.  POST /events/ commits it and sends          *)
(* deliver_event on the queue "default"; the rows of its subscribers are   *)
(* committed and sent on the queue "delivery"; the message of a retry      *)
(* waits out a countdown, and a beat sends recover_stuck_deliveries on     *)
(* "default".  One pool of processes takes the messages of both queues.    *)
(*                                                                         *)
(* This module is about what the parts do to each other: who waits for     *)
(* whom, and in which order.  The steps inside one task, its redelivery    *)
(* and the number of its attempts are in EventIngest, FanOut and Delivery; *)
(* here a refused POST may be retried any number of times, so that rows    *)
(* fall due for ever.                                                      *)
(*                                                                         *)
(* A retry sends its message before it commits its date.  The message is   *)
(* not tied to that date: it may arrive while the row is still locked, or  *)
(* after the date was rolled back.  Of the dates only their order is kept; *)
(* a date that a task has set and not committed stands under the process.  *)
(***************************************************************************)
EXTENDS Naturals, Sequences, FiniteSets

CONSTANTS
  Events,      \* events
  Deliveries,  \* delivery rows, while they are only ids too
  EventOf,     \* the event of a row
  Processes,   \* the processes of the worker
  Null,        \* no argument
  BatchSize,   \* the limit of one recovery select
  MaxCopies,   \* bound: no more messages for one row are kept in its queue
  MaxAborts    \* bound: requests and tasks that fail

Recover == "recover_stuck_deliveries"

ASSUME EventAssumption == EventOf \in [Deliveries -> Events] /\ Recover \notin Events
ASSUME ProcessAssumption == Processes \cap Deliveries = {}
ASSUME BoundAssumption == BatchSize \in Nat /\ MaxCopies \in Nat \ {0} /\ MaxAborts \in Nat

VARIABLES
  event,     \* how far the request that brings each event has come
  row,       \* the committed rows
  ahead,     \* the rows, and the tasks, whose next_retry_at is to come
  overdue,   \* those whose next_retry_at has passed, oldest first
  countdown, \* the rows that a retry message waits for
  queue,     \* the messages of both queues, first in, first out
  task,      \* the task each process runs
  left,      \* the rows its loop has still to dispatch
  aborts     \* how many requests and tasks have failed

dates == <<ahead, overdue>>
pool == <<task, left>>
vars == <<event, row, dates, countdown, queue, pool, aborts>>

RowsOf(e) == {d \in Deliveries : EventOf[d] = e}
Idle == [name |-> "idle", on |-> Null]
Elements(s) == {s[i] : i \in DOMAIN s}

\* deliver_to_endpoint holds the lock of its row from its claim to the commit.
Holding == {"deliver_to_endpoint", "committing"}
Locked(d) == \E p \in Processes : task[p].name \in Holding /\ task[p].on = d
Due(d) == d \in Elements(overdue)

\* A row is "new" when it is pending without a date, and "dated" with one.
TypeOK ==
  /\ event \in [Events -> {"new", "stored", "accepted", "unsent"}]
  /\ row \in [Deliveries -> {"absent", "new", "dated", "settled"}]
  /\ Elements(overdue) \cap ahead = {} /\ Len(overdue) = Cardinality(Elements(overdue))
  /\ Elements(overdue) \cup ahead =
       {d \in Deliveries : row[d] = "dated"} \cup {p \in Processes : task[p].name = "committing"}
  /\ countdown \subseteq Deliveries
  /\ Elements(queue.default) \subseteq Events \cup {Recover}
  /\ Elements(queue.delivery) \subseteq Deliveries
  /\ task \in [Processes ->
       [name : {"idle", "dispatching"}, on : {Null}]
       \cup [name : {"deliver_event"}, on : Events]
       \cup [name : Holding, on : Deliveries]]
  /\ left \in [Processes -> SUBSET Deliveries]
  /\ aborts \in 0..MaxAborts

Init ==
  /\ event = [e \in Events |-> "new"]
  /\ row = [d \in Deliveries |-> "absent"]
  /\ ahead = {}
  /\ overdue = <<>>
  /\ countdown = {}
  /\ queue = [default |-> <<>>, delivery |-> <<>>]
  /\ task = [p \in Processes |-> Idle]
  /\ left = [p \in Processes |-> {}]
  /\ aborts = 0

Copies(d) == Cardinality({i \in DOMAIN queue.delivery : queue.delivery[i] = d})
SendEvent(m) == queue' = [queue EXCEPT !.default = Append(@, m)]
SendDelivery(d) ==
  queue' = [queue EXCEPT !.delivery = IF Copies(d) < MaxCopies THEN Append(@, d) ELSE @]
Take(name) == queue' = [queue EXCEPT ![name] = Tail(@)]
Run(p, name, arg) == task' = [task EXCEPT ![p] = [name |-> name, on |-> arg]]
Abort == aborts < MaxAborts /\ aborts' = aborts + 1

-----------------------------------------------------------------------------
(* The API and the beat *)

\* ingest_event up to its commit.
Store(e) ==
  /\ event[e] = "new"
  /\ event' = [event EXCEPT ![e] = "stored"]
  /\ UNCHANGED <<row, dates, countdown, queue, pool, aborts>>

\* deliver_event.apply_async, then the answer 202.
Accept(e) ==
  /\ event[e] = "stored"
  /\ event' = [event EXCEPT ![e] = "accepted"]
  /\ SendEvent(e)
  /\ UNCHANGED <<row, dates, countdown, pool, aborts>>

\* The request fails in between: the event is stored and nothing is sent.
RequestFails(e) ==
  /\ event[e] = "stored"
  /\ event' = [event EXCEPT ![e] = "unsent"]
  /\ Abort
  /\ UNCHANGED <<row, dates, countdown, queue, pool>>

\* Bound: one recovery waits at a time, a second would select the same rows.
Beat ==
  /\ Recover \notin Elements(queue.default)
  /\ SendEvent(Recover)
  /\ UNCHANGED <<event, row, dates, countdown, pool, aborts>>

\* next_retry_at passes, of a row or of what a task is about to commit.
DatePasses(x) ==
  /\ x \in ahead
  /\ ahead' = ahead \ {x}
  /\ overdue' = Append(overdue, x)
  /\ UNCHANGED <<event, row, countdown, queue, pool, aborts>>

\* The countdown of a retry message ends.
Arrive(d) ==
  /\ d \in countdown
  /\ countdown' = countdown \ {d}
  /\ SendDelivery(d)
  /\ UNCHANGED <<event, row, dates, pool, aborts>>

-----------------------------------------------------------------------------
(* Taking a message *)

\* Mutant: the queue "delivery" goes first.
EventWaitsLast ==
  queue.delivery = <<>> /\ queue.default # <<>> /\ Head(queue.default) # Recover
EventWaits == queue.default # <<>> /\ Head(queue.default) # Recover

TakeEvent(p) ==
  /\ task[p] = Idle /\ EventWaits
  /\ Take("default")
  /\ Run(p, "deliver_event", Head(queue.default))
  /\ UNCHANGED <<event, row, dates, countdown, left, aborts>>

Rows(s) == {i \in DOMAIN s : s[i] \in Deliveries}

\* Mutant: ORDER BY next_retry_at DESC.
NewestFirst ==
  {overdue[i] : i \in {j \in Rows(overdue) :
     Cardinality({k \in Rows(overdue) : k > j}) < BatchSize}}

\* ORDER BY next_retry_at ASC LIMIT batch_size, among the committed dates.
Stuck ==
  {overdue[i] : i \in {j \in Rows(overdue) :
     Cardinality({k \in Rows(overdue) : k < j}) < BatchSize}}

\* recover_stuck_deliveries, up to the select.
TakeRecover(p) ==
  /\ task[p] = Idle
  /\ queue.default # <<>> /\ Head(queue.default) = Recover
  /\ Take("default")
  /\ Run(p, "dispatching", Null)
  /\ left' = [left EXCEPT ![p] = Stuck]
  /\ UNCHANGED <<event, row, dates, countdown, aborts>>

\* Mutant: next_retry_at IS NULL is not accepted.
ClaimableDated(d) == Due(d) /\ ~Locked(d)

\* get_pending_delivery_for_update: pending, due or without a date, not locked.
Claimable(d) == (row[d] = "new" \/ Due(d)) /\ ~Locked(d)

\* deliver_to_endpoint: it claims its row and posts, or has nothing to do.
TakeDelivery(p) ==
  /\ task[p] = Idle
  /\ queue.delivery # <<>>
  /\ Take("delivery")
  /\ LET d == Head(queue.delivery)
     IN  IF Claimable(d) THEN Run(p, "deliver_to_endpoint", d) ELSE UNCHANGED task
  /\ UNCHANGED <<event, row, dates, countdown, left, aborts>>

-----------------------------------------------------------------------------
(* Running it *)

\* fan_out_event_deliveries, up to the commit of the rows.
FanOut(p) ==
  /\ task[p].name = "deliver_event"
  /\ row' = [d \in Deliveries |-> IF d \in RowsOf(task[p].on) THEN "new" ELSE row[d]]
  /\ left' = [left EXCEPT ![p] = RowsOf(task[p].on)]
  /\ Run(p, "dispatching", Null)
  /\ UNCHANGED <<event, dates, countdown, queue, aborts>>

\* The loop over dispatch_delivery that ends a fan-out and a recovery.
Dispatch(p, d) ==
  /\ d \in left[p]
  /\ SendDelivery(d)
  /\ left' = [left EXCEPT ![p] = @ \ {d}]
  /\ UNCHANGED <<event, row, dates, countdown, task, aborts>>

EndLoop(p) ==
  /\ task[p].name = "dispatching" /\ left[p] = {}
  /\ Run(p, "idle", Null)
  /\ UNCHANGED <<event, row, dates, countdown, queue, left, aborts>>

\* Mutant: the row keeps its old next_retry_at.
WithoutNone(x) == overdue

\* The passed dates without that of x.
Without(x) ==
  IF x \notin Elements(overdue) THEN overdue
  ELSE LET i == CHOOSE j \in DOMAIN overdue : overdue[j] = x
       IN  SubSeq(overdue, 1, i - 1) \o SubSeq(overdue, i + 1, Len(overdue))

\* 2xx or retries used up: the commit clears the date.  The date of a row whose
\* endpoint is gone stays, but nothing reads it, as the row is not pending.
Settle(p) ==
  LET d == task[p].on
  IN  /\ task[p].name = "deliver_to_endpoint"
      /\ row' = [row EXCEPT ![d] = "settled"]
      /\ overdue' = Without(d)
      /\ Run(p, "idle", Null)
      /\ UNCHANGED <<event, ahead, countdown, queue, left, aborts>>

\* Another code, or an exception: next_retry_at is set in the session and the
\* retry is dispatched with its countdown, before the commit.  Bound: of several
\* retry messages that wait for one row, one is kept.
DispatchRetry(p) ==
  /\ task[p].name = "deliver_to_endpoint"
  /\ ahead' = ahead \cup {p}
  /\ countdown' = countdown \cup {task[p].on}
  /\ Run(p, "committing", task[p].on)
  /\ UNCHANGED <<event, row, overdue, queue, left, aborts>>

\* session.commit(): the date that p has set, which may have passed by now,
\* becomes that of the row, in the place of the old one.
CommitRetry(p) ==
  LET d == task[p].on
      Named(x) == IF x = p THEN d ELSE x
  IN  /\ task[p].name = "committing"
      /\ row' = [row EXCEPT ![d] = "dated"]
      /\ ahead' = {Named(x) : x \in ahead}
      /\ overdue' = [i \in DOMAIN Without(d) |-> Named(Without(d)[i])]
      /\ Run(p, "idle", Null)
      /\ UNCHANGED <<event, countdown, queue, left, aborts>>

\* A task raises, also at its commit, or its process is killed: its message is
\* acknowledged and its transaction rolled back, with the date it has set.
TaskFails(p) ==
  /\ task[p] # Idle
  /\ Run(p, "idle", Null)
  /\ ahead' = ahead \ {p}
  /\ overdue' = Without(p)
  /\ left' = [left EXCEPT ![p] = {}]
  /\ Abort
  /\ UNCHANGED <<event, row, countdown, queue>>

-----------------------------------------------------------------------------

Work(p) ==
  \/ FanOut(p) \/ (\E d \in Deliveries : Dispatch(p, d)) \/ EndLoop(p)
  \/ Settle(p) \/ DispatchRetry(p) \/ CommitRetry(p)

TakeDefault(p) == TakeEvent(p) \/ TakeRecover(p)

Next ==
  \/ \E e \in Events : Store(e) \/ Accept(e) \/ RequestFails(e)
  \/ Beat
  \/ \E x \in Deliveries \cup Processes : DatePasses(x)
  \/ \E d \in Deliveries : Arrive(d)
  \/ \E p \in Processes :
       TakeDefault(p) \/ TakeDelivery(p) \/ Work(p) \/ TaskFails(p)

Spec == Init /\ [][Next]_vars

\* A request and a task that have started go on, dates pass, countdowns end, and
\* the beat ticks.
\* Each queue is served again and again when processes fall idle, because the
\* worker reads its queues in turn; that is strong fairness, since a process
\* that is idle may take from the other queue and be busy.
FairSpec ==
  /\ Spec
  /\ WF_vars(Beat)
  /\ \A e \in Events : WF_vars(Accept(e))
  /\ \A x \in Deliveries \cup Processes : WF_vars(DatePasses(x))
  /\ \A d \in Deliveries : WF_vars(Arrive(d))
  /\ \A p \in Processes : WF_vars(Work(p))
  /\ SF_vars(\E p \in Processes : TakeDefault(p))
  /\ SF_vars(\E p \in Processes : TakeDelivery(p))

-----------------------------------------------------------------------------

\* Until something fails, nothing the recovery could not find is lost between the
\* queues, the tasks and the table: an accepted event has a message, a task or its
\* rows, and a row without a date has a message, a task that posts it or one that
\* is about to send it, although messages of locked rows are dropped.
NothingForgotten ==
  aborts = 0 =>
    /\ \A e \in Events : event[e] = "accepted" =>
         \/ e \in Elements(queue.default)
         \/ \E p \in Processes : task[p] = [name |-> "deliver_event", on |-> e]
         \/ \A d \in RowsOf(e) : row[d] # "absent"
    /\ \A d \in Deliveries : row[d] = "new" =>
         \/ d \in Elements(queue.delivery) \/ Locked(d)
         \/ \E p \in Processes : d \in left[p]

\* However long deliveries are posted and retried, the pool comes round to every
\* stored event and to the first POST of each of its rows, unless something
\* fails on the way.
EventuallyTried ==
  \A e \in Events : event[e] = "stored" ~>
    aborts > 0 \/ \A d \in RowsOf(e) : row[d] \notin {"absent", "new"}

\* A row that is due is posted in the end, also when its retry message came too
\* early, while it was locked, or is lost, and more rows fall due again and again
\* than one recovery selects: the oldest come first.
OverdueServed == \A d \in Deliveries : Due(d) ~> Locked(d)

\* README, "a backlog of slow outbound HTTP calls on the delivery queue never
\* blocks event ingestion via the default queue": while an event waits, not
\* every process is posting.
FanOutNeverBlocked ==
  Elements(queue.default) \cap Events # {} =>
    \E p \in Processes : task[p].name \notin Holding
=============================================================================
