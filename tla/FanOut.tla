------------------------------- MODULE FanOut -------------------------------
(***************************************************************************)
(* deliver_event: a message that names a stored event is received, the     *)
(* matching endpoints are read, one row for each is inserted and committed *)
(* in one transaction, and the rows are then dispatched one by one.  The   *)
(* message is acknowledged late, so that it may be delivered again after a *)
(* commit; endpoints change meanwhile.                                     *)
(*                                                                         *)
(* A run is one execution of the task; the row it inserts for an endpoint  *)
(* is named by the two.                                                    *)
(***************************************************************************)
EXTENDS EndpointTable, FiniteSets

CONSTANTS
  Events,          \* events
  TypeOf,          \* the type of an event
  Runs,            \* bound: executions of deliver_event
  MaxAborts,       \* bound: failed tasks and lost workers
  MaxRedeliveries, \* bound: how often the broker delivers an event's message again
  MaxChanges       \* bound: changes of the endpoint table

ASSUME EventAssumption == Null \notin Events
ASSUME BoundAssumption ==
  IsFiniteSet(Runs) /\ {MaxAborts, MaxRedeliveries, MaxChanges} \subseteq Nat

VARIABLES
  event,        \* the committed events
  queue,        \* deliver_event messages of each event
  pc,           \* how far each run has come
  job,          \* its event
  found,        \* the endpoints it has read
  toDispatch,   \* those whose rows it has not dispatched yet
  rows,         \* the committed rows, <<run, endpoint>>
  sent,         \* how many deliver_to_endpoint messages name each row
  steady,       \* history: the endpoints that have matched since the event came
  ever,         \* history: those that have matched at any time since
  aborts,       \* how many tasks or workers have failed
  redeliveries, \* how often the broker has delivered each event's message again
  changes       \* how often the endpoint table has changed

table == <<endpoint, event, steady, ever, changes>>
run == <<pc, job, found, toDispatch>>
output == <<rows, sent>>
vars == <<table, queue, run, output, aborts, redeliveries>>

Open == {"received", "found", "dispatching"}

TypeOK ==
  /\ TableOK
  /\ event \subseteq Events
  /\ queue \in [Events -> Nat]
  /\ pc \in [Runs -> {"unused", "done", "failed", "lost"} \cup Open]
  /\ job \in [Runs -> Events \cup {Null}]
  /\ found \in [Runs -> SUBSET Endpoints]
  /\ toDispatch \in [Runs -> SUBSET Endpoints]
  /\ rows \subseteq Runs \X Endpoints
  /\ sent \in [Runs \X Endpoints -> 0..1]
  /\ steady \in [Events -> SUBSET Endpoints]
  /\ ever \in [Events -> SUBSET Endpoints]
  /\ aborts \in 0..MaxAborts
  /\ redeliveries \in [Events -> 0..MaxRedeliveries]
  /\ changes \in 0..MaxChanges

Init ==
  /\ TableInit
  /\ event = {}
  /\ queue = [e \in Events |-> 0]
  /\ pc = [r \in Runs |-> "unused"]
  /\ job = [r \in Runs |-> Null]
  /\ found = [r \in Runs |-> {}]
  /\ toDispatch = [r \in Runs |-> {}]
  /\ rows = {}
  /\ sent = [d \in Runs \X Endpoints |-> 0]
  /\ steady = [e \in Events |-> {}]
  /\ ever = [e \in Events |-> {}]
  /\ aborts = 0
  /\ redeliveries = [e \in Events |-> 0]
  /\ changes = 0

\* Requests to the endpoint API.
ChangeEndpoint ==
  /\ changes < MaxChanges
  /\ changes' = changes + 1
  /\ TableNext
  /\ steady' = [e \in Events |-> steady[e] \cap Matching(TypeOf[e])']
  /\ ever' = [e \in Events |->
       ever[e] \cup IF e \in event THEN Matching(TypeOf[e])' ELSE {}]
  /\ UNCHANGED <<event, queue, run, output, aborts, redeliveries>>

\* POST /events/: the event is committed and its task dispatched.
Ingest(e) ==
  /\ e \notin event
  /\ event' = event \cup {e}
  /\ queue' = [queue EXCEPT ![e] = 1]
  /\ steady' = [steady EXCEPT ![e] = Matching(TypeOf[e])]
  /\ ever' = [ever EXCEPT ![e] = Matching(TypeOf[e])]
  /\ UNCHANGED <<endpoint, changes, run, output, aborts, redeliveries>>

\* Mutant: the message is not acknowledged.
TakenUnacked(e) == UNCHANGED queue

Taken(e) == queue' = [queue EXCEPT ![e] = @ - 1]

\* A worker takes a message off the default queue.
Receive(r, e) ==
  /\ pc[r] = "unused" /\ queue[e] > 0
  /\ Taken(e)
  /\ pc' = [pc EXCEPT ![r] = "received"]
  /\ job' = [job EXCEPT ![r] = e]
  /\ UNCHANGED <<table, found, toDispatch, output, aborts, redeliveries>>

Goto(r, from, to) == pc[r] = from /\ pc' = [pc EXCEPT ![r] = to]

\* Mutant: is_active is not looked at.
SubscribersDeleted(e) ==
  {p \in Endpoints : endpoint[p] # Null /\ TypeOf[e] \in endpoint[p].event_types}

\* list_active_matching_endpoints_for_tenant
Subscribers(e) == Matching(TypeOf[e])

\* get_event_for_tenant, and the endpoints.  The event is there: it was
\* committed before its message was sent.
Find(r) ==
  /\ Goto(r, "received", "found")
  /\ found' = [found EXCEPT ![r] = Subscribers(job[r])]
  /\ UNCHANGED <<table, queue, job, toDispatch, output, aborts, redeliveries>>

\* The rows of all endpoints, and session.commit().
Commit(r) ==
  /\ Goto(r, "found", "dispatching")
  /\ rows' = rows \cup ({r} \X found[r])
  /\ toDispatch' = [toDispatch EXCEPT ![r] = found[r]]
  /\ UNCHANGED <<table, queue, job, found, sent, aborts, redeliveries>>

\* Mutant: the loop may run before the commit.
ReadyEarly(r, p) ==
  pc[r] \in {"found", "dispatching"} /\ p \in found[r] /\ sent[<<r, p>>] = 0
\* Mutant: the loop begins anew with each row.
ReadyAgain(r, p) == pc[r] = "dispatching" /\ p \in found[r]

\* p's row is next in the loop after the session.
Ready(r, p) == p \in toDispatch[r]

\* Mutant: the loop ends after one row.
LeftNone(r, p) == {}
Left(r, p) == toDispatch[r] \ {p}

\* dispatch_delivery
Dispatch(r, p) ==
  /\ Ready(r, p)
  /\ sent' = [sent EXCEPT ![<<r, p>>] = @ + 1]
  /\ toDispatch' = [toDispatch EXCEPT ![r] = Left(r, p)]
  /\ UNCHANGED <<table, queue, pc, job, found, rows, aborts, redeliveries>>

\* The task returns and its message is acknowledged.
Finish(r) ==
  /\ Goto(r, "dispatching", "done")
  /\ toDispatch[r] = {}
  /\ UNCHANGED <<table, queue, job, found, toDispatch, output, aborts, redeliveries>>

Abort(r, end) ==
  /\ pc[r] \in Open
  /\ pc' = [pc EXCEPT ![r] = end]
  /\ toDispatch' = [toDispatch EXCEPT ![r] = {}]
  /\ aborts < MaxAborts
  /\ aborts' = aborts + 1
  /\ UNCHANGED <<table, job, found, output, redeliveries>>

Requeue(e) == queue' = [queue EXCEPT ![e] = @ + 1]

\* The task raises, or its child process is killed: the message is acknowledged.
TaskFails(r) == Abort(r, "failed") /\ UNCHANGED queue

\* The whole worker is lost: its message is delivered again.
WorkerDies(r) == Abort(r, "lost") /\ Requeue(job[r])

\* The visibility timeout passes while the message is not acknowledged.
Redeliver(r) ==
  /\ pc[r] \in Open
  /\ redeliveries[job[r]] < MaxRedeliveries
  /\ redeliveries' = [redeliveries EXCEPT ![job[r]] = @ + 1]
  /\ Requeue(job[r])
  /\ UNCHANGED <<table, run, output, aborts>>

Step(r) == Find(r) \/ Commit(r) \/ (\E p \in Endpoints : Dispatch(r, p)) \/ Finish(r)

\* Nothing is left to do, or the runs are used up.
Quiet == (\A r \in Runs : pc[r] \notin Open) /\ UNCHANGED vars

Next ==
  \/ ChangeEndpoint
  \/ \E e \in Events : Ingest(e)
  \/ \E r \in Runs, e \in Events : Receive(r, e)
  \/ \E r \in Runs : Step(r) \/ TaskFails(r) \/ WorkerDies(r) \/ Redeliver(r)
  \/ Quiet

Spec == Init /\ [][Next]_vars

\* A run goes on, and every message is received in the end.
FairSpec ==
  /\ Spec
  /\ \A r \in Runs : WF_vars(Step(r))
  /\ \A e \in Events : SF_vars(\E r \in Runs : Receive(r, e))

-----------------------------------------------------------------------------

RowsOf(r) == {p \in Endpoints : <<r, p>> \in rows}

\* Whatever happens to the endpoints and to the task meanwhile, a run that has
\* come to its commit, or has left any row, has one for every endpoint that has
\* matched all the time since the event came, and none for one that has never
\* matched since: the rows of a run appear together or not at all.
FaithfulFanOut ==
  \A r \in Runs : pc[r] \in {"dispatching", "done"} \/ RowsOf(r) # {} =>
    steady[job[r]] \subseteq RowsOf(r) /\ RowsOf(r) \subseteq ever[job[r]]

\* A message names a committed row, also when the run that sent it has failed
\* since, and a run names each of its rows once.
SentIsStored == \A d \in Runs \X Endpoints : sent[d] <= IF d \in rows THEN 1 ELSE 0

RowsFor(e, p) == {r \in Runs : job[r] = e /\ <<r, p>> \in rows}

\* The workers that were lost while they ran e's task.
Lost(e) == {r \in Runs : job[r] = e /\ pc[r] = "lost"}

\* A subscriber gets a second row for an event only from a second delivery of
\* the event's own message: one for each worker lost over it and one for each
\* redelivery.  A task that raises brings none.
DuplicatesExplained ==
  \A e \in Events, p \in Endpoints :
    Cardinality(RowsFor(e, p)) <= 1 + Cardinality(Lost(e)) + redeliveries[e]

\* An endpoint that goes on matching gets a row and a message for every event,
\* also when a worker is lost, unless a task of that event has raised.
EverySubscriberServed ==
  \A e \in Events, p \in Endpoints :
    p \in steady[e] ~>
      \/ p \notin steady[e]
      \/ \E r \in Runs : job[r] = e /\ pc[r] = "failed"
      \/ \E r \in RowsFor(e, p) : sent[<<r, p>>] > 0

\* README, fan-out "inserts one pending delivery row per endpoint".
OneRowPerEndpoint ==
  \A e \in Events, p \in Endpoints : Cardinality(RowsFor(e, p)) <= 1
=============================================================================
