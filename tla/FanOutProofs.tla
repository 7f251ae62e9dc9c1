---------------------------- MODULE FanOutProofs ----------------------------
(***************************************************************************)
(* Proofs that a run of deliver_event serves exactly the subscribers or    *)
(* nobody, that messages name committed rows, and that a second row for a  *)
(* subscriber comes only from a second delivery of the message; for any    *)
(* number of events, runs, endpoints and failures.                         *)
(***************************************************************************)
EXTENDS FanOut, FiniteSetTheorems, TLAPS

(* A message, a redelivery and a run belong to an event that is stored.    *)
Named ==
  /\ \A e \in Events : queue[e] > 0 => e \in event
  /\ \A r \in Runs : IF pc[r] = "unused" THEN job[r] = Null ELSE job[r] \in event
  /\ \A e \in Events \ event : redeliveries[e] = 0

(* The endpoints that match now, between those that have matched all the   *)
(* time and those that ever have.                                          *)
Tracked ==
  \A e \in event : steady[e] \subseteq Matching(TypeOf[e]) /\ Matching(TypeOf[e]) \subseteq ever[e]

(* A run has no rows before its commit, and what it has found is what it   *)
(* will insert.                                                            *)
BeforeCommit ==
  \A r \in Runs :
    /\ pc[r] \in {"unused", "received", "found"} => RowsOf(r) = {}
    /\ pc[r] = "found" => steady[job[r]] \subseteq found[r] /\ found[r] \subseteq ever[job[r]]

(* What the loop has still to dispatch is stored and not yet sent.         *)
Loop ==
  \A r \in Runs :
    /\ pc[r] # "dispatching" => toDispatch[r] = {}
    /\ \A p \in toDispatch[r] : <<r, p>> \in rows /\ sent[<<r, p>>] = 0

IInv == TypeOK /\ Named /\ Tracked /\ BeforeCommit /\ Loop /\ FaithfulFanOut /\ SentIsStored

(* The runs that have received e's message.                                *)
Took(e) == {r \in Runs : job[r] = e}

(* Every message and every run of e beyond the first was paid for by a     *)
(* worker lost over e or by a redelivery of e's message, and each of these *)
(* has paid for one.                                                       *)
Paid ==
  \A e \in event :
    queue[e] + Cardinality(Took(e)) = 1 + Cardinality(Lost(e)) + redeliveries[e]

LEMMA MatchingType == ASSUME NEW t PROVE Matching(t) \subseteq Endpoints
  BY DEF Matching

\* A change of the table keeps its type.
LEMMA TableTyped == TableOK /\ TableNext => TableOK'
  <1>1. ASSUME TableOK, NEW p \in Endpoints, NEW u \in Urls, NEW T \in TypeLists,
               Insert(p, u, T) \/ Update(p, u, T)
        PROVE  TableOK'
    <2>1. CASE Insert(p, u, T)
      <3>1. [url |-> u, event_types |-> T, is_active |-> TRUE] \in Columns
        BY DEF Columns
      <3> QED
        BY <1>1, <2>1, <3>1 DEF TableOK, Insert
    <2>2. CASE Update(p, u, T)
      <3>1. endpoint[p] \in Columns
        BY <1>1, <2>2 DEF TableOK, Update
      <3>2. [endpoint[p] EXCEPT !.url = u, !.event_types = T] \in Columns
        BY <3>1 DEF Columns
      <3>3. endpoint' = [endpoint EXCEPT ![p] = [endpoint[p] EXCEPT !.url = u, !.event_types = T]]
        BY <1>1, <2>2 DEF TableOK, Update
      <3> QED
        BY <1>1, <3>2, <3>3 DEF TableOK
    <2> QED
      BY <1>1, <2>1, <2>2
  <1>2. ASSUME TableOK, NEW p \in Endpoints, Deactivate(p) PROVE TableOK'
    BY <1>2, RowAssumption DEF TableOK, Deactivate, Columns
  <1> QED
    BY <1>1, <1>2 DEF TableNext

\* The first state.
LEMMA InitInvariant == Init => IInv
  BY BoundAssumption
  DEF Init, TableInit, IInv, TypeOK, TableOK, Named, Tracked, BeforeCommit, Loop, FaithfulFanOut,
      SentIsStored, RowsOf, Open

\* The endpoints change.
LEMMA ChangeStep == IInv /\ ChangeEndpoint => IInv'
  <1> SUFFICES ASSUME IInv, ChangeEndpoint PROVE IInv'
    OBVIOUS
  <1> USE DEF IInv, run, output
  <1>1. ASSUME NEW e \in event
        PROVE  /\ steady'[e] \subseteq steady[e] /\ ever[e] \subseteq ever'[e]
               /\ steady'[e] \subseteq Matching(TypeOf[e])' /\ Matching(TypeOf[e])' \subseteq ever'[e]
    BY DEF ChangeEndpoint, TypeOK
  <1>2. TypeOK'
    <2>1. \A e \in Events : Matching(TypeOf[e])' \subseteq Endpoints
      BY DEF Matching
    <2>2. steady' \in [Events -> SUBSET Endpoints] /\ ever' \in [Events -> SUBSET Endpoints]
      BY <2>1 DEF ChangeEndpoint, TypeOK
    <2> QED
      BY <2>2, TableTyped, BoundAssumption DEF ChangeEndpoint, TypeOK
  <1>3. Named' /\ Loop' /\ SentIsStored'
    BY DEF ChangeEndpoint, Named, Loop, SentIsStored
  <1>4. Tracked'
    BY <1>1 DEF ChangeEndpoint, Tracked
  <1>5. ASSUME NEW r \in Runs, pc[r] # "unused" PROVE job[r] \in event
    BY <1>5 DEF Named
  <1>6. BeforeCommit'
    BY <1>1, <1>5 DEF ChangeEndpoint, BeforeCommit, RowsOf
  <1>7. FaithfulFanOut'
    <2>1. ASSUME NEW r \in Runs, pc[r] = "unused" PROVE RowsOf(r) = {}
      BY <2>1 DEF BeforeCommit
    <2> QED
      BY <1>1, <1>5, <2>1 DEF ChangeEndpoint, FaithfulFanOut, RowsOf
  <1> QED
    BY <1>2, <1>3, <1>4, <1>6, <1>7

\* An event comes in.
LEMMA IngestStep == ASSUME IInv, NEW e \in Events, Ingest(e) PROVE IInv'
  <1> USE DEF IInv, run, output
  <1>1. TypeOK'
    BY MatchingType DEF Ingest, TypeOK, TableOK
  <1>2. Named' /\ Loop' /\ SentIsStored'
    BY DEF Ingest, TypeOK, Named, Loop, SentIsStored
  <1>3. \A t : Matching(t)' = Matching(t)
    BY DEF Ingest, Matching, Active
  <1>4. Tracked'
    BY <1>3 DEF Ingest, TypeOK, Tracked
  <1>5. ASSUME NEW r \in Runs, pc[r] # "unused"
        PROVE  steady'[job[r]] = steady[job[r]] /\ ever'[job[r]] = ever[job[r]]
    BY <1>5 DEF Ingest, TypeOK, Named
  <1>6. BeforeCommit' /\ FaithfulFanOut'
    BY <1>5 DEF Ingest, BeforeCommit, FaithfulFanOut, RowsOf
  <1> QED
    BY <1>1, <1>2, <1>4, <1>6

\* What only the table says stays as it is when the table does.
LEMMA TableKept == ASSUME IInv, UNCHANGED table PROVE TableOK' /\ Tracked'
  <1>1. \A t : Matching(t)' = Matching(t)
    BY DEF table, Matching, Active
  <1> QED
    BY <1>1 DEF IInv, TypeOK, TableOK, table, Tracked

\* A worker takes a message.
LEMMA ReceiveStep == ASSUME IInv, NEW r \in Runs, NEW e \in Events, Receive(r, e) PROVE IInv'
  <1> USE DEF IInv, table, run, output
  <1>1. e \in event /\ queue[e] > 0 /\ pc[r] = "unused" /\ UNCHANGED <<table, found, toDispatch, output>>
    BY DEF Receive, Named
  <1>2. TypeOK'
    BY TableKept, <1>1 DEF Receive, Taken, TypeOK, Open
  <1>3. Named'
    BY <1>1, EventAssumption DEF Receive, Taken, TypeOK, Named
  <1>4. Loop' /\ SentIsStored' /\ BeforeCommit'
    BY <1>1 DEF Receive, TypeOK, Loop, SentIsStored, BeforeCommit, RowsOf
  <1>5. FaithfulFanOut'
    <2>1. /\ \A q \in Runs : RowsOf(q)' = RowsOf(q)
          /\ \A q \in Runs \ {r} : pc'[q] = pc[q] /\ job'[q] = job[q]
          /\ pc'[r] = "received" /\ RowsOf(r) = {}
      BY <1>1 DEF Receive, TypeOK, BeforeCommit, RowsOf
    <2> QED
      BY <1>1, <2>1 DEF FaithfulFanOut
  <1> QED
    BY <1>1, <1>2, <1>3, <1>4, <1>5, TableKept

\* A run reads the endpoints.
LEMMA FindStep == ASSUME IInv, NEW r \in Runs, Find(r) PROVE IInv'
  <1> USE DEF IInv, table, run, output
  <1>1. PICK F \in SUBSET Endpoints : F = Subscribers(job[r])
    BY MatchingType DEF Subscribers
  <1>2. /\ pc[r] = "received" /\ pc' = [pc EXCEPT ![r] = "found"]
        /\ found' = [found EXCEPT ![r] = F]
        /\ UNCHANGED <<table, queue, job, toDispatch, output, aborts, redeliveries>>
    BY <1>1 DEF Find, Goto
  <1>3. job[r] \in event /\ steady[job[r]] \subseteq F /\ F \subseteq ever[job[r]]
    BY <1>1, <1>2 DEF Named, Tracked, Subscribers
  <1>4. TypeOK' /\ Named'
    BY <1>2, TableKept DEF TypeOK, Open, Named
  <1>5. Loop' /\ SentIsStored'
    BY <1>2 DEF TypeOK, Loop, SentIsStored
  <1>6. BeforeCommit'
    BY <1>2, <1>3 DEF TypeOK, BeforeCommit, RowsOf
  <1>7. FaithfulFanOut'
    BY <1>2 DEF TypeOK, FaithfulFanOut, RowsOf
  <1> QED
    BY <1>2, <1>4, <1>5, <1>6, <1>7, TableKept

\* A run commits its rows, which no one has sent before.
LEMMA CommitStep == ASSUME IInv, NEW r \in Runs, Commit(r) PROVE IInv'
  <1> USE DEF IInv, table, run, output
  <1>1. /\ pc[r] = "found" /\ pc' = [pc EXCEPT ![r] = "dispatching"]
        /\ rows' = rows \cup ({r} \X found[r])
        /\ toDispatch' = [toDispatch EXCEPT ![r] = found[r]]
        /\ UNCHANGED <<table, queue, job, found, sent, aborts, redeliveries>>
    BY DEF Commit, Goto
  <1>2. /\ RowsOf(r) = {} /\ RowsOf(r)' = found[r]
        /\ \A q \in Runs \ {r} : RowsOf(q)' = RowsOf(q)
    BY <1>1 DEF TypeOK, BeforeCommit, RowsOf
  <1>3. TypeOK' /\ Named'
    BY <1>1, TableKept DEF TypeOK, Open, Named
  <1>4. ASSUME NEW p \in Endpoints PROVE sent[<<r, p>>] = 0
    BY <1>2 DEF TypeOK, SentIsStored, RowsOf
  <1>5. Loop' /\ SentIsStored'
    BY <1>1, <1>4 DEF TypeOK, Loop, SentIsStored
  <1>6. BeforeCommit'
    BY <1>1, <1>2 DEF TypeOK, BeforeCommit
  <1>7. FaithfulFanOut'
    BY <1>1, <1>2 DEF TypeOK, BeforeCommit, FaithfulFanOut
  <1> QED
    BY <1>1, <1>3, <1>5, <1>6, <1>7, TableKept

\* A message for one row is sent.
LEMMA DispatchStep == ASSUME IInv, NEW r \in Runs, NEW p \in Endpoints, Dispatch(r, p) PROVE IInv'
  <1> USE DEF IInv, table, run, output
  <1>1. /\ <<r, p>> \in rows /\ sent[<<r, p>>] = 0 /\ pc[r] = "dispatching"
        /\ sent' = [sent EXCEPT ![<<r, p>>] = 1]
        /\ toDispatch' = [toDispatch EXCEPT ![r] = @ \ {p}]
        /\ UNCHANGED <<table, queue, pc, job, found, rows, aborts, redeliveries>>
    <2>1. <<r, p>> \in rows /\ sent[<<r, p>>] = 0 /\ pc[r] = "dispatching"
      BY DEF Dispatch, Ready, Loop
    <2>2. sent' = [sent EXCEPT ![<<r, p>>] = 1]
      BY <2>1 DEF Dispatch, TypeOK
    <2> QED
      BY <2>1, <2>2 DEF Dispatch, Left, TypeOK
  <1>2. TypeOK' /\ Named'
    BY <1>1, TableKept DEF TypeOK, Named
  <1>3. Loop' /\ SentIsStored'
    <2>1. \A d \in Runs \X Endpoints : sent'[d] = IF d = <<r, p>> THEN 1 ELSE sent[d]
      BY <1>1 DEF TypeOK
    <2>2. SentIsStored'
      BY <1>1, <2>1 DEF SentIsStored
    <2>3. ASSUME NEW q \in Runs, NEW o \in toDispatch'[q]
          PROVE  o \in toDispatch[q] /\ o \in Endpoints /\ <<q, o>> # <<r, p>>
      BY <1>1, <2>3 DEF TypeOK
    <2>4. ASSUME NEW q \in Runs, NEW o \in toDispatch'[q]
          PROVE  <<q, o>> \in rows /\ sent'[<<q, o>>] = 0
      BY <2>1, <2>3 DEF Loop
    <2>5. \A q \in Runs : pc'[q] # "dispatching" => toDispatch'[q] = {}
      BY <1>1 DEF TypeOK, Loop
    <2> QED
      BY <1>1, <2>2, <2>4, <2>5 DEF Loop
  <1>4. BeforeCommit' /\ FaithfulFanOut'
    BY <1>1 DEF BeforeCommit, FaithfulFanOut, RowsOf
  <1> QED
    BY <1>1, <1>2, <1>3, <1>4, TableKept

\* A run ends: its rows stay, and its loop is over.
LEMMA EndStep ==
  ASSUME IInv, NEW r \in Runs, NEW to \in {"done", "failed", "lost"}, pc[r] \in Open,
         to = "done" => pc[r] = "dispatching",
         pc' = [pc EXCEPT ![r] = to],
         toDispatch' = [toDispatch EXCEPT ![r] = {}],
         UNCHANGED <<table, job, found, rows, sent>>,
         queue' \in [Events -> Nat], \A e \in Events : queue'[e] > 0 => e \in event,
         aborts' \in 0..MaxAborts, UNCHANGED redeliveries
  PROVE  IInv'
  <1> USE DEF IInv, table
  <1>1. TypeOK' /\ Named'
    BY TableKept DEF TypeOK, Open, Named
  <1>2. Loop' /\ SentIsStored'
    BY DEF TypeOK, Loop, SentIsStored
  <1>3. BeforeCommit'
    BY DEF TypeOK, BeforeCommit, RowsOf
  <1>4. FaithfulFanOut'
    BY DEF TypeOK, FaithfulFanOut, RowsOf
  <1> QED
    BY <1>1, <1>2, <1>3, <1>4, TableKept

\* A message comes back.
LEMMA RequeueType ==
  ASSUME IInv, NEW r \in Runs, pc[r] \in Open, Requeue(job[r])
  PROVE  queue' \in [Events -> Nat] /\ \A e \in Events : queue'[e] > 0 => e \in event
  BY DEF IInv, TypeOK, Named, Requeue, Open

\* Every step keeps the invariant.
LEMMA StepInvariant == IInv /\ [Next]_vars => IInv'
  <1> SUFFICES ASSUME IInv, [Next]_vars PROVE IInv'
    OBVIOUS
  <1>1. ASSUME NEW r \in Runs, Finish(r) PROVE IInv'
    <2>1. toDispatch' = [toDispatch EXCEPT ![r] = {}]
      BY <1>1 DEF Finish, IInv, TypeOK
    <2> QED
      BY <1>1, <2>1, EndStep DEF Finish, Goto, Open, output, IInv, TypeOK, Named
  <1>2. ASSUME NEW r \in Runs, TaskFails(r) PROVE IInv'
    <2>1. aborts' \in 0..MaxAborts
      BY <1>2, BoundAssumption DEF TaskFails, Abort, IInv, TypeOK
    <2> QED
      BY <1>2, <2>1, EndStep DEF TaskFails, Abort, output, IInv, TypeOK, Named
  <1>3. ASSUME NEW r \in Runs, WorkerDies(r) PROVE IInv'
    <2>1. pc[r] \in Open /\ Requeue(job[r])
      BY <1>3 DEF WorkerDies, Abort
    <2>2. aborts' \in 0..MaxAborts
      BY <1>3, BoundAssumption DEF WorkerDies, Abort, IInv, TypeOK
    <2> QED
      BY <1>3, <2>1, <2>2, RequeueType, EndStep DEF WorkerDies, Abort, output, IInv, TypeOK
  <1>4. ASSUME NEW r \in Runs, Redeliver(r) PROVE IInv'
    <2>1. /\ queue' \in [Events -> Nat] /\ \A e \in Events : queue'[e] > 0 => e \in event
          /\ UNCHANGED <<table, run, output, aborts>>
      BY <1>4, RequeueType DEF Redeliver
    <2>2. TypeOK' /\ Named'
      <3>1. job[r] \in Events /\ job[r] \in event
        BY <1>4 DEF Redeliver, IInv, Named, TypeOK, Open
      <3>2. redeliveries' \in [Events -> 0..MaxRedeliveries]
        BY <1>4, <3>1, BoundAssumption DEF Redeliver, IInv, TypeOK
      <3>3. TypeOK'
        BY <2>1, <3>2, TableKept DEF IInv, TypeOK, table, run, output
      <3>4. \A e \in Events \ event : redeliveries'[e] = redeliveries[e]
        BY <1>4, <3>1 DEF Redeliver, IInv, TypeOK
      <3> QED
        BY <2>1, <3>3, <3>4 DEF IInv, table, run, Named
    <2>3. Loop' /\ SentIsStored' /\ BeforeCommit' /\ FaithfulFanOut'
      BY <2>1 DEF IInv, table, run, output, Loop, SentIsStored, BeforeCommit, FaithfulFanOut, RowsOf
    <2> QED
      BY <2>1, <2>2, <2>3, TableKept DEF IInv
  <1>5. ASSUME UNCHANGED vars PROVE IInv'
    <2>1. UNCHANGED <<table, queue, run, output, aborts, redeliveries>>
      BY <1>5 DEF vars
    <2>2. TypeOK' /\ Named'
      BY <2>1, TableKept DEF IInv, TypeOK, table, run, output, Named
    <2>3. Loop' /\ SentIsStored' /\ BeforeCommit' /\ FaithfulFanOut'
      BY <2>1 DEF IInv, table, run, output, Loop, SentIsStored, BeforeCommit, FaithfulFanOut, RowsOf
    <2> QED
      BY <2>1, <2>2, <2>3, TableKept DEF IInv
  <1> QED
    BY <1>1, <1>2, <1>3, <1>4, <1>5, ChangeStep, IngestStep, ReceiveStep, FindStep, CommitStep,
       DispatchStep DEF Next, Step, Quiet

-----------------------------------------------------------------------------
(* How often an event is fanned out *)

\* The runs of an event are countable.
LEMMA TookType ==
  ASSUME NEW e
  PROVE  /\ IsFiniteSet(Took(e)) /\ Cardinality(Took(e)) \in Nat
         /\ IsFiniteSet(Lost(e)) /\ Cardinality(Lost(e)) \in Nat
  BY BoundAssumption, FS_Subset, FS_CardinalityType DEF Took, Lost

\* A step that makes no run and no event keeps the account when it adds as many
\* messages as lost workers and redeliveries.
LEMMA PaidStep ==
  ASSUME IInv, IInv', Paid, UNCHANGED <<job, event>>,
         \A e \in event :
           queue'[e] + Cardinality(Lost(e)) + redeliveries[e] =
             queue[e] + Cardinality(Lost(e)') + redeliveries'[e]
  PROVE  Paid'
  <1>1. ASSUME NEW e \in event
        PROVE  (queue[e] + Cardinality(Took(e)) = 1 + Cardinality(Lost(e)) + redeliveries[e])'
    <2>1. /\ e \in Events /\ Took(e)' = Took(e)
          /\ queue[e] \in Nat /\ queue'[e] \in Nat
          /\ redeliveries[e] \in Nat /\ redeliveries'[e] \in Nat
      BY BoundAssumption DEF IInv, TypeOK, Took
    <2>2. PICK k \in Nat : k = Cardinality(Took(e))
      BY TookType
    <2>3. PICK l \in Nat : l = Cardinality(Lost(e))
      BY TookType
    <2>4. Lost(e)' \in SUBSET Took(e)
      BY <2>1 DEF Took, Lost
    <2>5. PICK n \in Nat : n = Cardinality(Lost(e)')
      BY <2>4, TookType, FS_Subset, FS_CardinalityType
    <2>6. queue[e] + k = 1 + l + redeliveries[e]
      BY <2>2, <2>3 DEF Paid
    <2>7. queue'[e] + l + redeliveries[e] = queue[e] + n + redeliveries'[e]
      BY <2>3, <2>5
    <2>8. queue'[e] + k = 1 + n + redeliveries'[e]
      BY <2>1, <2>6, <2>7
    <2> QED
      BY <2>1, <2>2, <2>5, <2>8
  <1> QED
    BY <1>1 DEF Paid

\* Every step keeps the account of the messages.
LEMMA PaidInvariant == IInv /\ IInv' /\ Paid /\ [Next]_vars => Paid'
  <1> SUFFICES ASSUME IInv, IInv', Paid, [Next]_vars PROVE Paid'
    OBVIOUS
  <1>1. ASSUME NEW e \in Events, Ingest(e) PROVE Paid'
    <2>1. /\ e \notin event /\ event' = event \cup {e} /\ queue'[e] = 1
          /\ \A o \in Events \ {e} : queue'[o] = queue[o]
          /\ UNCHANGED <<job, pc, redeliveries>>
      BY <1>1 DEF Ingest, IInv, TypeOK, run
    <2>2. Took(e) = {} /\ Lost(e) = {}
      BY <2>1, EventAssumption DEF IInv, Named, Took, Lost
    <2>3. \A o : Took(o)' = Took(o) /\ Lost(o)' = Lost(o)
      BY <2>1 DEF Took, Lost
    <2>4. queue[e] = 0 /\ redeliveries[e] = 0
      BY <2>1 DEF IInv, TypeOK, Named
    <2>5. (queue[e] + Cardinality(Took(e)) = 1 + Cardinality(Lost(e)) + redeliveries[e])'
      <3>1. Cardinality(Took(e)') = 0 /\ Cardinality(Lost(e)') = 0
        BY <2>2, <2>3, FS_EmptySet
      <3> QED
        BY <2>1, <2>4, <3>1
    <2>6. ASSUME NEW o \in event
          PROVE  (queue[o] + Cardinality(Took(o)) = 1 + Cardinality(Lost(o)) + redeliveries[o])'
      <3>1. o \in Events \ {e}
        BY <2>1 DEF IInv, TypeOK
      <3> QED
        BY <2>1, <2>3, <3>1 DEF Paid
    <2> QED
      BY <2>1, <2>5, <2>6 DEF Paid
  <1>2. ASSUME NEW r \in Runs, NEW e \in Events, Receive(r, e) PROVE Paid'
    <2>1. /\ job[r] = Null /\ job' = [job EXCEPT ![r] = e]
          /\ pc[r] = "unused" /\ pc' = [pc EXCEPT ![r] = "received"]
          /\ queue' = [queue EXCEPT ![e] = @ - 1]
          /\ UNCHANGED <<event, redeliveries>>
      BY <1>2 DEF Receive, Taken, table, IInv, Named
    <2>2. /\ r \notin Took(e) /\ Took(e)' = Took(e) \cup {r}
          /\ \A o \in Events \ {e} : Took(o)' = Took(o)
          /\ \A o \in Events : Lost(o)' = Lost(o)
      BY <2>1, EventAssumption DEF Took, Lost, IInv, TypeOK
    <2>3. Cardinality(Took(e))' = Cardinality(Took(e)) + 1 /\ Cardinality(Took(e)) \in Nat
      BY <2>2, TookType, FS_AddElement
    <2>4. queue[e] \in Nat /\ queue'[e] = queue[e] - 1
          /\ \A o \in Events \ {e} : queue'[o] = queue[o]
      BY <2>1 DEF IInv, TypeOK
    <2>5. queue'[e] + Cardinality(Took(e))' = queue[e] + Cardinality(Took(e))
      BY <2>3, <2>4
    <2>6. event \subseteq Events
      BY DEF IInv, TypeOK
    <2> QED
      BY <2>1, <2>2, <2>4, <2>5, <2>6 DEF Paid
  <1>3. ASSUME NEW r \in Runs, WorkerDies(r) PROVE Paid'
    <2>1. /\ pc[r] \in Open /\ pc' = [pc EXCEPT ![r] = "lost"]
          /\ queue' = [queue EXCEPT ![job[r]] = @ + 1]
          /\ UNCHANGED <<job, event, redeliveries>>
      BY <1>3 DEF WorkerDies, Abort, Requeue, table
    <2>2. ASSUME NEW e \in event
          PROVE  queue'[e] + Cardinality(Lost(e)) + redeliveries[e] =
                   queue[e] + Cardinality(Lost(e)') + redeliveries'[e]
      <3>1. PICK l \in Nat : l = Cardinality(Lost(e))
        BY TookType
      <3>2. e \in Events /\ queue[e] \in Nat /\ redeliveries[e] \in Nat
        BY BoundAssumption DEF IInv, TypeOK
      <3>3. CASE e = job[r]
        <4>1. r \notin Lost(e) /\ Lost(e)' = Lost(e) \cup {r}
          BY <2>1, <3>3 DEF Lost, Open, IInv, TypeOK
        <4>2. Cardinality(Lost(e)') = l + 1
          BY <3>1, <4>1, TookType, FS_AddElement
        <4>3. queue'[e] = queue[e] + 1
          BY <2>1, <3>2, <3>3 DEF IInv, TypeOK
        <4> QED
          BY <2>1, <3>1, <3>2, <4>2, <4>3
      <3>4. CASE e # job[r]
        <4>1. Lost(e)' = Lost(e) /\ queue'[e] = queue[e]
          BY <2>1, <3>2, <3>4 DEF Lost, IInv, TypeOK
        <4> QED
          BY <2>1, <4>1
      <3> QED
        BY <3>3, <3>4
    <2> QED
      BY <2>1, <2>2, PaidStep
  <1>4. ASSUME NEW r \in Runs, Redeliver(r) PROVE Paid'
    <2>1. /\ queue' = [queue EXCEPT ![job[r]] = @ + 1]
          /\ redeliveries' = [redeliveries EXCEPT ![job[r]] = @ + 1]
          /\ UNCHANGED <<job, event, pc>>
      BY <1>4 DEF Redeliver, Requeue, table, run
    <2>2. \A e : Lost(e)' = Lost(e)
      BY <2>1 DEF Lost
    <2>3. ASSUME NEW e \in event
          PROVE  queue'[e] + Cardinality(Lost(e)) + redeliveries[e] =
                   queue[e] + Cardinality(Lost(e)') + redeliveries'[e]
      <3>1. PICK l \in Nat : l = Cardinality(Lost(e)) /\ l = Cardinality(Lost(e)')
        BY <2>2, TookType
      <3>2. e \in Events /\ queue[e] \in Nat /\ redeliveries[e] \in Nat
        BY BoundAssumption DEF IInv, TypeOK
      <3>3. \/ queue'[e] = queue[e] + 1 /\ redeliveries'[e] = redeliveries[e] + 1
            \/ queue'[e] = queue[e] /\ redeliveries'[e] = redeliveries[e]
        BY <2>1, <3>2 DEF IInv, TypeOK
      <3> QED
        BY <3>1, <3>2, <3>3
    <2> QED
      BY <2>1, <2>3, PaidStep
  <1>5. ASSUME UNCHANGED <<job, event, queue, redeliveries>>,
               \A r \in Runs : pc'[r] = "lost" <=> pc[r] = "lost"
        PROVE  Paid'
    <2>1. \A e : Lost(e)' = Lost(e)
      BY <1>5 DEF Lost
    <2> QED
      BY <1>5, <2>1, PaidStep
  <1>6. ASSUME NEW r \in Runs, Step(r) \/ TaskFails(r) PROVE Paid'
    <2>1. PICK to \in {"found", "dispatching", "done", "failed", pc[r]} :
            pc[r] # "lost" /\ pc' = [pc EXCEPT ![r] = to]
      BY <1>6 DEF Step, Find, Commit, Dispatch, Finish, Goto, Ready, TaskFails, Abort, Open,
                  IInv, TypeOK, Loop
    <2>2. UNCHANGED <<job, event, queue, redeliveries>>
      BY <1>6 DEF Step, Find, Commit, Dispatch, Finish, TaskFails, Abort, table
    <2>3. \A q \in Runs : pc'[q] = "lost" <=> pc[q] = "lost"
      BY <2>1 DEF IInv, TypeOK
    <2> QED
      BY <1>5, <2>2, <2>3
  <1>7. ASSUME ChangeEndpoint \/ UNCHANGED vars PROVE Paid'
    BY <1>5, <1>7 DEF ChangeEndpoint, vars, run, table
  <1> QED
    BY <1>1, <1>2, <1>3, <1>4, <1>6, <1>7 DEF Next, Quiet

-----------------------------------------------------------------------------
(* The theorems *)

\* While endpoints are created, updated and deactivated, each execution of
\* deliver_event keeps to what it has found: the invariant always holds.
THEOREM FanOutInvariant == Spec => []IInv
  BY InitInvariant, StepInvariant, PTL DEF Spec

\* The messages and the executions of an event are one, and one more for each
\* worker that was lost over it (acks_late) and each redelivery: no more, no less.
THEOREM PaidAlways == Spec => []Paid
  <1>1. Init => Paid
    BY DEF Init, Paid
  <1> QED
    BY <1>1, FanOutInvariant, PaidInvariant, PTL DEF Spec

\* Every variable keeps its type: above all, the loop of fan_out_event_deliveries
\* dispatches no row twice.
THEOREM FanOutTypeCorrect == Spec => []TypeOK
  BY FanOutInvariant, PTL DEF IInv

\* The rows of a run appear together or not at all, exactly for the endpoints
\* that matched when it read them (fan_out_event_deliveries).
THEOREM FanOutAlwaysFaithful == Spec => []FaithfulFanOut
  BY FanOutInvariant, PTL DEF IInv

\* A message names a committed row: the loop comes after the commit.
THEOREM SentIsAlwaysStored == Spec => []SentIsStored
  BY FanOutInvariant, PTL DEF IInv

\* A second row for a subscriber is the work of a worker lost over its event, or
\* of a redelivery of its event's message; tasks that raise bring none.
THEOREM DuplicatesAlwaysExplained == Spec => []DuplicatesExplained
  <1>1. ASSUME IInv, Paid, NEW e \in Events, NEW p \in Endpoints
        PROVE  Cardinality(RowsFor(e, p)) <= 1 + Cardinality(Lost(e)) + redeliveries[e]
    <2>1. RowsFor(e, p) \in SUBSET Took(e)
      BY DEF RowsFor, Took
    <2>2. PICK k \in Nat : k = Cardinality(Took(e))
      BY TookType
    <2>3. PICK l \in Nat : l = Cardinality(Lost(e))
      BY TookType
    <2>4. PICK n \in Nat : n = Cardinality(RowsFor(e, p)) /\ n <= k
      BY <2>1, <2>2, TookType, FS_Subset, FS_CardinalityType
    <2>5. redeliveries[e] \in Nat /\ queue[e] \in Nat
      BY <1>1, BoundAssumption DEF IInv, TypeOK
    <2>6. CASE e \in event
      <3>1. queue[e] + k = 1 + l + redeliveries[e]
        BY <1>1, <2>2, <2>3, <2>6 DEF Paid
      <3>2. n <= 1 + l + redeliveries[e]
        BY <2>4, <2>5, <3>1
      <3> QED
        BY <2>3, <2>4, <3>2
    <2>7. CASE e \notin event
      <3>1. Took(e) = {}
        BY <1>1, <2>7, EventAssumption DEF Took, IInv, Named
      <3>2. n = 0
        BY <2>2, <2>4, <3>1, FS_EmptySet
      <3>3. n <= 1 + l + redeliveries[e]
        BY <2>5, <3>2
      <3> QED
        BY <2>3, <2>4, <3>3
    <2> QED
      BY <2>6, <2>7
  <1>2. IInv /\ Paid => DuplicatesExplained
    BY <1>1 DEF DuplicatesExplained
  <1> QED
    BY <1>2, FanOutInvariant, PaidAlways, PTL
=============================================================================
