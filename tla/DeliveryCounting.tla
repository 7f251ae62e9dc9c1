-------------------------- MODULE DeliveryCounting --------------------------
(***************************************************************************)
(* Proofs that nothing is lost: no POST goes uncounted, no answer is       *)
(* dropped, no row is left without a message while no task fails; and how  *)
(* often a delivery is posted.                                             *)
(***************************************************************************)
EXTENDS DeliveryProofs

\* Of the workers only the one that holds the row can carry an unsaved POST.
LEMMA OneCarrier ==
  ASSUME IInv, NEW w \in Workers, NEW d \in Deliveries, Holds(w, d)
  PROVE  InFlight(d) <=> Unsaved(w)
  BY DEF IInv, OneSender, InFlight

\* Steps that leave the unsaved POSTs where they are leave the count right.
LEMMA CountKept ==
  ASSUME PostsAccounted, UNCHANGED <<posts, forgotten>>,
         \A d \in Deliveries : row'[d].attempt = row[d].attempt,
         \A w \in Workers : /\ Unsaved(w)' <=> Unsaved(w)
                            /\ Unsaved(w) => job'[w] = job[w]
  PROVE  PostsAccounted'
  <1>1. \A d \in Deliveries : InFlight(d)' <=> InFlight(d)
    BY DEF InFlight, Holds, Unsaved, Holding
  <1> QED
    BY <1>1 DEF PostsAccounted

\* A POST is in flight from then on.
LEMMA CountPost ==
  ASSUME IInv, IInv', PostsAccounted, NEW w \in Workers, NEW ok \in BOOLEAN, Post(w, ok)
  PROVE  PostsAccounted'
  <1> USE DEF database
  <1> DEFINE d == job[w]
  <1>1. /\ pc[w] = "posting" /\ d \in Deliveries /\ Holds(w, d) /\ mem[w] = row[d]
        /\ mem[w] \in Row /\ mem[w].attempt <= Len(RetryDelays)
    BY DEF Post, Goto, IInv, TypeOK, JobsNamed, HeldRows, HeldRow, UnsettledRows, Holds, Holding
  <1>2. /\ UNCHANGED <<row, job, forgotten>>
        /\ mem'[w] = Recorded(mem[w], ok)
        /\ pc'[w] \in {"retrying", "committing"}
        /\ \A v \in Workers \ {w} : pc'[v] = pc[v] /\ mem'[v] = mem[v]
    BY DEF Post, Goto, IInv, TypeOK
  <1>3. /\ posts'[d] = posts[d] + 1
        /\ \A c \in Deliveries \ {d} : posts'[c] = posts[c]
    BY <1>1 DEF Post, IInv, TypeOK
  <1>4. ~InFlight(d)
    BY <1>1, OneCarrier DEF Unsaved
  <1>5. InFlight(d)'
    <2>1. mem'[w].attempt = row'[d].attempt + 1
      BY <1>1, <1>2, RecordedRow
    <2>2. row'[d].attempt \in Nat
      BY <1>1, <1>2, Delays DEF Row
    <2> QED
      BY <1>1, <1>2, <2>1, <2>2 DEF InFlight, Holds, Unsaved, Holding
  <1>6. ASSUME NEW c \in Deliveries \ {d} PROVE InFlight(c)' <=> InFlight(c)
    BY <1>2 DEF InFlight, Holds, Unsaved
  <1>7. row[d].attempt \in Nat /\ forgotten[d] \in Nat /\ posts[d] \in Nat
    BY <1>1, Delays DEF IInv, TypeOK, Row
  <1>8. posts'[d] = row'[d].attempt + forgotten'[d] + 1
    BY <1>1, <1>2, <1>3, <1>4, <1>7 DEF PostsAccounted
  <1>9. ASSUME NEW c \in Deliveries \ {d}
        PROVE  posts'[c] = row'[c].attempt + forgotten'[c] + IF InFlight(c)' THEN 1 ELSE 0
    BY <1>2, <1>3, <1>6 DEF PostsAccounted
  <1> QED
    BY <1>1, <1>2, <1>5, <1>8, <1>9 DEF PostsAccounted

\* A commit moves the POST it carries into the row.
LEMMA CountCommit ==
  ASSUME IInv, IInv', PostsAccounted, NEW w \in Workers, Commit(w)
  PROVE  PostsAccounted'
  <1> USE DEF history
  <1> DEFINE d == job[w]
  <1>1. /\ pc[w] = "committing" /\ d \in Deliveries /\ Holds(w, d) /\ HeldRow(w)
        /\ mem[w].attempt \in Nat /\ row[d].attempt \in Nat
    BY Delays DEF Commit, Goto, IInv, TypeOK, JobsNamed, HeldRows, Holds, Holding, Row
  <1>2. /\ UNCHANGED <<job, mem, posts, forgotten>>
        /\ pc'[w] = "done"
        /\ \A v \in Workers \ {w} : pc'[v] = pc[v]
        /\ row'[d] = mem[w]
        /\ \A c \in Deliveries \ {d} : row'[c] = row[c]
    BY <1>1 DEF Commit, Goto, IInv, TypeOK
  <1>3. ~InFlight(d)'
    <2>1. \A v \in Workers : ~Holds(v, d)'
      BY <1>1, <1>2 DEF IInv, OneSender, Holds, Holding
    <2> QED
      BY <2>1 DEF InFlight
  <1>4. ASSUME NEW c \in Deliveries \ {d} PROVE InFlight(c)' <=> InFlight(c)
    BY <1>2 DEF InFlight, Holds, Unsaved
  <1>5. row'[d].attempt = row[d].attempt + IF InFlight(d) THEN 1 ELSE 0
    <2>1. CASE Unsaved(w)
      <3>1. InFlight(d) /\ mem[w].attempt = row[d].attempt + 1
        BY <1>1, <2>1, OneCarrier DEF HeldRow, Unsaved
      <3> QED
        BY <1>2, <3>1
    <2>2. CASE ~Unsaved(w)
      <3>1. ~InFlight(d) /\ mem[w].attempt = row[d].attempt
        BY <1>1, <2>2, OneCarrier DEF HeldRow, Unsaved
      <3> QED
        BY <1>1, <1>2, <3>1
    <2> QED
      BY <2>1, <2>2
  <1>6. posts'[d] = row'[d].attempt + forgotten'[d] + 0
    <2>1. forgotten[d] \in Nat
      BY <1>1 DEF IInv, TypeOK
    <2> QED
      BY <1>1, <1>2, <1>5, <2>1 DEF PostsAccounted
  <1>7. ASSUME NEW c \in Deliveries \ {d}
        PROVE  posts'[c] = row'[c].attempt + forgotten'[c] + IF InFlight(c)' THEN 1 ELSE 0
    BY <1>2, <1>4 DEF PostsAccounted
  <1> QED
    BY <1>2, <1>3, <1>6, <1>7 DEF PostsAccounted

\* A rollback moves it to the forgotten ones.
LEMMA CountRollback ==
  ASSUME IInv, IInv', PostsAccounted, NEW w \in Workers, pc[w] # "idle",
         Rollback(w), UNCHANGED row
  PROVE  PostsAccounted'
  <1>1. /\ pc'[w] = "idle"
        /\ \A v \in Workers \ {w} : pc'[v] = pc[v] /\ job'[v] = job[v] /\ mem'[v] = mem[v]
        /\ UNCHANGED posts
    BY DEF Rollback, Release, IInv, TypeOK
  <1>2. CASE Unsaved(w)
    <2>1. PICK d \in Deliveries : d = job[w] /\ Holds(w, d)
      BY <1>2 DEF IInv, JobsNamed, Unsaved, Holds, Holding
    <2>2. /\ forgotten'[d] = forgotten[d] + 1
          /\ \A c \in Deliveries \ {d} : forgotten'[c] = forgotten[c]
      BY <1>2, <2>1 DEF Rollback, IInv, TypeOK
    <2>3. InFlight(d)
      BY <1>2, <2>1, OneCarrier
    <2>4. ~InFlight(d)'
      <3>1. \A v \in Workers : Holds(v, d)' => v # w /\ Holds(v, d)
        BY <1>1 DEF Holds, Holding
      <3>2. \A v \in Workers : ~Holds(v, d)'
        BY <2>1, <3>1 DEF IInv, OneSender
      <3> QED
        BY <3>2 DEF InFlight
    <2>5. ASSUME NEW c \in Deliveries \ {d} PROVE InFlight(c)' <=> InFlight(c)
      <3>1. job[w] # c
        BY <2>1 DEF Holds
      <3> QED
        BY <1>1, <3>1 DEF InFlight, Holds, Unsaved, Holding
    <2>6. posts'[d] = row'[d].attempt + forgotten'[d] + 0
      <3>1. posts[d] = row[d].attempt + forgotten[d] + 1
        BY <2>1, <2>3 DEF PostsAccounted
      <3>2. row[d].attempt \in Nat /\ forgotten[d] \in Nat
        BY <2>1, Delays DEF IInv, TypeOK, Row
      <3> QED
        BY <1>1, <2>2, <3>1, <3>2
    <2>7. ASSUME NEW c \in Deliveries \ {d}
          PROVE  posts'[c] = row'[c].attempt + forgotten'[c] + IF InFlight(c)' THEN 1 ELSE 0
      BY <1>1, <2>2, <2>5 DEF PostsAccounted
    <2> QED
      BY <2>4, <2>6, <2>7 DEF PostsAccounted
  <1>3. CASE ~Unsaved(w)
    <2>1. UNCHANGED forgotten
      BY <1>3 DEF Rollback
    <2>2. ~Unsaved(w)'
      BY <1>1 DEF Unsaved
    <2>3. ASSUME NEW v \in Workers \ {w} PROVE (Unsaved(v)' <=> Unsaved(v)) /\ job'[v] = job[v]
      BY <1>1 DEF Unsaved
    <2> QED
      BY <1>1, <1>3, <2>1, <2>2, <2>3, CountKept
  <1> QED
    BY <1>2, <1>3

\* Every step keeps the count.
LEMMA CountStep ==
  ASSUME IInv, IInv', PostsAccounted, [Next]_vars
  PROVE  PostsAccounted'
  <1> USE DEF database, broker, worker, history
  <1>1. ASSUME UNCHANGED <<posts, forgotten, worker>>,
               \A d \in Deliveries : row'[d].attempt = row[d].attempt
        PROVE  PostsAccounted'
    <2>1. \A w \in Workers : Unsaved(w)' <=> Unsaved(w)
      BY <1>1 DEF Unsaved, IInv, JobsNamed
    <2> QED
      BY <1>1, <2>1, CountKept
  <1>2. ASSUME NEW S \in SUBSET Deliveries, FanOutCommit(S) PROVE PostsAccounted'
    <2>1. \A d \in Deliveries : row'[d].attempt = row[d].attempt
      BY <1>2 DEF FanOutCommit, IInv, UnsettledRows, NewRow
    <2> QED
      BY <1>1, <1>2, <2>1 DEF FanOutCommit
  <1>3. ASSUME NEW S \in SUBSET Deliveries, FanOutDies(S) PROVE PostsAccounted'
    BY <1>1, <1>3 DEF FanOutDies
  <1>4. ASSUME NEW d \in Deliveries, FanOutDispatch(d) \/ Redeliver(d) \/ PollDispatch(d)
        PROVE  PostsAccounted'
    BY <1>1, <1>4 DEF FanOutDispatch, Redeliver, PollDispatch
  <1>5. ASSUME NEW w \in Workers, NEW d \in Deliveries, Receive(w, d) PROVE PostsAccounted'
    <2>1. /\ pc[w] = "idle" /\ pc'[w] = "received"
          /\ \A v \in Workers \ {w} : pc'[v] = pc[v] /\ job'[v] = job[v]
          /\ UNCHANGED <<row, posts, forgotten, mem>>
      BY <1>5 DEF Receive, IInv, TypeOK
    <2>2. \A v \in Workers : (Unsaved(v)' <=> Unsaved(v)) /\ (Unsaved(v) => job'[v] = job[v])
      BY <2>1 DEF Unsaved
    <2> QED
      BY <2>1, <2>2, CountKept
  <1>6. ASSUME NEW w \in Workers,
               Skip(w) \/ Claim(w) \/ FindEndpoint(w) \/ Cancel(w) \/ DispatchRetry(w)
        PROVE  PostsAccounted'
    <2>1. /\ \A v \in Workers \ {w} : pc'[v] = pc[v] /\ mem'[v] = mem[v]
          /\ UNCHANGED <<row, posts, forgotten, job>>
      BY <1>6 DEF Skip, Claim, FindEndpoint, Cancel, DispatchRetry, Goto, OnlyWorker, IInv, TypeOK
    <2>2. Unsaved(w)' <=> Unsaved(w)
      <3>1. CASE Skip(w) \/ Claim(w) \/ FindEndpoint(w)
        BY <3>1 DEF Skip, Claim, FindEndpoint, Goto, IInv, TypeOK, Unsaved
      <3>2. CASE Cancel(w)
        <4>1. pc[w] = "claimed" /\ mem[w] = row[job[w]] /\ job[w] \in Deliveries
          BY <3>2 DEF Cancel, Goto, IInv, HeldRows, HeldRow, JobsNamed, Holding
        <4>2. mem'[w].attempt = mem[w].attempt /\ row[job[w]].attempt \in Nat
          BY <3>2, <4>1, Delays DEF Cancel, IInv, TypeOK, Row
        <4> QED
          BY <2>1, <4>1, <4>2 DEF Unsaved
      <3>3. CASE DispatchRetry(w)
        BY <3>3 DEF DispatchRetry, Goto, IInv, TypeOK, Unsaved
      <3> QED
        BY <1>6, <3>1, <3>2, <3>3
    <2>3. ASSUME NEW v \in Workers \ {w} PROVE Unsaved(v)' <=> Unsaved(v)
      BY <2>1 DEF Unsaved
    <2> QED
      BY <2>1, <2>2, <2>3, CountKept
  <1>7. ASSUME NEW w \in Workers, NEW ok \in BOOLEAN, Post(w, ok) PROVE PostsAccounted'
    BY <1>7, CountPost
  <1>8. ASSUME NEW w \in Workers, Commit(w) PROVE PostsAccounted'
    BY <1>8, CountCommit
  <1>9. ASSUME NEW w \in Workers, Ack(w) PROVE PostsAccounted'
    <2>1. /\ pc[w] = "done" /\ pc'[w] = "idle"
          /\ \A v \in Workers \ {w} : pc'[v] = pc[v] /\ job'[v] = job[v] /\ mem'[v] = mem[v]
          /\ UNCHANGED <<row, posts, forgotten>>
      BY <1>9 DEF Ack, Release, IInv, TypeOK
    <2>2. \A v \in Workers : (Unsaved(v)' <=> Unsaved(v)) /\ (Unsaved(v) => job'[v] = job[v])
      BY <2>1 DEF Unsaved
    <2> QED
      BY <2>1, <2>2, CountKept
  <1>10. ASSUME NEW w \in Workers, WorkerAborts(w) PROVE PostsAccounted'
    <2>1. pc[w] # "idle" /\ Rollback(w) /\ UNCHANGED row
      BY <1>10 DEF WorkerAborts, TaskFails, WorkerDies, Holding
    <2> QED
      BY <2>1, CountRollback
  <1>11. ASSUME PollSelect \/ PollDies PROVE PostsAccounted'
    BY <1>1, <1>11 DEF PollSelect, PollDies
  <1>12. ASSUME NEW e \in Endpoints, DeactivateEndpoint(e) PROVE PostsAccounted'
    BY <1>1, <1>12 DEF DeactivateEndpoint
  <1>13. ASSUME Tick PROVE PostsAccounted'
    <2>1. /\ \A d \in Deliveries : row'[d].attempt = row[d].attempt
          /\ \A w \in Workers : mem'[w].attempt = mem[w].attempt
          /\ UNCHANGED <<posts, forgotten, pc, job>>
      BY <1>13, LapsedRow DEF Tick, IInv, TypeOK
    <2>2. \A w \in Workers : Unsaved(w)' <=> Unsaved(w)
      BY <2>1 DEF Unsaved, IInv, JobsNamed
    <2> QED
      BY <2>1, <2>2, CountKept
  <1>14. CASE UNCHANGED vars
    BY <1>1, <1>14 DEF vars
  <1> QED
    BY <1>2, <1>3, <1>4, <1>5, <1>6, <1>7, <1>8, <1>9, <1>10, <1>11, <1>12, <1>13, <1>14
    DEF Next, WorkerStep

\* attempt_number counts every POST the receivers got, but for those whose
\* transaction rolled back: whatever interleaving, no update is lost.
THEOREM PostsAlwaysAccounted == Spec => []PostsAccounted
  <1>1. Init => PostsAccounted
    <2> SUFFICES ASSUME Init PROVE PostsAccounted
      OBVIOUS
    <2>1. \A d \in Deliveries : posts[d] = 0 /\ row[d].attempt = 0 /\ forgotten[d] = 0
      BY DEF Init, NoRow
    <2>2. \A d \in Deliveries : ~InFlight(d)
      BY DEF Init, InFlight, Holds, Holding
    <2> QED
      BY <2>1, <2>2 DEF PostsAccounted
  <1>2. IInv /\ IInv' /\ PostsAccounted /\ [Next]_vars => PostsAccounted'
    BY CountStep
  <1> QED
    BY <1>1, <1>2, InvariantHolds, PTL DEF Spec

-----------------------------------------------------------------------------
(* Every answer is kept *)

\* Steps that lose no answer and receive none.
LEMMA AnswersKept ==
  ASSUME AcceptedOnce, UNCHANGED <<acked, forgotten>>, TypeOK,
         \A d \in Deliveries : Answered(d) => Answered(d)'
  PROVE  AcceptedOnce'
  <1> SUFFICES ASSUME NEW d \in Deliveries
               PROVE  acked'[d] <= forgotten'[d] + IF Answered(d)' THEN 1 ELSE 0
    BY DEF AcceptedOnce
  <1>1. acked[d] \in Nat /\ forgotten[d] \in Nat
    BY DEF TypeOK
  <1>2. acked[d] <= forgotten[d] + IF Answered(d) THEN 1 ELSE 0
    BY DEF AcceptedOnce
  <1>3. CASE Answered(d)
    <2>1. Answered(d)'
      BY <1>3
    <2> QED
      BY <1>1, <1>2, <1>3, <2>1
  <1>4. CASE ~Answered(d)
    BY <1>1, <1>2, <1>4
  <1> QED
    BY <1>3, <1>4

\* Who holds a row with an answer is past its POST and about to commit it.
LEMMA AnswerHolder ==
  ASSUME IInv, NEW w \in Workers, pc[w] \in Holding, mem[w].status = "success"
  PROVE  pc[w] = "committing" /\ Unsaved(w)
  <1>1. job[w] \in Deliveries /\ HeldRow(w) /\ row[job[w]].attempt \in Nat
    BY Delays DEF IInv, TypeOK, JobsNamed, HeldRows, Holding, Row
  <1>2. pc[w] = "committing"
    BY <1>1 DEF HeldRow, Holding
  <1>3. mem[w].attempt = row[job[w]].attempt + 1
    BY <1>1, <1>2 DEF HeldRow
  <1> QED
    BY <1>1, <1>2, <1>3 DEF Unsaved

\* A POST brings at most one answer to a row that had none.
LEMMA AnswerPost ==
  ASSUME IInv, AcceptedOnce, NEW w \in Workers, NEW ok \in BOOLEAN, Post(w, ok)
  PROVE  AcceptedOnce'
  <1> USE DEF database
  <1>1. PICK d \in Deliveries : d = job[w] /\ Holds(w, d)
    BY DEF Post, Goto, IInv, JobsNamed, Holds, Holding
  <1>2. /\ pc[w] = "posting" /\ mem[w] = row[d] /\ row[d].status = "pending"
        /\ mem[w] \in Row /\ mem[w].attempt <= Len(RetryDelays)
    BY <1>1 DEF Post, Goto, IInv, TypeOK, HeldRows, HeldRow, UnsettledRows, Holding
  <1>3. /\ UNCHANGED <<row, job, forgotten>>
        /\ mem'[w] = Recorded(mem[w], ok)
        /\ pc'[w] \in {"retrying", "committing"}
        /\ \A v \in Workers \ {w} : pc'[v] = pc[v] /\ mem'[v] = mem[v]
    BY DEF Post, Goto, IInv, TypeOK
  <1>4. /\ acked'[d] = IF ok THEN acked[d] + 1 ELSE acked[d]
        /\ \A c \in Deliveries \ {d} : acked'[c] = acked[c]
    BY <1>1 DEF Post, IInv, TypeOK
  <1>5. ~Answered(d)
    BY <1>1, <1>2 DEF IInv, OneSender, Answered
  <1>6. ok => Answered(d)'
    <2>1. ok => mem'[w].status = "success"
      BY <1>3 DEF Recorded, Retries, RetryAt
    <2> QED
      BY <1>1, <1>3, <2>1 DEF Answered, Holds, Holding
  <1>7. ASSUME NEW c \in Deliveries \ {d} PROVE Answered(c)' <=> Answered(c)
    BY <1>1, <1>3 DEF Answered, Holds
  <1>8. ASSUME NEW c \in Deliveries \ {d}
        PROVE  acked'[c] <= forgotten'[c] + IF Answered(c)' THEN 1 ELSE 0
    BY <1>3, <1>4, <1>7 DEF AcceptedOnce
  <1>9. acked'[d] <= forgotten'[d] + IF Answered(d)' THEN 1 ELSE 0
    <2>1. acked[d] <= forgotten[d] + 0
      BY <1>5 DEF AcceptedOnce
    <2>2. acked[d] \in Nat /\ forgotten[d] \in Nat
      BY DEF IInv, TypeOK
    <2>3. CASE ok
      <3>1. Answered(d)'
        BY <1>6, <2>3
      <3> QED
        BY <1>3, <1>4, <2>1, <2>2, <2>3, <3>1
    <2>4. CASE ~ok
      BY <1>3, <1>4, <2>1, <2>2, <2>4
    <2> QED
      BY <2>3, <2>4
  <1> QED
    BY <1>8, <1>9 DEF AcceptedOnce

\* A commit saves the answer it carries.
LEMMA AnswerCommit ==
  ASSUME IInv, AcceptedOnce, NEW w \in Workers, Commit(w)
  PROVE  AcceptedOnce'
  <1> USE DEF history
  <1>1. PICK d \in Deliveries : d = job[w] /\ Holds(w, d)
    BY DEF Commit, Goto, IInv, JobsNamed, Holds, Holding
  <1>2. row[d].status = "pending"
    BY <1>1 DEF Commit, Goto, IInv, HeldRows, HeldRow, Holding
  <1>3. /\ UNCHANGED <<job, mem, acked, forgotten>>
        /\ \A v \in Workers \ {w} : pc'[v] = pc[v]
        /\ row'[d] = mem[w]
        /\ \A c \in Deliveries \ {d} : row'[c] = row[c]
    BY <1>1 DEF Commit, Goto, IInv, TypeOK
  <1>4. Answered(d) => Answered(d)'
    BY <1>1, <1>2, <1>3 DEF IInv, OneSender, Answered
  <1>5. ASSUME NEW c \in Deliveries \ {d} PROVE Answered(c) => Answered(c)'
    BY <1>1, <1>3 DEF Answered, Holds
  <1>6. TypeOK
    BY DEF IInv
  <1> QED
    BY <1>3, <1>4, <1>5, <1>6, AnswersKept

\* A rollback that loses an answer counts it as forgotten.
LEMMA AnswerRollback ==
  ASSUME IInv, AcceptedOnce, NEW w \in Workers, pc[w] # "idle",
         Rollback(w), UNCHANGED <<row, acked>>
  PROVE  AcceptedOnce'
  <1>1. /\ pc'[w] = "idle"
        /\ \A v \in Workers \ {w} : pc'[v] = pc[v] /\ job'[v] = job[v] /\ mem'[v] = mem[v]
    BY DEF Rollback, Release, IInv, TypeOK
  <1>2. TypeOK
    BY DEF IInv
  <1>3. CASE Unsaved(w)
    <2>1. PICK d \in Deliveries : d = job[w]
      BY <1>3 DEF IInv, JobsNamed, Unsaved
    <2>2. /\ forgotten'[d] = forgotten[d] + 1
          /\ \A c \in Deliveries \ {d} : forgotten'[c] = forgotten[c]
      BY <1>3, <2>1 DEF Rollback, IInv, TypeOK
    <2>3. acked'[d] <= forgotten'[d] + IF Answered(d)' THEN 1 ELSE 0
      <3>1. acked[d] <= forgotten[d] + 1 /\ acked[d] \in Nat /\ forgotten[d] \in Nat
        BY <1>2 DEF AcceptedOnce, TypeOK
      <3>2. acked'[d] <= forgotten'[d]
        BY <2>2, <3>1
      <3>3. forgotten'[d] \in Nat
        BY <2>2, <3>1
      <3> QED
        BY <3>1, <3>2, <3>3
    <2>4. ASSUME NEW c \in Deliveries \ {d}
          PROVE  acked'[c] <= forgotten'[c] + IF Answered(c)' THEN 1 ELSE 0
      <3>1. Answered(c)' <=> Answered(c)
        BY <1>1, <2>1 DEF Answered, Holds, Holding
      <3> QED
        BY <2>2, <3>1 DEF AcceptedOnce
    <2> QED
      BY <2>3, <2>4 DEF AcceptedOnce
  <1>4. CASE ~Unsaved(w)
    <2>1. UNCHANGED forgotten
      BY <1>4 DEF Rollback
    <2>2. ASSUME NEW d \in Deliveries, Answered(d) PROVE Answered(d)'
      BY <1>1, <1>4, <2>2, AnswerHolder DEF Answered, Holds
    <2> QED
      BY <1>2, <2>1, <2>2, AnswersKept
  <1> QED
    BY <1>3, <1>4

\* Every step keeps the answers.
LEMMA AnswerStep ==
  ASSUME IInv, AcceptedOnce, [Next]_vars
  PROVE  AcceptedOnce'
  <1> USE DEF database, broker, worker, history
  <1>1. TypeOK
    BY DEF IInv
  <1>2. ASSUME UNCHANGED <<acked, forgotten, worker>>,
               \A d \in Deliveries : row[d].status = "success" => row'[d].status = "success"
        PROVE  AcceptedOnce'
    <2>1. \A d \in Deliveries : Answered(d) => Answered(d)'
      BY <1>2 DEF Answered, Holds
    <2> QED
      BY <1>1, <1>2, <2>1, AnswersKept
  <1>3. ASSUME NEW S \in SUBSET Deliveries, FanOutCommit(S) \/ FanOutDies(S) PROVE AcceptedOnce'
    <2>1. \A d \in Deliveries : row[d].status = "success" => row'[d].status = "success"
      BY <1>3 DEF FanOutCommit, FanOutDies
    <2> QED
      BY <1>2, <1>3, <2>1 DEF FanOutCommit, FanOutDies
  <1>4. ASSUME NEW d \in Deliveries, FanOutDispatch(d) \/ Redeliver(d) \/ PollDispatch(d)
        PROVE  AcceptedOnce'
    BY <1>2, <1>4 DEF FanOutDispatch, Redeliver, PollDispatch
  <1>5. ASSUME NEW w \in Workers,
               UNCHANGED <<row, acked, forgotten>>,
               pc[w] # "committing",
               \A v \in Workers \ {w} : pc'[v] = pc[v] /\ job'[v] = job[v] /\ mem'[v] = mem[v]
        PROVE  AcceptedOnce'
    <2>1. ASSUME NEW d \in Deliveries, Answered(d) PROVE Answered(d)'
      BY <1>5, <2>1, AnswerHolder DEF Answered, Holds
    <2> QED
      BY <1>1, <1>5, <2>1, AnswersKept
  <1>6. ASSUME NEW w \in Workers, NEW d \in Deliveries, Receive(w, d) PROVE AcceptedOnce'
    BY <1>5, <1>6 DEF Receive, IInv, TypeOK
  <1>7. ASSUME NEW w \in Workers,
               Skip(w) \/ Claim(w) \/ FindEndpoint(w) \/ Cancel(w) \/ DispatchRetry(w) \/ Ack(w)
        PROVE  AcceptedOnce'
    <2>1. /\ UNCHANGED <<row, acked, forgotten>>
          /\ pc[w] # "committing"
          /\ \A v \in Workers \ {w} : pc'[v] = pc[v] /\ job'[v] = job[v] /\ mem'[v] = mem[v]
      BY <1>7 DEF Skip, Claim, FindEndpoint, Cancel, DispatchRetry, Ack, Release,
                  Goto, OnlyWorker, IInv, TypeOK
    <2> QED
      BY <1>5, <2>1
  <1>8. ASSUME NEW w \in Workers, NEW ok \in BOOLEAN, Post(w, ok) PROVE AcceptedOnce'
    BY <1>8, AnswerPost
  <1>9. ASSUME NEW w \in Workers, Commit(w) PROVE AcceptedOnce'
    BY <1>9, AnswerCommit
  <1>10. ASSUME NEW w \in Workers, WorkerAborts(w) PROVE AcceptedOnce'
    <2>1. pc[w] # "idle" /\ Rollback(w) /\ UNCHANGED <<row, acked>>
      BY <1>10 DEF WorkerAborts, TaskFails, WorkerDies, Rollback, Holding
    <2> QED
      BY <2>1, AnswerRollback
  <1>11. ASSUME PollSelect \/ PollDies PROVE AcceptedOnce'
    BY <1>2, <1>11 DEF PollSelect, PollDies
  <1>12. ASSUME NEW e \in Endpoints, DeactivateEndpoint(e) PROVE AcceptedOnce'
    BY <1>2, <1>12 DEF DeactivateEndpoint
  <1>13. ASSUME Tick PROVE AcceptedOnce'
    <2>1. /\ \A d \in Deliveries : row'[d].status = row[d].status
          /\ \A w \in Workers : mem'[w].status = mem[w].status
          /\ UNCHANGED <<acked, forgotten, pc, job>>
      BY <1>13, LapsedRow DEF Tick, IInv, TypeOK
    <2>2. \A d \in Deliveries : Answered(d) => Answered(d)'
      BY <2>1 DEF Answered, Holds
    <2> QED
      BY <1>1, <2>1, <2>2, AnswersKept
  <1>14. CASE UNCHANGED vars
    BY <1>2, <1>14 DEF vars
  <1> QED
    BY <1>3, <1>4, <1>6, <1>7, <1>8, <1>9, <1>10, <1>11, <1>12, <1>13, <1>14
    DEF Next, WorkerStep

\* A receiver that answered 2xx is sent the delivery again only after that
\* answer was rolled back; duplicates, retries and recovery do not do it.
THEOREM AcceptedOnceAlways == Spec => []AcceptedOnce
  <1>1. Init => AcceptedOnce
    BY DEF Init, AcceptedOnce
  <1>2. IInv /\ AcceptedOnce /\ [Next]_vars => AcceptedOnce'
    BY AnswerStep
  <1> QED
    BY <1>1, <1>2, InvariantHolds, PTL DEF Spec

-----------------------------------------------------------------------------
(* Every row is in reach *)

InReach(d) == d \in toDispatch \/ InQueue(d) \/ Handled(d)

Undated(d) == row[d].status = "pending" /\ row[d].dueIn = Null

Reachable == aborts = 0 => \A d \in Deliveries : Undated(d) => InReach(d)

\* A message that waits is still there after a tick.
LEMMA TickKeepsMessages ==
  ASSUME TypeOK, Tick, NEW d \in Deliveries, InQueue(d)
  PROVE  InQueue(d)'
  <1> USE Delays
  <1>1. PICK k \in 0..MaxDelay : queue[d][k] > 0
    BY DEF InQueue
  <1>2. \A i \in 0..MaxDelay : queue[d][i] \in Nat
    BY DEF TypeOK
  <1>3. ASSUME NEW i \in 0..MaxDelay
        PROVE  queue'[d][i] = (IF i < MaxDelay THEN queue[d][i + 1] ELSE 0)
                                + (IF i = 0 THEN queue[d][0] ELSE 0)
    BY DEF Tick
  <1>4. CASE k = 0
    <2>1. queue'[d][0] = queue[d][1] + queue[d][0]
      BY <1>3
    <2> QED
      BY <1>1, <1>2, <1>4, <2>1 DEF InQueue
  <1>5. CASE k # 0
    <2>1. k - 1 \in 0..MaxDelay /\ k - 1 < MaxDelay /\ (k - 1) + 1 = k
      BY <1>5
    <2>2. queue'[d][k - 1] = queue[d][k] + (IF k - 1 = 0 THEN queue[d][0] ELSE 0)
      BY <1>3, <2>1
    <2>3. queue'[d][k - 1] > 0
      BY <1>1, <1>2, <2>2
    <2> QED
      BY <2>1, <2>3 DEF InQueue
  <1> QED
    BY <1>4, <1>5

\* A message that is added is there, and the others stay.
LEMMA EnqueueKeepsMessages ==
  ASSUME TypeOK, NEW c \in Deliveries, NEW k \in 0..MaxDelay, Enqueue(c, k)
  PROVE  InQueue(c)' /\ \A d \in Deliveries : InQueue(d) => InQueue(d)'
  <1>1. /\ queue'[c][k] = queue[c][k] + 1
        /\ \A i \in (0..MaxDelay) \ {k} : queue'[c][i] = queue[c][i]
        /\ \A d \in Deliveries \ {c} : queue'[d] = queue[d]
    BY Delays DEF Enqueue, TypeOK
  <1>2. queue[c][k] \in Nat
    BY Delays DEF TypeOK
  <1> QED
    BY <1>1, <1>2, Delays DEF InQueue

\* Steps that take nothing out of reach and leave no further row undated.
LEMMA ReachKept ==
  ASSUME Reachable, aborts' = 0 => aborts = 0,
         \A d \in Deliveries : Undated(d)' => Undated(d),
         \A d \in Deliveries : Undated(d) /\ InReach(d) => InReach(d)'
  PROVE  Reachable'
  BY DEF Reachable

\* A task that goes on keeps its row at hand.
LEMMA ReachWorker ==
  ASSUME Reachable, NEW w \in Workers, pc'[w] \in Holding,
         UNCHANGED <<aborts, row, toDispatch, job>>,
         \A d \in Deliveries : InQueue(d) => InQueue(d)',
         \A v \in Workers \ {w} : pc'[v] = pc[v]
  PROVE  Reachable'
  <1>1. \A d \in Deliveries : Undated(d)' <=> Undated(d)
    BY DEF Undated
  <1>2. \A d \in Deliveries : Handled(d) => Handled(d)'
    BY DEF Handled
  <1> QED
    BY <1>1, <1>2, ReachKept DEF InReach

\* Every step keeps undated rows in reach, as long as no task has failed.
LEMMA ReachStep ==
  ASSUME IInv, Reachable, [Next]_vars
  PROVE  Reachable'
  <1> USE DEF database, broker, worker, history
  <1>1. TypeOK /\ 0 \in 0..MaxDelay
    BY Delays DEF IInv
  <1>2. ASSUME UNCHANGED <<aborts, row, toDispatch, pc, job>>,
               \A d \in Deliveries : InQueue(d) => InQueue(d)'
        PROVE  Reachable'
    <2>1. \A d \in Deliveries : (Undated(d)' <=> Undated(d)) /\ (Handled(d)' <=> Handled(d))
      BY <1>2 DEF Undated, Handled
    <2> QED
      BY <1>2, <2>1, ReachKept DEF InReach
  <1>3. ASSUME UNCHANGED <<aborts, row, toDispatch, pc, job, queue>> PROVE Reachable'
    BY <1>2, <1>3 DEF InQueue
  <1>4. ASSUME Abort PROVE Reachable'
    BY <1>1, <1>4 DEF Abort, TypeOK, Reachable
  <1>5. ASSUME NEW S \in SUBSET Deliveries, FanOutCommit(S) PROVE Reachable'
    <2>1. /\ UNCHANGED <<queue, pc, job, aborts>>
          /\ toDispatch' = toDispatch \cup S
          /\ \A d \in Deliveries \ S : row'[d] = row[d]
      BY <1>5 DEF FanOutCommit
    <2>2. ASSUME NEW d \in Deliveries, InReach(d) \/ d \in S PROVE InReach(d)'
      BY <2>1, <2>2 DEF InReach, InQueue, Handled
    <2>3. \A d \in Deliveries \ S : Undated(d)' <=> Undated(d)
      BY <2>1 DEF Undated
    <2> QED
      BY <2>1, <2>2, <2>3 DEF Reachable
  <1>6. ASSUME NEW d \in Deliveries, FanOutDispatch(d) PROVE Reachable'
    <2>1. InQueue(d)' /\ \A c \in Deliveries : InQueue(c) => InQueue(c)'
      BY <1>1, <1>6, EnqueueKeepsMessages DEF FanOutDispatch
    <2>2. UNCHANGED <<row, pc, job, aborts>> /\ toDispatch' = toDispatch \ {d}
      BY <1>6 DEF FanOutDispatch
    <2>3. \A c \in Deliveries : (Undated(c)' <=> Undated(c)) /\ (Handled(c)' <=> Handled(c))
      BY <2>2 DEF Undated, Handled
    <2> QED
      BY <2>1, <2>2, <2>3, ReachKept DEF InReach
  <1>7. ASSUME NEW d \in Deliveries, Redeliver(d) \/ PollDispatch(d) PROVE Reachable'
    <2>1. \A c \in Deliveries : InQueue(c) => InQueue(c)'
      BY <1>1, <1>7, EnqueueKeepsMessages DEF Redeliver, PollDispatch
    <2> QED
      BY <1>2, <1>7, <2>1 DEF Redeliver, PollDispatch
  <1>8. ASSUME NEW w \in Workers, NEW d \in Deliveries, Receive(w, d) PROVE Reachable'
    <2>1. /\ pc[w] = "idle" /\ pc'[w] = "received" /\ job'[w] = d
          /\ \A v \in Workers \ {w} : pc'[v] = pc[v] /\ job'[v] = job[v]
          /\ \A c \in Deliveries \ {d} : queue'[c] = queue[c]
          /\ UNCHANGED <<row, toDispatch, aborts>>
      BY <1>8 DEF Receive, IInv, TypeOK
    <2>2. Handled(d)' /\ \A c \in Deliveries : Handled(c) => Handled(c)'
      BY <2>1 DEF Handled, Holding
    <2>3. \A c \in Deliveries \ {d} : InQueue(c) => InQueue(c)'
      BY <2>1 DEF InQueue
    <2>4. \A c \in Deliveries : Undated(c)' <=> Undated(c)
      BY <2>1 DEF Undated
    <2> QED
      BY <2>1, <2>2, <2>3, <2>4, ReachKept DEF InReach
  <1>9. ASSUME NEW w \in Workers, Skip(w) PROVE Reachable'
    <2>1. /\ pc[w] = "received" /\ ~Claimable(job[w])
          /\ \A v \in Workers \ {w} : pc'[v] = pc[v]
          /\ UNCHANGED <<row, toDispatch, queue, job, aborts>>
      BY <1>9 DEF Skip, Goto, OnlyWorker, IInv, TypeOK
    <2>2. ASSUME NEW d \in Deliveries, Undated(d), Handled(d) PROVE Handled(d)'
      <3>1. CASE d = job[w]
        <4>1. PICK v \in Workers : Holds(v, d)
          BY <2>1, <2>2, <3>1 DEF Claimable, MayRun, Undated, Locked
        <4>2. v # w
          BY <2>1, <4>1 DEF Holds, Holding
        <4> QED
          BY <2>1, <4>1, <4>2 DEF Handled, Holds
      <3>2. CASE d # job[w]
        BY <2>1, <2>2, <3>2 DEF Handled
      <3> QED
        BY <3>1, <3>2
    <2>3. \A d \in Deliveries : (Undated(d)' <=> Undated(d)) /\ (InQueue(d) <=> InQueue(d)')
      BY <2>1 DEF Undated, InQueue
    <2> QED
      BY <2>1, <2>2, <2>3, ReachKept DEF InReach
  <1>10. ASSUME NEW w \in Workers, NEW ok \in BOOLEAN,
                Claim(w) \/ FindEndpoint(w) \/ Cancel(w) \/ Post(w, ok)
         PROVE  Reachable'
    <2>1. /\ pc'[w] \in Holding
          /\ \A v \in Workers \ {w} : pc'[v] = pc[v]
          /\ UNCHANGED <<row, toDispatch, queue, job, aborts>>
      BY <1>10 DEF Claim, FindEndpoint, Cancel, Post, Goto, OnlyWorker, IInv, TypeOK, Holding
    <2>2. \A d \in Deliveries : InQueue(d) => InQueue(d)'
      BY <2>1 DEF InQueue
    <2> QED
      BY <2>1, <2>2, ReachWorker
  <1>11. ASSUME NEW w \in Workers, DispatchRetry(w) PROVE Reachable'
    <2>1. /\ pc'[w] \in Holding
          /\ \A v \in Workers \ {w} : pc'[v] = pc[v]
          /\ UNCHANGED <<row, toDispatch, job, aborts>>
      BY <1>11 DEF DispatchRetry, Goto, IInv, TypeOK, Holding
    <2>2. PICK c \in Deliveries, k \in 0..MaxDelay : Enqueue(c, k)
      <3>1. job[w] \in Deliveries /\ mem[w].attempt \in 1..Len(RetryDelays)
        BY <1>11, Delays
        DEF DispatchRetry, Goto, IInv, TypeOK, JobsNamed, HeldRows, HeldRow, Holding, Row
      <3>2. RetryDelays[mem[w].attempt] \in 0..MaxDelay
        BY <3>1, Delays
      <3>3. PICK c \in Deliveries, k \in 0..MaxDelay : c = job[w] /\ k = RetryDelays[mem[w].attempt]
        BY <3>1, <3>2
      <3> QED
        BY <1>11, <3>3 DEF DispatchRetry, Enqueue
    <2>3. \A d \in Deliveries : InQueue(d) => InQueue(d)'
      BY <1>1, <2>2, EnqueueKeepsMessages
    <2> QED
      BY <2>1, <2>3, ReachWorker
  <1>12. ASSUME NEW w \in Workers, Commit(w) PROVE Reachable'
    <2>1. PICK d \in Deliveries : d = job[w] /\ HeldRow(w) /\ pc[w] = "committing"
      BY <1>12 DEF Commit, Goto, IInv, JobsNamed, HeldRows, Holding
    <2>2. /\ row'[d] = mem[w]
          /\ \A c \in Deliveries \ {d} : row'[c] = row[c]
          /\ \A v \in Workers \ {w} : pc'[v] = pc[v]
          /\ UNCHANGED <<toDispatch, queue, job, aborts>>
      BY <1>12, <2>1 DEF Commit, Goto, IInv, TypeOK
    <2>3. ~Undated(d)'
      BY <2>1, <2>2 DEF HeldRow, Undated
    <2>4. ASSUME NEW c \in Deliveries \ {d}
          PROVE  (Undated(c)' <=> Undated(c)) /\ (InReach(c) => InReach(c)')
      BY <2>1, <2>2 DEF Undated, InReach, InQueue, Handled
    <2> QED
      BY <2>2, <2>3, <2>4 DEF Reachable
  <1>13. ASSUME NEW w \in Workers, Ack(w) PROVE Reachable'
    <2>1. /\ pc[w] = "done"
          /\ \A v \in Workers \ {w} : pc'[v] = pc[v] /\ job'[v] = job[v]
          /\ UNCHANGED <<row, toDispatch, queue, aborts>>
      BY <1>13 DEF Ack, Release, IInv, TypeOK
    <2>2. \A d \in Deliveries : Handled(d) => Handled(d)'
      BY <2>1 DEF Handled, Holding
    <2>3. \A d \in Deliveries : (Undated(d)' <=> Undated(d)) /\ (InQueue(d) <=> InQueue(d)')
      BY <2>1 DEF Undated, InQueue
    <2> QED
      BY <2>1, <2>2, <2>3, ReachKept DEF InReach
  <1>14. ASSUME NEW e \in Endpoints, DeactivateEndpoint(e) PROVE Reachable'
    BY <1>3, <1>14 DEF DeactivateEndpoint
  <1>15. ASSUME PollSelect PROVE Reachable'
    BY <1>3, <1>15 DEF PollSelect
  <1>16. ASSUME Tick PROVE Reachable'
    <2>1. \A d \in Deliveries : row'[d].status = row[d].status /\ (row'[d].dueIn = Null <=> row[d].dueIn = Null)
      BY <1>1, <1>16, LapsedRow DEF Tick, TypeOK
    <2>2. UNCHANGED <<toDispatch, pc, job, aborts>>
      BY <1>16 DEF Tick
    <2>3. \A d \in Deliveries : (Undated(d)' <=> Undated(d)) /\ (Handled(d)' <=> Handled(d))
      BY <2>1, <2>2 DEF Undated, Handled
    <2>4. \A d \in Deliveries : InQueue(d) => InQueue(d)'
      BY <1>1, <1>16, TickKeepsMessages
    <2> QED
      BY <2>2, <2>3, <2>4, ReachKept DEF InReach
  <1>17. CASE UNCHANGED vars
    BY <1>3, <1>17 DEF vars
  <1> QED
    BY <1>4, <1>5, <1>6, <1>7, <1>8, <1>9, <1>10, <1>11, <1>12, <1>13, <1>14, <1>15, <1>16, <1>17
    DEF Next, WorkerStep, WorkerAborts, FanOutDies, TaskFails, WorkerDies, PollDies

\* A row without a date is always on its way to a worker while no task has
\* failed, and a row that was tried once always has a date.
THEOREM NeverStrandedAlways == Spec => []NeverStranded
  <1>1. Init => Reachable
    BY DEF Init, Reachable, Undated, NoRow
  <1>2. IInv /\ Reachable /\ [Next]_vars => Reachable'
    BY ReachStep
  <1>3. IInv /\ Reachable => NeverStranded
    <2> SUFFICES ASSUME IInv, Reachable, NEW d \in Deliveries, Undated(d)
                 PROVE  row[d].attempt = 0 /\ (aborts = 0 => InReach(d))
      BY DEF NeverStranded, Undated, InReach
    <2>1. row[d].attempt \in Nat
      BY Delays DEF IInv, TypeOK, Row
    <2> QED
      BY <2>1 DEF IInv, UnsettledRows, Undated, Reachable
  <1> QED
    BY <1>1, <1>2, <1>3, InvariantHolds, PTL DEF Spec

-----------------------------------------------------------------------------
(* How often a receiver can hear of a delivery *)

(* A POST is forgotten with a failure, and a failure forgets one of them.  *)
ForgottenPaid == \A d \in Deliveries : forgotten[d] <= aborts

(* A delivery is posted once, once for each retry delay, and once more for *)
(* each failure.                                                           *)
PostsBounded == \A d \in Deliveries : posts[d] <= Len(RetryDelays) + 1 + aborts

\* Steps that forget nothing.
LEMMA ForgottenKept ==
  ASSUME IInv, ForgottenPaid, UNCHANGED forgotten, UNCHANGED aborts \/ Abort
  PROVE  ForgottenPaid'
  <1>1. aborts \in Nat /\ aborts' \in {aborts, aborts + 1}
    BY BoundAssumption DEF IInv, TypeOK, Abort
  <1>2. \A d \in Deliveries : forgotten[d] \in Nat
    BY DEF IInv, TypeOK
  <1> QED
    BY <1>1, <1>2 DEF ForgottenPaid

\* A failure that rolls a transaction back.
LEMMA ForgottenRollback ==
  ASSUME IInv, ForgottenPaid, NEW w \in Workers, Rollback(w), Abort
  PROVE  ForgottenPaid'
  <1>1. aborts \in Nat /\ aborts' = aborts + 1
    BY BoundAssumption DEF IInv, TypeOK, Abort
  <1>2. ASSUME NEW d \in Deliveries
        PROVE  forgotten[d] \in Nat /\ forgotten'[d] \in {forgotten[d], forgotten[d] + 1}
    BY DEF IInv, TypeOK, Rollback
  <1> QED
    BY <1>1, <1>2 DEF ForgottenPaid

LEMMA ForgottenStep == IInv /\ ForgottenPaid /\ [Next]_vars => ForgottenPaid'
  <1> SUFFICES ASSUME IInv, ForgottenPaid, [Next]_vars PROVE ForgottenPaid'
    OBVIOUS
  <1>1. ASSUME NEW w \in Workers, WorkerAborts(w) PROVE ForgottenPaid'
    BY <1>1, ForgottenRollback DEF WorkerAborts, TaskFails, WorkerDies
  <1>2. CASE (\E S \in SUBSET Deliveries : FanOutDies(S)) \/ PollDies
    BY <1>2, ForgottenKept DEF FanOutDies, PollDies, history
  <1>3. ASSUME NEW w \in Workers, WorkerStep(w) PROVE UNCHANGED <<forgotten, aborts>>
    BY <1>3 DEF WorkerStep, Skip, Claim, FindEndpoint, Cancel, Post, DispatchRetry, Commit, Ack,
                OnlyWorker, history
  <1>4. CASE \/ \E S \in SUBSET Deliveries : FanOutCommit(S)
             \/ \E d \in Deliveries : FanOutDispatch(d) \/ Redeliver(d) \/ PollDispatch(d)
             \/ \E w \in Workers, d \in Deliveries : Receive(w, d)
             \/ PollSelect \/ (\E e \in Endpoints : DeactivateEndpoint(e)) \/ Tick
             \/ UNCHANGED vars
    <2>1. UNCHANGED <<forgotten, aborts>>
      BY <1>4 DEF FanOutCommit, FanOutDispatch, Redeliver, PollDispatch, Receive, PollSelect,
                  DeactivateEndpoint, Tick, vars, history
    <2> QED
      BY <2>1, ForgottenKept
  <1> QED
    BY <1>1, <1>2, <1>3, <1>4, ForgottenKept DEF Next

\* However many messages name a row (retries, duplicates, recoveries), in
\* whatever order workers take them, a receiver hears of a delivery no more than
\* 1 + len(RETRY_DELAYS_SECONDS) times, and once more for each failure.
THEOREM PostsAlwaysBounded == Spec => []PostsBounded
  <1>1. Init => ForgottenPaid
    <2> SUFFICES ASSUME Init PROVE ForgottenPaid
      OBVIOUS
    <2>1. aborts = 0 /\ \A d \in Deliveries : forgotten[d] = 0
      BY DEF Init
    <2> QED
      BY <2>1 DEF ForgottenPaid
  <1>2. ASSUME IInv, PostsAccounted, ForgottenPaid, NEW d \in Deliveries
        PROVE  posts[d] <= Len(RetryDelays) + 1 + aborts
    <2> DEFINE n == Len(RetryDelays)
    <2>1. /\ n \in Nat /\ row[d].attempt \in 0..(n + 1)
          /\ forgotten[d] \in Nat /\ aborts \in Nat /\ forgotten[d] <= aborts
      BY <1>2, Delays, BoundAssumption DEF IInv, TypeOK, Row, ForgottenPaid
    <2>2. ASSUME InFlight(d) PROVE row[d].attempt <= n
      <3>1. PICK w \in Workers : pc[w] \in Holding /\ job[w] = d
        BY <2>2 DEF InFlight, Holds
      <3>2. row[d].status = "pending"
        BY <1>2, <3>1 DEF IInv, HeldRows, HeldRow
      <3> QED
        BY <1>2, <3>2 DEF IInv, UnsettledRows
    <2>3. posts[d] = row[d].attempt + forgotten[d] + IF InFlight(d) THEN 1 ELSE 0
      BY <1>2 DEF PostsAccounted
    <2> HIDE DEF n
    <2>4. CASE InFlight(d)
      <3>1. posts[d] = row[d].attempt + forgotten[d] + 1 /\ row[d].attempt <= n
        BY <2>2, <2>3, <2>4
      <3>2. posts[d] <= n + 1 + aborts
        BY <2>1, <3>1
      <3> QED
        BY <3>2 DEF n
    <2>5. CASE ~InFlight(d)
      <3>1. posts[d] = row[d].attempt + forgotten[d] + 0
        BY <2>3, <2>5
      <3>2. posts[d] <= n + 1 + aborts
        BY <2>1, <3>1
      <3> QED
        BY <3>2 DEF n
    <2> QED
      BY <2>4, <2>5
  <1>3. IInv /\ PostsAccounted /\ ForgottenPaid => PostsBounded
    BY <1>2 DEF PostsBounded
  <1> QED
    BY <1>1, <1>3, ForgottenStep, InvariantHolds, PostsAlwaysAccounted, PTL DEF Spec
=============================================================================
