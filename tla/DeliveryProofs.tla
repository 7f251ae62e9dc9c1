--------------------------- MODULE DeliveryProofs ---------------------------
(***************************************************************************)
(* Proofs about Delivery, for any number of deliveries, endpoints and      *)
(* workers, any retry delays and any bounds.                               *)
(***************************************************************************)
EXTENDS Delivery, TLAPS

\* A busy worker's task names a delivery.
JobsNamed == \A w \in Workers : pc[w] # "idle" => job[w] \in Deliveries

\* A row somebody holds is still the one its claim found: pending and due.
\* What the holder will write follows from that row and from one POST.
HeldRow(w) ==
  LET d == job[w]
      r == row[d]
      m == mem[w]
      tried == m.attempt = r.attempt + 1
      retry == m.status = "pending" /\ tried /\ m.attempt <= Len(RetryDelays) /\ m.dueIn # Null
  IN  /\ r.status = "pending" /\ r.dueIn \in {Null, 0}
      /\ pc[w] \in {"claimed", "posting"} => m = r
      /\ pc[w] = "retrying" => retry
      /\ pc[w] = "committing" =>
           \/ m.status = "failed" /\ m.attempt = r.attempt /\ EndpointOf[d] \notin active
           \/ m.status = "success" /\ tried /\ acked[d] > 0
           \/ m.status = "exhausted" /\ tried /\ m.attempt = Len(RetryDelays) + 1
           \/ retry

HeldRows == \A w \in Workers : pc[w] \in Holding => HeldRow(w)

\* A row that is not inserted yet has no attempt; a pending row has a retry left
\* and, once tried, a date.
UnsettledRows ==
  \A d \in Deliveries :
    /\ row[d].status = "absent" => row[d].attempt = 0
    /\ row[d].status = "pending" =>
         row[d].attempt <= Len(RetryDelays) /\ (row[d].attempt > 0 => row[d].dueIn # Null)

IInv ==
  TypeOK /\ JobsNamed /\ OneSender /\ HeldRows /\ UnsettledRows /\ SettledTruthfully

-----------------------------------------------------------------------------
(* Lemmas about the operators *)

\* The delays are as many positive ticks as there are retries.
LEMMA Delays ==
  /\ MaxDelay \in Nat \ {0}
  /\ Len(RetryDelays) \in Nat
  /\ \A i \in 1..Len(RetryDelays) : RetryDelays[i] \in 1..MaxDelay
  BY DelayAssumption

\* Recorded counts the POST and decides the outcome, whatever the row.
LEMMA RecordedRow ==
  ASSUME NEW r \in Row, r.attempt <= Len(RetryDelays), NEW ok \in BOOLEAN
  PROVE  LET n == Recorded(r, ok)
         IN  /\ n \in Row
             /\ n.attempt = r.attempt + 1
             /\ \/ n.status = "success" /\ ok
                \/ n.status = "exhausted" /\ ~ok /\ n.attempt = Len(RetryDelays) + 1
                \/ n.status = "pending" /\ ~ok /\ n.attempt <= Len(RetryDelays) /\ n.dueIn # Null
  <1> DEFINE n == Recorded(r, ok)
  <1>1. r.attempt \in 0..Len(RetryDelays)
    BY Delays DEF Row
  <1>2. CASE ok
    BY <1>1, <1>2, Delays DEF Recorded, Retries, RetryAt,
              Row, Statuses, Settled, Timer
  <1>3. CASE ~ok /\ r.attempt < Len(RetryDelays)
    <2>1. RetryDelays[r.attempt + 1] \in 1..MaxDelay
      BY <1>1, <1>3, Delays
    <2>2. RetryDelays[r.attempt + 1] # Null
      BY <2>1, Delays, NullAssumption
    <2> QED
      BY <1>1, <1>3, <2>1, <2>2, Delays DEF Recorded, Retries, RetryAt,
              Row, Statuses, Settled, Timer
  <1>4. CASE ~ok /\ ~(r.attempt < Len(RetryDelays))
    BY <1>1, <1>4, Delays DEF Recorded, Retries, RetryAt,
              Row, Statuses, Settled, Timer
  <1> QED
    BY <1>2, <1>3, <1>4

\* A tick changes nothing of a row but its timer: a date stays a date, and what
\* is due stays due.
LEMMA LapsedRow ==
  ASSUME NEW r \in Row
  PROVE  LET n == [r EXCEPT !.dueIn = Lapse(@)]
         IN  /\ n \in Row
             /\ n.status = r.status /\ n.attempt = r.attempt
             /\ n.dueIn = Null <=> r.dueIn = Null
             /\ r.dueIn = 0 => n.dueIn = 0
  BY Delays, NullAssumption DEF Row, Lapse, Timer

\* Adding a message keeps the queue well typed.
LEMMA EnqueueType ==
  ASSUME TypeOK, NEW d \in Deliveries, NEW k \in 0..MaxDelay, Enqueue(d, k)
  PROVE  queue' \in [Deliveries -> [0..MaxDelay -> Nat]]
  <1>1. queue[d] \in [0..MaxDelay -> Nat]
    BY DEF TypeOK
  <1>2. queue[d][k] + 1 \in Nat
    BY <1>1, Delays
  <1>3. [queue[d] EXCEPT ![k] = @ + 1] \in [0..MaxDelay -> Nat]
    BY <1>1, <1>2
  <1> QED
    BY <1>3 DEF TypeOK, Enqueue

\* A rollback forgets at most one POST of one delivery.
LEMMA RollbackType ==
  ASSUME TypeOK, NEW w \in Workers, Rollback(w)
  PROVE  forgotten' \in [Deliveries -> Nat]
  <1>1. CASE Unsaved(w)
    <2>1. \A d \in Deliveries : forgotten[d] \in Nat /\ forgotten[d] + 1 \in Nat
      BY DEF TypeOK
    <2>2. forgotten' = [forgotten EXCEPT ![job[w]] = @ + 1]
      BY <1>1 DEF Rollback
    <2>3. \A d \in Deliveries : forgotten'[d] \in Nat
      BY <2>1, <2>2 DEF TypeOK
    <2> QED
      BY <2>2, <2>3 DEF TypeOK
  <1>2. CASE ~Unsaved(w)
    BY <1>2 DEF Rollback, TypeOK
  <1> QED
    BY <1>1, <1>2

\* Failures stay within their bound.
LEMMA AbortType ==
  ASSUME TypeOK, Abort
  PROVE  aborts' \in 0..MaxAborts
  BY BoundAssumption DEF TypeOK, Abort

-----------------------------------------------------------------------------
(* The type invariant *)

\* Every step keeps the types; what a POST records needs the other invariants.
LEMMA TypeStep ==
  ASSUME IInv, Next
  PROVE  TypeOK'
  <1> USE DEF vars, database, broker, worker, history
  <1> USE Delays
  <1>1. ASSUME NEW S \in SUBSET Deliveries, FanOutCommit(S) PROVE TypeOK'
    <2>1. NewRow \in Row
      BY DEF NewRow, Row, Statuses, Settled, Timer
    <2> QED
      BY <1>1, <2>1 DEF FanOutCommit, IInv, TypeOK
  <1>2. ASSUME NEW S \in SUBSET Deliveries, FanOutDies(S) PROVE TypeOK'
    BY <1>2, AbortType DEF FanOutDies, IInv, TypeOK
  <1>3. ASSUME NEW d \in Deliveries, FanOutDispatch(d) PROVE TypeOK'
    <2>1. queue' \in [Deliveries -> [0..MaxDelay -> Nat]]
      BY <1>3, EnqueueType DEF FanOutDispatch, IInv
    <2> QED
      BY <1>3, <2>1 DEF FanOutDispatch, IInv, TypeOK
  <1>4. ASSUME NEW d \in Deliveries, Redeliver(d) PROVE TypeOK'
    <2>1. queue' \in [Deliveries -> [0..MaxDelay -> Nat]]
      BY <1>4, EnqueueType DEF Redeliver, IInv
    <2>2. redeliveries' \in 0..MaxRedeliveries
      BY <1>4, BoundAssumption DEF Redeliver, IInv, TypeOK
    <2> QED
      BY <1>4, <2>1, <2>2 DEF Redeliver, IInv, TypeOK
  <1>5. ASSUME NEW d \in Deliveries, PollDispatch(d) PROVE TypeOK'
    <2>1. queue' \in [Deliveries -> [0..MaxDelay -> Nat]]
      BY <1>5, EnqueueType DEF PollDispatch, IInv
    <2> QED
      BY <1>5, <2>1 DEF PollDispatch, IInv, TypeOK
  <1>6. ASSUME NEW w \in Workers, NEW d \in Deliveries, Receive(w, d) PROVE TypeOK'
    <2>1. queue[d] \in [0..MaxDelay -> Nat]
      BY DEF IInv, TypeOK
    <2>2. [queue[d] EXCEPT ![0] = @ - 1] \in [0..MaxDelay -> Nat]
      BY <1>6, <2>1 DEF Receive
    <2>3. queue' \in [Deliveries -> [0..MaxDelay -> Nat]]
      BY <1>6, <2>2 DEF Receive, IInv, TypeOK
    <2> QED
      BY <1>6, <2>3 DEF Receive, IInv, TypeOK
  <1>7. ASSUME NEW w \in Workers, Skip(w) PROVE TypeOK'
    BY <1>7 DEF Skip, Goto, OnlyWorker, IInv, TypeOK
  <1>8. ASSUME NEW w \in Workers, Claim(w) PROVE TypeOK'
    BY <1>8 DEF Claim, Goto, OnlyWorker, IInv, TypeOK, JobsNamed, Holding
  <1>9. ASSUME NEW w \in Workers, FindEndpoint(w) PROVE TypeOK'
    BY <1>9 DEF FindEndpoint, Goto, OnlyWorker, IInv, TypeOK, Holding
  <1>10. ASSUME NEW w \in Workers, Cancel(w) PROVE TypeOK'
    BY <1>10 DEF Cancel, Goto, OnlyWorker, IInv, TypeOK, Holding, Row, Statuses, Settled
  <1>11. ASSUME NEW w \in Workers, NEW ok \in BOOLEAN, Post(w, ok) PROVE TypeOK'
    <2>1. mem[w] \in Row /\ mem[w].attempt <= Len(RetryDelays) /\ job[w] \in Deliveries
      BY <1>11 DEF Post, Goto, IInv, TypeOK, JobsNamed, HeldRows, HeldRow, UnsettledRows, Holding
    <2>2. Recorded(mem[w], ok) \in Row
      BY <2>1, RecordedRow
    <2>3. posts' \in [Deliveries -> Nat] /\ acked' \in [Deliveries -> Nat]
      BY <1>11, <2>1 DEF Post, IInv, TypeOK
    <2>4. pc' \in [Workers -> {"idle", "received", "done"} \cup Holding]
      BY <1>11 DEF Post, Goto, IInv, TypeOK, Holding
    <2> QED
      BY <1>11, <2>2, <2>3, <2>4 DEF Post, IInv, TypeOK
  <1>12. ASSUME NEW w \in Workers, DispatchRetry(w) PROVE TypeOK'
    <2>1. job[w] \in Deliveries /\ mem[w].attempt \in 1..Len(RetryDelays)
      BY <1>12 DEF DispatchRetry, Goto, IInv, TypeOK, JobsNamed, HeldRows, HeldRow, Holding, Row
    <2>2. RetryDelays[mem[w].attempt] \in 0..MaxDelay
      BY <2>1
    <2> QED
      BY <1>12, <2>1, <2>2, EnqueueType DEF DispatchRetry, Goto, IInv, TypeOK, Holding
  <1>13. ASSUME NEW w \in Workers, Commit(w) PROVE TypeOK'
    BY <1>13 DEF Commit, Goto, IInv, TypeOK, JobsNamed
  <1>14. NoRow \in Row
    BY DEF NoRow, Row, Statuses, Settled, Timer
  <1>15. ASSUME NEW w \in Workers, Ack(w) PROVE TypeOK'
    BY <1>14, <1>15 DEF Ack, Release, IInv, TypeOK
  <1>16. ASSUME NEW w \in Workers, TaskFails(w) PROVE TypeOK'
    <2>1. forgotten' \in [Deliveries -> Nat]
      BY <1>16, RollbackType DEF TaskFails, IInv
    <2> QED
      BY <1>14, <1>16, <2>1, AbortType DEF TaskFails, Rollback, Release, IInv, TypeOK
  <1>17. ASSUME NEW w \in Workers, WorkerDies(w) PROVE TypeOK'
    <2>1. job[w] \in Deliveries
      BY <1>17 DEF WorkerDies, IInv, JobsNamed
    <2>2. queue' \in [Deliveries -> [0..MaxDelay -> Nat]]
      BY <1>17, <2>1, EnqueueType DEF WorkerDies, IInv
    <2>3. forgotten' \in [Deliveries -> Nat]
      BY <1>17, RollbackType DEF WorkerDies, IInv
    <2> QED
      BY <1>14, <1>17, <2>2, <2>3, AbortType DEF WorkerDies, Rollback, Release, IInv, TypeOK
  <1>18. ASSUME PollSelect PROVE TypeOK'
    BY <1>18 DEF PollSelect, DuePending, IInv, TypeOK
  <1>19. ASSUME PollDies PROVE TypeOK'
    BY <1>19, AbortType DEF PollDies, IInv, TypeOK
  <1>20. ASSUME NEW e \in Endpoints, DeactivateEndpoint(e) PROVE TypeOK'
    BY <1>20 DEF DeactivateEndpoint, IInv, TypeOK
  <1>21. ASSUME Tick PROVE TypeOK'
    <2>1. row' \in [Deliveries -> Row] /\ mem' \in [Workers -> Row]
      BY <1>21, LapsedRow DEF Tick, IInv, TypeOK
    <2>2. queue' \in [Deliveries -> [0..MaxDelay -> Nat]]
      <3>1. ASSUME NEW d \in Deliveries, NEW k \in 0..MaxDelay
            PROVE  (IF k < MaxDelay THEN queue[d][k + 1] ELSE 0)
                     + (IF k = 0 THEN queue[d][0] ELSE 0) \in Nat
        <4>1. queue[d] \in [0..MaxDelay -> Nat]
          BY DEF IInv, TypeOK
        <4>2. queue[d][0] \in Nat /\ (k < MaxDelay => queue[d][k + 1] \in Nat)
          BY <4>1
        <4> QED
          BY <4>2
      <3> QED
        BY <1>21, <3>1 DEF Tick
    <2> QED
      BY <1>21, <2>1, <2>2 DEF Tick, IInv, TypeOK
  <1> QED
    BY <1>1, <1>2, <1>3, <1>4, <1>5, <1>6, <1>7, <1>8, <1>9, <1>10, <1>11, <1>12, <1>13,
       <1>15, <1>16, <1>17, <1>18, <1>19, <1>20, <1>21
    DEF Next, WorkerStep, WorkerAborts

-----------------------------------------------------------------------------
(* The inductive invariant *)

\* Steps that touch neither the rows nor the workers nor what they rely on.
LEMMA Elsewhere ==
  ASSUME IInv, UNCHANGED <<row, active, worker, acked>>
  PROVE  JobsNamed' /\ OneSender' /\ HeldRows' /\ UnsettledRows' /\ SettledTruthfully'
  BY DEF IInv, worker, JobsNamed, OneSender, Holds, HeldRows, HeldRow, UnsettledRows, SettledTruthfully

\* Steps that touch no row leave what is said of rows alone true.
LEMMA RowsKept ==
  ASSUME IInv, UNCHANGED <<row, active, acked>>
  PROVE  UnsettledRows' /\ SettledTruthfully'
  BY DEF IInv, UnsettledRows, SettledTruthfully

\* A worker that lets go disturbs nobody.
LEMMA ReleaseKeeps ==
  ASSUME IInv, NEW w \in Workers, Release(w), UNCHANGED <<row, active, acked>>
  PROVE  JobsNamed' /\ OneSender' /\ HeldRows' /\ UnsettledRows' /\ SettledTruthfully'
  <1>1. /\ pc'[w] = "idle"
        /\ \A v \in Workers \ {w} : pc'[v] = pc[v] /\ job'[v] = job[v] /\ mem'[v] = mem[v]
    BY DEF Release, IInv, TypeOK
  <1>2. JobsNamed' /\ OneSender'
    BY <1>1 DEF IInv, JobsNamed, OneSender, Holds, Holding
  <1>3. HeldRows'
    BY <1>1 DEF IInv, HeldRows, HeldRow, Holding
  <1> QED
    BY <1>2, <1>3, RowsKept

\* A worker that goes on with its task and keeps its job, having held its row
\* before or found it unlocked: the others are where they were.
LEMMA WorkerKeeps ==
  ASSUME IInv, NEW w \in Workers, pc[w] # "idle",
         UNCHANGED <<row, active, acked, job>>,
         \A v \in Workers \ {w} : pc'[v] = pc[v] /\ mem'[v] = mem[v],
         pc'[w] \in Holding => (pc[w] \in Holding \/ ~Locked(job[w])) /\ HeldRow(w)'
  PROVE  JobsNamed' /\ OneSender' /\ HeldRows' /\ UnsettledRows' /\ SettledTruthfully'
  <1>1. JobsNamed'
    BY DEF IInv, JobsNamed
  <1>2. OneSender'
    BY DEF IInv, OneSender, Holds, Locked
  <1>3. HeldRows'
    BY DEF IInv, HeldRows, HeldRow
  <1> QED
    BY <1>1, <1>2, <1>3, RowsKept

\* The fan-out adds rows nobody holds yet.
LEMMA FanOutCommitKeeps ==
  ASSUME IInv, NEW S \in SUBSET Deliveries, FanOutCommit(S)
  PROVE  JobsNamed' /\ OneSender' /\ HeldRows' /\ UnsettledRows' /\ SettledTruthfully'
  <1> USE DEF worker, history
  <1>1. UNCHANGED <<active, pc, job, mem, acked>>
    BY DEF FanOutCommit
  <1>2. \A d \in Deliveries :
          row'[d] = row[d] \/ (row[d].status = "absent" /\ row'[d] = NewRow)
    BY DEF FanOutCommit
  <1>3. JobsNamed' /\ OneSender'
    BY <1>1 DEF IInv, JobsNamed, OneSender, Holds
  <1>4. HeldRows'
    <2> SUFFICES ASSUME NEW w \in Workers, pc[w] \in Holding PROVE HeldRow(w)'
      BY <1>1 DEF HeldRows
    <2>1. job[w] \in Deliveries /\ HeldRow(w)
      BY DEF IInv, JobsNamed, HeldRows, Holding
    <2>2. row'[job[w]] = row[job[w]]
      BY <1>2, <2>1 DEF HeldRow
    <2> QED
      BY <1>1, <2>1, <2>2 DEF HeldRow
  <1>5. UnsettledRows' /\ SettledTruthfully'
    BY <1>1, <1>2, Delays DEF IInv, UnsettledRows, SettledTruthfully, NewRow
  <1> QED
    BY <1>3, <1>4, <1>5

\* A POST settles what its worker will commit.
LEMMA PostKeeps ==
  ASSUME IInv, NEW w \in Workers, NEW ok \in BOOLEAN, Post(w, ok)
  PROVE  JobsNamed' /\ OneSender' /\ HeldRows' /\ UnsettledRows' /\ SettledTruthfully'
  <1> USE DEF database
  <1> DEFINE r == Recorded(mem[w], ok)
  <1>1. /\ pc[w] = "posting" /\ job[w] \in Deliveries
        /\ mem[w] = row[job[w]] /\ HeldRow(w)
        /\ mem[w] \in Row /\ mem[w].attempt <= Len(RetryDelays)
    BY DEF Post, Goto, IInv, TypeOK, JobsNamed, HeldRows, HeldRow, UnsettledRows, Holding
  <1>2. UNCHANGED <<row, active, job>>
    BY DEF Post
  <1>3. /\ mem'[w] = r
        /\ pc'[w] = IF r.status = "pending" THEN "retrying" ELSE "committing"
        /\ \A v \in Workers \ {w} : pc'[v] = pc[v] /\ mem'[v] = mem[v]
    BY DEF Post, Goto, IInv, TypeOK
  <1>4. /\ \A d \in Deliveries : acked[d] > 0 => acked'[d] > 0
        /\ ok => acked'[job[w]] > 0
    BY <1>1 DEF Post, IInv, TypeOK
  <1>5. JobsNamed' /\ OneSender'
    BY <1>1, <1>2, <1>3 DEF IInv, JobsNamed, OneSender, Holds, Holding
  <1>6. HeldRow(w)'
    <2> HIDE DEF r
    <2>1. /\ r.attempt = mem[w].attempt + 1
          /\ \/ r.status = "success" /\ ok
             \/ r.status = "exhausted" /\ r.attempt = Len(RetryDelays) + 1
             \/ r.status = "pending" /\ r.attempt <= Len(RetryDelays) /\ r.dueIn # Null
      BY <1>1, RecordedRow DEF r
    <2> QED
      BY <1>1, <1>2, <1>3, <1>4, <2>1 DEF HeldRow
  <1>7. ASSUME NEW v \in Workers \ {w}, pc[v] \in Holding PROVE HeldRow(v)'
    <2>1. HeldRow(v) /\ job[v] \in Deliveries
      BY <1>7 DEF IInv, HeldRows, JobsNamed, Holding
    <2> QED
      BY <1>2, <1>3, <1>4, <2>1 DEF HeldRow
  <1>8. HeldRows'
    BY <1>3, <1>6, <1>7 DEF HeldRows
  <1>9. UnsettledRows' /\ SettledTruthfully'
    BY <1>2, <1>4 DEF IInv, UnsettledRows, SettledTruthfully
  <1> QED
    BY <1>5, <1>8, <1>9

\* A commit writes the row of the only worker that holds it.
LEMMA CommitKeeps ==
  ASSUME IInv, NEW w \in Workers, Commit(w)
  PROVE  JobsNamed' /\ OneSender' /\ HeldRows' /\ UnsettledRows' /\ SettledTruthfully'
  <1> USE DEF history
  <1> DEFINE d == job[w]
  <1>1. /\ pc[w] = "committing" /\ d \in Deliveries /\ HeldRow(w)
        /\ mem[w] \in Row /\ row[d] \in Row
    BY DEF Commit, Goto, IInv, TypeOK, JobsNamed, HeldRows, Holding
  <1>2. UNCHANGED <<active, job, mem, acked>>
    BY DEF Commit
  <1>3. /\ pc'[w] = "done"
        /\ \A v \in Workers \ {w} : pc'[v] = pc[v]
        /\ row'[d] = mem[w]
        /\ \A c \in Deliveries \ {d} : row'[c] = row[c]
    BY <1>1 DEF Commit, Goto, IInv, TypeOK
  <1>4. JobsNamed' /\ OneSender'
    BY <1>1, <1>2, <1>3 DEF IInv, JobsNamed, OneSender, Holds, Holding
  <1>5. ASSUME NEW v \in Workers, pc'[v] \in Holding PROVE HeldRow(v)'
    <2>1. v # w /\ pc'[v] = pc[v] /\ HeldRow(v) /\ job[v] \in Deliveries
      BY <1>3, <1>5 DEF IInv, HeldRows, JobsNamed, Holding
    <2>2. job[v] # d
      BY <1>1, <1>5, <2>1 DEF IInv, OneSender, Holds, Holding
    <2> QED
      BY <1>2, <1>3, <2>1, <2>2 DEF HeldRow
  <1>6. UnsettledRows' /\ SettledTruthfully'
    <2>1. /\ mem[w].status # "absent"
          /\ mem[w].status = "pending" => mem[w].attempt <= Len(RetryDelays) /\ mem[w].dueIn # Null
          /\ mem[w].status = "success" => acked[d] > 0
          /\ mem[w].status = "exhausted" => mem[w].attempt = Len(RetryDelays) + 1
          /\ mem[w].status = "failed" => EndpointOf[d] \notin active
      BY <1>1 DEF HeldRow
    <2> QED
      BY <1>1, <1>2, <1>3, <2>1 DEF IInv, UnsettledRows, SettledTruthfully
  <1> QED
    BY <1>4, <1>5, <1>6 DEF HeldRows

\* Timers lapse alike in the table and in the sessions.
LEMMA TickKeeps ==
  ASSUME IInv, Tick
  PROVE  JobsNamed' /\ OneSender' /\ HeldRows' /\ UnsettledRows' /\ SettledTruthfully'
  <1> USE DEF history
  <1>1. UNCHANGED <<active, pc, job, acked>>
    BY DEF Tick
  <1>2. \A d \in Deliveries :
          /\ row'[d].status = row[d].status /\ row'[d].attempt = row[d].attempt
          /\ row'[d].dueIn = Null <=> row[d].dueIn = Null
          /\ row[d].dueIn = 0 => row'[d].dueIn = 0
    BY LapsedRow DEF Tick, IInv, TypeOK
  <1>3. \A w \in Workers :
          /\ mem'[w].status = mem[w].status /\ mem'[w].attempt = mem[w].attempt
          /\ mem'[w].dueIn = Null <=> mem[w].dueIn = Null
    BY LapsedRow DEF Tick, IInv, TypeOK
  <1>4. JobsNamed' /\ OneSender'
    BY <1>1 DEF IInv, JobsNamed, OneSender, Holds
  <1>5. ASSUME NEW w \in Workers, pc[w] \in Holding PROVE HeldRow(w)'
    <2>1. HeldRow(w) /\ job[w] \in Deliveries
      BY <1>5 DEF IInv, HeldRows, JobsNamed, Holding
    <2>2. mem[w] = row[job[w]] => mem'[w] = row'[job[w]]
      BY <2>1 DEF Tick
    <2> QED
      BY <1>1, <1>2, <1>3, <2>1, <2>2 DEF HeldRow
  <1>6. UnsettledRows' /\ SettledTruthfully'
    BY <1>1, <1>2 DEF IInv, UnsettledRows, SettledTruthfully
  <1> QED
    BY <1>1, <1>4, <1>5, <1>6 DEF HeldRows

\* Every step keeps the inductive invariant.
LEMMA InvariantStep ==
  ASSUME IInv, [Next]_vars
  PROVE  IInv'
  <1> USE DEF database, broker, worker, history
  <1> DEFINE Goal == JobsNamed' /\ OneSender' /\ HeldRows' /\ UnsettledRows' /\ SettledTruthfully'
  <1>1. ASSUME NEW S \in SUBSET Deliveries, FanOutCommit(S) PROVE Goal
    BY <1>1, FanOutCommitKeeps
  <1>2. ASSUME NEW S \in SUBSET Deliveries, FanOutDies(S) PROVE Goal
    BY <1>2, Elsewhere DEF FanOutDies
  <1>3. ASSUME NEW d \in Deliveries, FanOutDispatch(d) \/ Redeliver(d) \/ PollDispatch(d)
        PROVE  Goal
    BY <1>3, Elsewhere DEF FanOutDispatch, Redeliver, PollDispatch
  <1>4. ASSUME NEW w \in Workers, NEW d \in Deliveries, Receive(w, d) PROVE Goal
    <2>1. /\ pc[w] = "idle" /\ pc'[w] = "received" /\ job'[w] = d
          /\ \A v \in Workers \ {w} : pc'[v] = pc[v] /\ job'[v] = job[v]
          /\ UNCHANGED <<row, active, acked, mem>>
      BY <1>4 DEF Receive, IInv, TypeOK
    <2>2. JobsNamed' /\ OneSender' /\ HeldRows'
      BY <2>1 DEF IInv, JobsNamed, OneSender, Holds, HeldRows, HeldRow, Holding
    <2> QED
      BY <2>1, <2>2, RowsKept
  <1>5. ASSUME NEW w \in Workers, Skip(w) PROVE Goal
    <2>1. /\ pc[w] = "received" /\ pc'[w] = "done"
          /\ \A v \in Workers \ {w} : pc'[v] = pc[v] /\ mem'[v] = mem[v]
          /\ UNCHANGED <<row, active, acked, job>>
      BY <1>5 DEF Skip, Goto, OnlyWorker, IInv, TypeOK
    <2> QED
      BY <2>1, WorkerKeeps DEF Holding
  <1>6. ASSUME NEW w \in Workers, Claim(w) PROVE Goal
    <2>1. /\ pc[w] = "received" /\ pc'[w] = "claimed" /\ mem'[w] = row[job[w]]
          /\ MayRun(row[job[w]]) /\ ~Locked(job[w])
          /\ \A v \in Workers \ {w} : pc'[v] = pc[v] /\ mem'[v] = mem[v]
          /\ UNCHANGED <<row, active, acked, job>>
      BY <1>6 DEF Claim, Claimable, Goto, OnlyWorker, IInv, TypeOK
    <2>2. HeldRow(w)'
      BY <2>1 DEF HeldRow, MayRun
    <2> QED
      BY <2>1, <2>2, WorkerKeeps
  <1>7. ASSUME NEW w \in Workers, FindEndpoint(w) PROVE Goal
    <2>1. /\ pc[w] = "claimed" /\ pc'[w] = "posting"
          /\ \A v \in Workers \ {w} : pc'[v] = pc[v] /\ mem'[v] = mem[v]
          /\ UNCHANGED <<row, active, acked, job, mem>>
      BY <1>7 DEF FindEndpoint, Goto, OnlyWorker, IInv, TypeOK
    <2>2. HeldRow(w)'
      BY <2>1 DEF IInv, HeldRows, HeldRow, Holding
    <2> QED
      BY <2>1, <2>2, WorkerKeeps DEF Holding
  <1>8. ASSUME NEW w \in Workers, Cancel(w) PROVE Goal
    <2>1. /\ pc[w] = "claimed" /\ pc'[w] = "committing"
          /\ mem'[w].status = "failed" /\ mem'[w].attempt = mem[w].attempt
          /\ EndpointOf[job[w]] \notin active
          /\ \A v \in Workers \ {w} : pc'[v] = pc[v] /\ mem'[v] = mem[v]
          /\ UNCHANGED <<row, active, acked, job>>
      BY <1>8 DEF Cancel, Goto, OnlyWorker, IInv, TypeOK, Row
    <2>2. HeldRow(w)'
      BY <2>1 DEF IInv, HeldRows, HeldRow, Holding
    <2> QED
      BY <2>1, <2>2, WorkerKeeps DEF Holding
  <1>9. ASSUME NEW w \in Workers, NEW ok \in BOOLEAN, Post(w, ok) PROVE Goal
    BY <1>9, PostKeeps
  <1>10. ASSUME NEW w \in Workers, DispatchRetry(w) PROVE Goal
    <2>1. /\ pc[w] = "retrying" /\ pc'[w] = "committing"
          /\ \A v \in Workers \ {w} : pc'[v] = pc[v] /\ mem'[v] = mem[v]
          /\ UNCHANGED <<row, active, acked, job, mem>>
      BY <1>10 DEF DispatchRetry, Goto, IInv, TypeOK
    <2>2. HeldRow(w)'
      BY <2>1 DEF IInv, HeldRows, HeldRow, Holding
    <2> QED
      BY <2>1, <2>2, WorkerKeeps DEF Holding
  <1>11. ASSUME NEW w \in Workers, Commit(w) PROVE Goal
    BY <1>11, CommitKeeps
  <1>12. ASSUME NEW w \in Workers, Ack(w) \/ TaskFails(w) \/ WorkerDies(w) PROVE Goal
    <2>1. Release(w) /\ UNCHANGED <<row, active, acked>>
      BY <1>12 DEF Ack, TaskFails, WorkerDies, Rollback
    <2> QED
      BY <2>1, ReleaseKeeps
  <1>13. ASSUME PollSelect \/ PollDies PROVE Goal
    BY <1>13, Elsewhere DEF PollSelect, PollDies
  <1>14. ASSUME NEW e \in Endpoints, DeactivateEndpoint(e) PROVE Goal
    <2>1. active' \subseteq active /\ UNCHANGED <<row, pc, job, mem, acked>>
      BY <1>14 DEF DeactivateEndpoint
    <2> QED
      BY <2>1 DEF IInv, JobsNamed, OneSender, Holds, HeldRows, HeldRow, UnsettledRows, SettledTruthfully
  <1>15. ASSUME Tick PROVE Goal
    BY <1>15, TickKeeps
  <1>16. CASE Next
    <2>1. Goal
      BY <1>1, <1>2, <1>3, <1>4, <1>5, <1>6, <1>7, <1>8, <1>9, <1>10, <1>11, <1>12, <1>13,
         <1>14, <1>15, <1>16
      DEF Next, WorkerStep, WorkerAborts
    <2> QED
      BY <1>16, <2>1, TypeStep DEF IInv
  <1>17. CASE UNCHANGED vars
    <2>1. Goal
      BY <1>17, Elsewhere DEF vars
    <2>2. TypeOK'
      BY <1>17 DEF vars, IInv, TypeOK
    <2> QED
      BY <2>1, <2>2 DEF IInv
  <1> QED
    BY <1>16, <1>17

\* The inductive invariant holds at the start.
LEMMA InvariantInit ==
  ASSUME Init
  PROVE  IInv
  <1>1. NoRow \in Row
    BY Delays DEF NoRow, Row, Statuses, Settled, Timer
  <1>2. TypeOK
    BY <1>1, Delays, BoundAssumption DEF Init, TypeOK
  <1>3. \A w \in Workers : pc[w] = "idle"
    BY DEF Init
  <1>4. \A d \in Deliveries : row[d].status = "absent" /\ row[d].attempt = 0
    BY DEF Init, NoRow
  <1> QED
    BY <1>2, <1>3, <1>4
    DEF IInv, JobsNamed, OneSender, Holds, Holding, HeldRows, UnsettledRows, SettledTruthfully

\* The inductive invariant holds in every state of every behaviour.
THEOREM InvariantHolds == Spec => []IInv
  BY InvariantInit, InvariantStep, PTL DEF Spec

-----------------------------------------------------------------------------
(* What follows from it *)

\* Rows, messages, workers and counters always have their types; attempt_number
\* never exceeds the number of retries by more than one.
THEOREM TypeCorrect == Spec => []TypeOK
  <1>1. IInv => TypeOK
    BY DEF IInv
  <1> QED
    BY <1>1, InvariantHolds, PTL

\* However many workers, messages, crashes and recoveries there are, no row is
\* ever held, and so never sent, by two workers at once.
THEOREM OneSenderAlways == Spec => []OneSender
  <1>1. IInv => OneSender
    BY DEF IInv
  <1> QED
    BY <1>1, InvariantHolds, PTL

\* A settled row says what happened to it: answered, out of retries, or its
\* endpoint deactivated.
THEOREM SettledTruthfullyAlways == Spec => []SettledTruthfully
  <1>1. IInv => SettledTruthfully
    BY DEF IInv
  <1> QED
    BY <1>1, InvariantHolds, PTL

-----------------------------------------------------------------------------
(* Delivery implements DeliveryLifecycle *)

StatusOf == [d \in Deliveries |-> row[d].status]
AttemptOf == [d \in Deliveries |-> row[d].attempt]
Accepting == {d \in Deliveries : acked[d] > 0}

\* Steps the abstract specification does not see.
LEMMA Unseen ==
  ASSUME UNCHANGED acked,
         \A d \in Deliveries : row'[d].status = row[d].status /\ row'[d].attempt = row[d].attempt
  PROVE  UNCHANGED Lifecycle!vars
  BY DEF Lifecycle!vars

\* The fan-out's commit creates its rows.
LEMMA CreateStep ==
  ASSUME IInv, NEW S \in SUBSET Deliveries, FanOutCommit(S)
  PROVE  Lifecycle!Create(S)
  <1>1. /\ S # {} /\ \A d \in S : row[d].status = "absent"
        /\ UNCHANGED acked
        /\ row' = [d \in Deliveries |-> IF d \in S THEN NewRow ELSE row[d]]
    BY DEF FanOutCommit, history
  <1>2. \A d \in Deliveries : row'[d].attempt = row[d].attempt
    BY <1>1 DEF IInv, UnsettledRows, NewRow
  <1>3. \A d \in Deliveries : row'[d].status = IF d \in S THEN "pending" ELSE row[d].status
    BY <1>1 DEF NewRow
  <1> QED
    BY <1>1, <1>2, <1>3 DEF Lifecycle!Create

\* A POST answered 2xx is an acceptance; any other is not seen.
LEMMA AcceptStep ==
  ASSUME IInv, NEW w \in Workers, NEW ok \in BOOLEAN, Post(w, ok),
         NEW d \in Deliveries, d = job[w]
  PROVE  Lifecycle!Accept(d) \/ UNCHANGED Lifecycle!vars
  <1> USE DEF database
  <1>1. row[d].status = "pending" /\ UNCHANGED row
    BY DEF Post, Goto, IInv, HeldRows, HeldRow, Holding
  <1>2. /\ acked[d] \in Nat
        /\ acked'[d] = IF ok THEN acked[d] + 1 ELSE acked[d]
        /\ \A c \in Deliveries \ {d} : acked'[c] = acked[c]
        /\ acked' \in [Deliveries -> Nat] /\ acked \in [Deliveries -> Nat]
    BY DEF Post, IInv, TypeOK
  <1>3. CASE ok
    <2>1. Accepting' = Accepting \cup {d}
      BY <1>2, <1>3 DEF Accepting
    <2> QED
      BY <1>1, <2>1 DEF Lifecycle!Accept, Accepting
  <1>4. CASE ~ok
    <2>1. UNCHANGED acked
      BY <1>2, <1>4
    <2> QED
      BY <1>1, <2>1, Unseen
  <1> QED
    BY <1>3, <1>4

\* A commit counts an attempt, or gives up a row whose endpoint is gone.
LEMMA RecordStep ==
  ASSUME IInv, NEW w \in Workers, Commit(w), NEW d \in Deliveries, d = job[w]
  PROVE  Lifecycle!Succeed(d) \/ Lifecycle!Retry(d) \/ Lifecycle!Exhaust(d) \/ Lifecycle!Cancel(d)
  <1>1. /\ pc[w] = "committing" /\ HeldRow(w)
        /\ mem[w].attempt \in Nat /\ row[d].attempt \in Nat
    BY Delays DEF Commit, Goto, IInv, TypeOK, HeldRows, Holding, Row
  <1>2. /\ UNCHANGED acked
        /\ row'[d] = mem[w]
        /\ \A c \in Deliveries \ {d} : row'[c] = row[c]
    BY DEF Commit, history, IInv, TypeOK
  <1>3. /\ StatusOf' = [StatusOf EXCEPT ![d] = mem[w].status]
        /\ AttemptOf' = [AttemptOf EXCEPT ![d] = mem[w].attempt]
        /\ StatusOf[d] = "pending" /\ AttemptOf[d] = row[d].attempt
    BY <1>1, <1>2 DEF StatusOf, AttemptOf, HeldRow
  <1>4. CASE mem[w].status = "failed" /\ mem[w].attempt = row[d].attempt
    <2>1. AttemptOf' = AttemptOf
      BY <1>3, <1>4 DEF AttemptOf
    <2> QED
      BY <1>2, <1>3, <1>4, <2>1 DEF Lifecycle!Cancel, StatusOf, AttemptOf
  <1>5. CASE mem[w].attempt = row[d].attempt + 1
    <2>1. AttemptOf' = [AttemptOf EXCEPT ![d] = @ + 1]
      BY <1>3, <1>5 DEF AttemptOf
    <2>2. ASSUME NEW s, mem[w].status = s PROVE Lifecycle!Attempted(d, s)
      BY <1>2, <1>3, <2>1, <2>2 DEF Lifecycle!Attempted, StatusOf, AttemptOf
    <2>3. CASE mem[w].status = "success" /\ acked[d] > 0
      BY <2>2, <2>3 DEF Lifecycle!Succeed
    <2>4. CASE mem[w].status = "exhausted" /\ mem[w].attempt = Len(RetryDelays) + 1
      BY <1>5, <2>2, <2>4 DEF Lifecycle!Exhaust
    <2>5. CASE mem[w].status = "pending" /\ mem[w].attempt <= Len(RetryDelays)
      <3>1. row[d].attempt + 1 < Len(RetryDelays) + 1
        BY <1>1, <1>5, <2>5, Delays
      <3> QED
        BY <2>2, <2>5, <3>1 DEF Lifecycle!Retry
    <2> QED
      BY <1>1, <1>5, <2>3, <2>4, <2>5 DEF HeldRow
  <1> QED
    BY <1>1, <1>4, <1>5 DEF HeldRow

\* Every step of the system is a step of the abstract specification or none.
LEMMA LifecycleStep ==
  ASSUME IInv, [Next]_vars
  PROVE  [Lifecycle!Next]_(Lifecycle!vars)
  <1> USE DEF database, broker, worker, history
  <1>1. ASSUME UNCHANGED <<row, acked>> PROVE UNCHANGED Lifecycle!vars
    BY <1>1, Unseen
  <1>2. ASSUME NEW S \in SUBSET Deliveries, FanOutCommit(S) PROVE Lifecycle!Next
    BY <1>2, CreateStep DEF Lifecycle!Next
  <1>3. ASSUME NEW S \in SUBSET Deliveries, FanOutDies(S) PROVE UNCHANGED Lifecycle!vars
    BY <1>1, <1>3 DEF FanOutDies
  <1>4. ASSUME NEW d \in Deliveries, FanOutDispatch(d) \/ Redeliver(d) \/ PollDispatch(d)
        PROVE  UNCHANGED Lifecycle!vars
    BY <1>1, <1>4 DEF FanOutDispatch, Redeliver, PollDispatch
  <1>5. ASSUME NEW w \in Workers, NEW d \in Deliveries, Receive(w, d)
        PROVE  UNCHANGED Lifecycle!vars
    BY <1>1, <1>5 DEF Receive
  <1>6. ASSUME NEW w \in Workers,
               \/ Skip(w) \/ Claim(w) \/ FindEndpoint(w) \/ Cancel(w) \/ DispatchRetry(w)
               \/ Ack(w) \/ WorkerAborts(w)
        PROVE  UNCHANGED Lifecycle!vars
    BY <1>1, <1>6 DEF Skip, Claim, FindEndpoint, Cancel, DispatchRetry, Ack, OnlyWorker,
                      WorkerAborts, TaskFails, WorkerDies, Rollback
  <1>7. ASSUME NEW w \in Workers, NEW ok \in BOOLEAN, Post(w, ok)
        PROVE  Lifecycle!Next \/ UNCHANGED Lifecycle!vars
    <2>1. PICK d \in Deliveries : d = job[w]
      BY <1>7 DEF Post, Goto, IInv, JobsNamed
    <2> QED
      BY <1>7, <2>1, AcceptStep DEF Lifecycle!Next
  <1>8. ASSUME NEW w \in Workers, Commit(w) PROVE Lifecycle!Next
    <2>1. PICK d \in Deliveries : d = job[w]
      BY <1>8 DEF Commit, Goto, IInv, JobsNamed
    <2> QED
      BY <1>8, <2>1, RecordStep DEF Lifecycle!Next
  <1>9. ASSUME PollSelect \/ PollDies PROVE UNCHANGED Lifecycle!vars
    BY <1>1, <1>9 DEF PollSelect, PollDies
  <1>10. ASSUME NEW e \in Endpoints, DeactivateEndpoint(e) PROVE UNCHANGED Lifecycle!vars
    BY <1>1, <1>10 DEF DeactivateEndpoint
  <1>11. ASSUME Tick PROVE UNCHANGED Lifecycle!vars
    <2>1. UNCHANGED acked
      BY <1>11 DEF Tick
    <2>2. \A d \in Deliveries : row'[d].status = row[d].status /\ row'[d].attempt = row[d].attempt
      BY <1>11, LapsedRow DEF Tick, IInv, TypeOK
    <2> QED
      BY <2>1, <2>2, Unseen
  <1>12. CASE UNCHANGED vars
    BY <1>1, <1>12 DEF vars
  <1> QED
    BY <1>2, <1>3, <1>4, <1>5, <1>6, <1>7, <1>8, <1>9, <1>10, <1>11, <1>12
    DEF Next, WorkerStep

\* Whatever workers, queues, crashes and recoveries do, each row lives the life
\* DeliveryLifecycle promises: no status is left once settled, no attempt is
\* skipped or counted twice, and none is made beyond the last.
THEOREM LifecycleImplemented == Spec => ImplementsLifecycle
  <1>1. Init => Lifecycle!Init
    BY DEF Init, NoRow, Lifecycle!Init
  <1>2. IInv /\ [Next]_vars => [Lifecycle!Next]_(Lifecycle!vars)
    BY LifecycleStep
  <1> QED
    BY <1>1, <1>2, InvariantHolds, PTL DEF Spec, ImplementsLifecycle, Lifecycle!Spec

-----------------------------------------------------------------------------
(* What a step may never do *)

\* Only Post changes the number of POSTs.
LEMMA OnlyPost ==
  ASSUME [Next]_vars, posts' # posts
  PROVE  \E w \in Workers, ok \in BOOLEAN : Post(w, ok)
  BY DEF Next, WorkerStep, WorkerAborts, vars, database, broker, worker, history,
     FanOutCommit, FanOutDies, FanOutDispatch, Redeliver, PollDispatch, Receive, Skip, Claim,
     FindEndpoint, Cancel, DispatchRetry, Commit, Ack, TaskFails, WorkerDies, Rollback,
     PollSelect, PollDies, DeactivateEndpoint, Tick, OnlyWorker

\* Post adds to the POSTs of its worker's delivery alone.
LEMMA PostTarget ==
  ASSUME IInv, [Next]_vars, NEW d \in Deliveries, posts'[d] # posts[d]
  PROVE  \E w \in Workers, ok \in BOOLEAN : Post(w, ok) /\ job[w] = d
  <1>1. PICK w \in Workers, ok \in BOOLEAN : Post(w, ok)
    BY OnlyPost
  <1>2. job[w] = d
    BY <1>1 DEF Post, IInv, TypeOK
  <1> QED
    BY <1>1, <1>2

\* No POST goes out before the date its row was given, nor for a settled row.
THEOREM BackoffAlwaysRespected == Spec => BackoffRespected
  <1>1. ASSUME IInv, [Next]_vars, NEW d \in Deliveries, posts'[d] # posts[d]
        PROVE  row[d].status = "pending" /\ row[d].dueIn \in {Null, 0}
    <2>1. PICK w \in Workers, ok \in BOOLEAN : Post(w, ok) /\ job[w] = d
      BY <1>1, PostTarget
    <2> QED
      BY <1>1, <2>1 DEF Post, Goto, IInv, HeldRows, HeldRow, Holding
  <1>2. IInv /\ [Next]_vars =>
          [\A d \in Deliveries : posts'[d] # posts[d] =>
             row[d].status = "pending" /\ row[d].dueIn \in {Null, 0}]_vars
    BY <1>1
  <1> QED
    BY <1>2, InvariantHolds, PTL DEF Spec, BackoffRespected

\* A worker comes to its POST only by finding the endpoint active.
LEMMA OnlyFindEndpoint ==
  ASSUME IInv, [Next]_vars, NEW w \in Workers, pc'[w] = "posting"
  PROVE  \/ pc[w] = "posting" /\ job'[w] = job[w]
         \/ EndpointOf[job[w]] \in active /\ job'[w] = job[w]
  <1> USE DEF database, broker, worker, history
  <1>1. ASSUME UNCHANGED <<pc, job>> PROVE pc[w] = "posting" /\ job'[w] = job[w]
    BY <1>1
  <1>2. ASSUME NEW v \in Workers, FindEndpoint(v)
        PROVE  job'[w] = job[w] /\ (pc[w] = "posting" \/ EndpointOf[job[w]] \in active)
    BY <1>2 DEF FindEndpoint, Goto, OnlyWorker, IInv, TypeOK
  <1>3. ASSUME NEW v \in Workers,
               \/ Skip(v) \/ Claim(v) \/ Cancel(v) \/ DispatchRetry(v) \/ Commit(v)
               \/ \E ok \in BOOLEAN : Post(v, ok)
        PROVE  pc[w] = "posting" /\ job'[w] = job[w]
    BY <1>3 DEF Skip, Claim, Cancel, DispatchRetry, Commit, Post, Goto, OnlyWorker, IInv, TypeOK
  <1>4. ASSUME NEW v \in Workers, Ack(v) \/ WorkerAborts(v)
        PROVE  pc[w] = "posting" /\ job'[w] = job[w]
    <2>1. Release(v)
      BY <1>4 DEF Ack, WorkerAborts, TaskFails, WorkerDies, Rollback
    <2> QED
      BY <2>1 DEF Release, IInv, TypeOK
  <1>5. ASSUME NEW v \in Workers, NEW d \in Deliveries, Receive(v, d)
        PROVE  pc[w] = "posting" /\ job'[w] = job[w]
    BY <1>5 DEF Receive, IInv, TypeOK
  <1>6. CASE UNCHANGED vars
    BY <1>1, <1>6 DEF vars
  <1>7. CASE Next
    <2>1. \/ UNCHANGED <<pc, job>>
          \/ \E v \in Workers, d \in Deliveries : Receive(v, d)
          \/ \E v \in Workers : WorkerStep(v) \/ WorkerAborts(v)
      BY <1>7 DEF Next, FanOutCommit, FanOutDies, FanOutDispatch, Redeliver, PollDispatch,
                  PollSelect, PollDies, DeactivateEndpoint, Tick
    <2> QED
      BY <1>1, <1>2, <1>3, <1>4, <1>5, <2>1 DEF WorkerStep
  <1> QED
    BY <1>6, <1>7

\* Once an endpoint is deactivated only a worker that had already found it
\* active still sends, and it sends once.
THEOREM DeactivationAlwaysQuiesces == Spec => DeactivationQuiesces
  <1>1. ASSUME IInv, [Next]_vars, NEW d \in Deliveries, posts'[d] # posts[d]
        PROVE  Posting(d) /\ ~Posting(d)'
    <2>1. PICK w \in Workers, ok \in BOOLEAN : Post(w, ok) /\ job[w] = d
      BY <1>1, PostTarget
    <2>2. /\ pc[w] = "posting" /\ pc'[w] # "posting"
          /\ \A v \in Workers \ {w} : pc'[v] = pc[v]
          /\ UNCHANGED job
      BY <1>1, <2>1 DEF Post, Goto, IInv, TypeOK
    <2>3. \A v \in Workers \ {w} : ~(job[v] = d /\ pc[v] = "posting")
      BY <1>1, <2>1, <2>2 DEF IInv, OneSender, Holds, Holding
    <2> QED
      BY <2>1, <2>2, <2>3 DEF Posting
  <1>2. ASSUME IInv, [Next]_vars, NEW d \in Deliveries, EndpointOf[d] \notin active, Posting(d)'
        PROVE  Posting(d)
    BY <1>2, OnlyFindEndpoint DEF Posting
  <1>3. IInv /\ [Next]_vars =>
          [\A d \in Deliveries : EndpointOf[d] \notin active =>
             /\ posts'[d] # posts[d] => Posting(d) /\ ~Posting(d)'
             /\ Posting(d)' => Posting(d)]_vars
    BY <1>1, <1>2
  <1> QED
    BY <1>3, InvariantHolds, PTL DEF Spec, DeactivationQuiesces

=============================================================================
