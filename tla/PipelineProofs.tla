--------------------------- MODULE PipelineProofs ---------------------------
(***************************************************************************)
(* Proofs that nothing falls between the queues, the tasks and the table,  *)
(* for any number of events, rows, processes and recoveries.               *)
(***************************************************************************)
EXTENDS Pipeline, SequenceTheorems, FiniteSetTheorems, TLAPS

FansOut(p, e) == task[p] = [name |-> "deliver_event", on |-> e]
Holds(p, d) == task[p].name \in Holding /\ task[p].on = d

(* No element of a sequence is in it twice.                                *)
Distinct(s) == \A i, j \in DOMAIN s : s[i] = s[j] => i = j

(* The queues and the passed dates are sequences; the queue "default" and  *)
(* the dates are without repetition.                                       *)
Orders ==
  /\ queue \in [default : Seq(Events \cup {Recover}), delivery : Seq(Deliveries)]
  /\ overdue \in Seq(Deliveries \cup Processes)
  /\ Distinct(queue.default) /\ Distinct(overdue)

(* What an event and a row wait for.                                       *)
Coming(e) == e \in Elements(queue.default) \/ \E p \in Processes : FansOut(p, e)
Waiting(d) ==
  d \in Elements(queue.delivery) \/ \E p \in Processes : Holds(p, d) \/ d \in left[p]

(* An event is sent once, after it was accepted, and has no rows until its *)
(* task has come to its commit.                                            *)
SentOnce ==
  /\ \A e \in Events :
       event[e] # "accepted" \/ Coming(e) => \A d \in RowsOf(e) : row[d] = "absent"
  /\ \A e \in Events : Coming(e) => event[e] = "accepted"
  /\ \A e \in Events, p, q \in Processes :
       FansOut(p, e) => e \notin Elements(queue.default) /\ (FansOut(q, e) => p = q)

(* A locked row is to be posted, and one process holds it.                 *)
OneHolder ==
  \A d \in Deliveries, p, q \in Processes :
    Holds(p, d) => (row[d] = "new" \/ Due(d)) /\ (Holds(q, d) => p = q)

(* Only a loop has rows left to dispatch.                                  *)
Loops == \A p \in Processes : task[p].name # "dispatching" => left[p] = {}

(* NothingForgotten, for events and for rows.                              *)
EventsKept ==
  aborts = 0 => \A e \in Events : event[e] = "accepted" =>
                  Coming(e) \/ \A d \in RowsOf(e) : row[d] # "absent"
RowsKept == aborts = 0 => \A d \in Deliveries : row[d] = "new" => Waiting(d)

IInv == TypeOK /\ Orders /\ SentOnce /\ OneHolder /\ Loops /\ EventsKept /\ RowsKept

-----------------------------------------------------------------------------
(* Sequences and their elements *)

LEMMA ElementsIn ==
  ASSUME NEW S, NEW s \in Seq(S)
  PROVE  Elements(s) \subseteq S /\ DOMAIN s = 1..Len(s) /\ Len(s) \in Nat
  BY LenProperties, ElementOfSeq DEF Elements

LEMMA AppendElements ==
  ASSUME NEW S, NEW s \in Seq(S), NEW x \in S
  PROVE  /\ Append(s, x) \in Seq(S)
         /\ Elements(Append(s, x)) = Elements(s) \cup {x}
         /\ Distinct(s) /\ x \notin Elements(s) => Distinct(Append(s, x))
  <1> DEFINE n == Len(s)
             t == Append(s, x)
  <1>1. /\ n \in Nat /\ DOMAIN s = 1..n
        /\ t \in Seq(S) /\ Len(t) = n + 1 /\ DOMAIN t = 1..(n + 1)
    BY LenProperties, AppendProperties
  <1>2. t[n + 1] = x /\ \A i \in 1..n : t[i] = s[i]
    BY <1>1, AppendProperties
  <1>3. 1..(n + 1) = 1..n \cup {n + 1} /\ n + 1 \notin 1..n
    BY <1>1
  <1> HIDE DEF n, t
  <1>4. Elements(t) = Elements(s) \cup {x}
    BY <1>1, <1>2, <1>3 DEF Elements
  <1>5. Distinct(s) /\ x \notin Elements(s) => Distinct(t)
    BY <1>1, <1>2, <1>3 DEF Elements, Distinct
  <1> QED
    BY <1>1, <1>4, <1>5 DEF t

LEMMA TailElements ==
  ASSUME NEW S, NEW s \in Seq(S), s # <<>>
  PROVE  /\ Tail(s) \in Seq(S) /\ Head(s) \in S
         /\ Elements(s) = Elements(Tail(s)) \cup {Head(s)}
         /\ Distinct(s) => Distinct(Tail(s)) /\ Head(s) \notin Elements(Tail(s))
  <1> DEFINE n == Len(s)
             t == Tail(s)
  <1>1. /\ n \in Nat \ {0} /\ DOMAIN s = 1..n
        /\ t \in Seq(S) /\ Len(t) = n - 1 /\ DOMAIN t = 1..(n - 1)
    BY LenProperties, EmptySeq, HeadTailProperties
  <1>2. Head(s) = s[1] /\ Head(s) \in S /\ \A i \in 1..(n - 1) : t[i] = s[i + 1]
    BY <1>1, HeadTailProperties
  <1>3. /\ \A i \in 1..(n - 1) : i + 1 \in 1..n /\ i + 1 # 1
        /\ \A i \in 1..n : i = 1 \/ (i - 1 \in 1..(n - 1) /\ (i - 1) + 1 = i)
        /\ \A i, j \in 1..(n - 1) : i + 1 = j + 1 => i = j
        /\ 1 \in 1..n
    BY <1>1
  <1> HIDE DEF n, t
  <1>4. Elements(s) = Elements(t) \cup {Head(s)}
    <2>1. ASSUME NEW i \in 1..n PROVE s[i] = Head(s) \/ \E j \in 1..(n - 1) : s[i] = t[j]
      <3>1. CASE i # 1
        <4>1. i - 1 \in 1..(n - 1) /\ (i - 1) + 1 = i
          BY <1>3, <3>1
        <4>2. t[i - 1] = s[(i - 1) + 1]
          BY <1>2, <4>1
        <4> QED
          BY <4>1, <4>2
      <3> QED
        BY <1>2, <3>1
    <2>2. \A j \in 1..(n - 1) : \E i \in 1..n : t[j] = s[i]
      BY <1>2, <1>3
    <2> QED
      <3>1. Elements(s) = {s[i] : i \in 1..n} /\ Elements(t) = {t[i] : i \in 1..(n - 1)}
        BY <1>1 DEF Elements
      <3>2. Head(s) \in Elements(s)
        BY <1>2, <1>3, <3>1
      <3> QED
        BY <2>1, <2>2, <3>1, <3>2
  <1>5. ASSUME Distinct(s) PROVE Distinct(t) /\ Head(s) \notin Elements(t)
    <2>1. ASSUME NEW i \in 1..(n - 1), NEW j \in 1..(n - 1), t[i] = t[j] PROVE i = j
      <3>1. s[i + 1] = s[j + 1] /\ i + 1 \in 1..n /\ j + 1 \in 1..n
        BY <1>2, <1>3, <2>1
      <3> QED
        BY <1>1, <1>3, <1>5, <3>1 DEF Distinct
    <2>2. ASSUME NEW i \in 1..(n - 1), t[i] = Head(s) PROVE FALSE
      BY <1>1, <1>2, <1>3, <1>5, <2>2 DEF Distinct
    <2> QED
      BY <1>1, <2>1, <2>2 DEF Distinct, Elements
  <1> QED
    BY <1>1, <1>2, <1>4, <1>5 DEF t

\* A sequence without repetition is as long as it has elements.
LEMMA DistinctLength ==
  ASSUME NEW S, NEW s \in Seq(S), Distinct(s)
  PROVE  Len(s) = Cardinality(Elements(s))
  <1>1. Len(s) \in Nat /\ s \in [1..Len(s) -> S] /\ DOMAIN s = 1..Len(s)
    BY LenProperties
  <1>2. s \in [1..Len(s) -> Elements(s)]
    BY <1>1 DEF Elements
  <1>3. s \in Bijection(1..Len(s), Elements(s))
    BY <1>1, <1>2 DEF Bijection, Injection, Surjection, IsInjective, Elements, Distinct
  <1> QED
    BY <1>1, <1>3, FS_CountingElements DEF ExistsBijection

\* The passed dates without one of them are the others.
LEMMA WithoutElements ==
  ASSUME Orders, NEW d
  PROVE  /\ Without(d) \in Seq(Deliveries \cup Processes)
         /\ Elements(Without(d)) = Elements(overdue) \ {d}
         /\ Distinct(Without(d))
  <1> DEFINE n == Len(overdue)
  <1>1. n \in Nat /\ DOMAIN overdue = 1..n /\ \A i \in 1..n : overdue[i] \in Deliveries \cup Processes
    BY LenProperties, ElementOfSeq DEF Orders
  <1>2. CASE d \notin Elements(overdue)
    <2>1. Without(d) = overdue
      BY <1>2 DEF Without
    <2> QED
      BY <1>2, <2>1 DEF Orders
  <1>3. CASE d \in Elements(overdue)
    <2> DEFINE k == CHOOSE j \in DOMAIN overdue : overdue[j] = d
               u == SubSeq(overdue, 1, k - 1)
               v == SubSeq(overdue, k + 1, n)
    <2>1. k \in 1..n /\ overdue[k] = d
      BY <1>1, <1>3 DEF Elements
    <2>2. Without(d) = u \o v
      BY <1>3 DEF Without
    <2> HIDE DEF k
    <2>3. /\ u \in Seq(Deliveries \cup Processes) /\ Len(u) = k - 1
          /\ \A i \in 1..(k - 1) : u[i] = overdue[i]
      <3>1. \A i \in 1..(k - 1) : overdue[i] \in Deliveries \cup Processes
        BY <1>1, <2>1
      <3> QED
        BY <1>1, <2>1, <3>1, SubSeqProperties
    <2>4. /\ v \in Seq(Deliveries \cup Processes) /\ Len(v) = n - k
          /\ \A i \in 1..(n - k) : v[i] = overdue[i + k]
      <3>1. \A i \in (k + 1)..n : overdue[i] \in Deliveries \cup Processes
        BY <1>1, <2>1
      <3>2. /\ v \in Seq(Deliveries \cup Processes) /\ Len(v) = IF k + 1 <= n THEN n - (k + 1) + 1 ELSE 0
            /\ \A i \in 1..(n - (k + 1) + 1) : v[i] = overdue[(k + 1) + i - 1]
        <4>1. k + 1 \in Int /\ n \in Int
          BY <1>1, <2>1
        <4> HIDE DEF n
        <4> QED
          BY ONLY <3>1, <4>1, SubSeqProperties
      <3>3. Len(v) = n - k
        BY <1>1, <2>1, <3>2
      <3>4. ASSUME NEW i \in 1..(n - k) PROVE v[i] = overdue[i + k]
        <4>1. i \in 1..(n - (k + 1) + 1) /\ (k + 1) + i - 1 = i + k
          BY <1>1, <2>1
        <4> QED
          BY <3>2, <4>1
      <3> QED
        BY <3>2, <3>3, <3>4
    <2> HIDE DEF n, u, v
    <2> DEFINE t == u \o v
    <2>5. /\ t \in Seq(Deliveries \cup Processes) /\ Len(t) = n - 1 /\ DOMAIN t = 1..(n - 1)
          /\ \A i \in 1..(n - 1) : t[i] = IF i <= k - 1 THEN u[i] ELSE v[i - (k - 1)]
      <3>1. /\ t \in Seq(Deliveries \cup Processes) /\ Len(t) = (k - 1) + (n - k)
            /\ \A i \in 1..((k - 1) + (n - k)) : t[i] = IF i <= k - 1 THEN u[i] ELSE v[i - (k - 1)]
        <4>1. /\ t \in Seq(Deliveries \cup Processes) /\ Len(t) = Len(u) + Len(v)
              /\ \A i \in 1..(Len(u) + Len(v)) : t[i] = IF i <= Len(u) THEN u[i] ELSE v[i - Len(u)]
          BY <2>3, <2>4, ConcatProperties
        <4> HIDE DEF t
        <4> QED
          BY <2>3, <2>4, <4>1
      <3>2. (k - 1) + (n - k) = n - 1
        BY <1>1, <2>1
      <3>3. DOMAIN t = 1..Len(t)
        BY <3>1, LenProperties
      <3> HIDE DEF t
      <3> QED
        BY <3>1, <3>2, <3>3
    <2> HIDE DEF t
    <2>6. ASSUME NEW i \in 1..(n - 1)
          PROVE  t[i] = IF i < k THEN overdue[i] ELSE overdue[i + 1]
      <3>1. CASE i < k
        BY <1>1, <2>1, <2>3, <2>5, <3>1
      <3>2. CASE ~(i < k)
        <4>1. i - (k - 1) \in 1..(n - k) /\ (i - (k - 1)) + k = i + 1 /\ ~(i <= k - 1)
          BY <1>1, <2>1, <3>2
        <4>2. t[i] = v[i - (k - 1)] /\ v[i - (k - 1)] = overdue[(i - (k - 1)) + k]
          BY <2>4, <2>5, <4>1
        <4> QED
          BY <3>2, <4>1, <4>2
      <3> QED
        BY <3>1, <3>2
    <2>7. \A i \in 1..n : i # k => \E j \in 1..(n - 1) : overdue[i] = t[j]
      <3>1. ASSUME NEW i \in 1..n, i < k PROVE i \in 1..(n - 1) /\ overdue[i] = t[i]
        BY <1>1, <2>1, <2>6, <3>1
      <3>2. ASSUME NEW i \in 1..n, i > k PROVE i - 1 \in 1..(n - 1) /\ overdue[i] = t[i - 1]
        BY <1>1, <2>1, <2>6, <3>2
      <3> QED
        BY <1>1, <2>1, <3>1, <3>2
    <2>8. \A i \in 1..(n - 1) : \E j \in 1..n : j # k /\ t[i] = overdue[j]
      BY <1>1, <2>1, <2>6
    <2>9. \A i \in 1..n : overdue[i] = d => i = k
      BY <1>1, <2>1 DEF Orders, Distinct
    <2>10. Elements(t) = Elements(overdue) \ {d}
      <3>1. Elements(t) = {t[i] : i \in 1..(n - 1)} /\ Elements(overdue) = {overdue[i] : i \in 1..n}
        BY <1>1, <2>5 DEF Elements
      <3> QED
        BY <2>1, <2>7, <2>8, <2>9, <3>1
    <2>11. ASSUME NEW i \in 1..(n - 1), NEW j \in 1..(n - 1), t[i] = t[j] PROVE i = j
      <3> DEFINE f(x) == IF x < k THEN x ELSE x + 1
      <3>1. f(i) \in 1..n /\ f(j) \in 1..n /\ (f(i) = f(j) => i = j)
        BY <1>1, <2>1
      <3>2. t[i] = overdue[f(i)] /\ t[j] = overdue[f(j)]
        BY <2>6
      <3> QED
        BY <1>1, <2>11, <3>1, <3>2 DEF Orders, Distinct
    <2>12. Distinct(t)
      BY <2>5, <2>11 DEF Distinct
    <2> QED
      BY <1>1, <2>2, <2>5, <2>10, <2>12 DEF t
  <1> QED
    BY <1>2, <1>3

-----------------------------------------------------------------------------
(* Queues and tasks *)

Queues == [default : Seq(Events \cup {Recover}), delivery : Seq(Deliveries)]

LEMMA SendEventQueue ==
  ASSUME Orders, NEW m \in Events \cup {Recover}, m \notin Elements(queue.default), SendEvent(m)
  PROVE  /\ queue' \in Queues /\ UNCHANGED queue.delivery
         /\ Elements(queue.default)' = Elements(queue.default) \cup {m}
         /\ Distinct(queue.default)'
  <1>1. queue' = [queue EXCEPT !.default = Append(queue.default, m)] /\ queue \in Queues
    BY DEF SendEvent, Orders, Queues
  <1>2. /\ queue'.default = Append(queue.default, m) /\ queue'.delivery = queue.delivery
        /\ queue.default \in Seq(Events \cup {Recover})
    BY <1>1 DEF Queues
  <1>3. /\ Append(queue.default, m) \in Seq(Events \cup {Recover})
        /\ Elements(Append(queue.default, m)) = Elements(queue.default) \cup {m}
        /\ Distinct(Append(queue.default, m))
    BY <1>2, AppendElements DEF Orders
  <1>4. /\ Elements(queue.default)' = Elements(queue'.default)
        /\ Distinct(queue.default)' <=> Distinct(queue'.default)
    BY DEF Elements, Distinct
  <1> QED
    BY <1>1, <1>2, <1>3, <1>4 DEF Queues

\* A message that is not sent because there are enough copies is there already.
LEMMA SendDeliveryQueue ==
  ASSUME Orders, NEW d \in Deliveries, SendDelivery(d)
  PROVE  /\ queue' \in Queues /\ UNCHANGED queue.default
         /\ Elements(queue.delivery)' = Elements(queue.delivery) \cup {d}
         /\ Distinct(queue.default)'
  <1>1. /\ queue \in Queues /\ queue.delivery \in Seq(Deliveries)
        /\ queue.default \in Seq(Events \cup {Recover})
    BY DEF Orders, Queues
  <1>2. CASE Copies(d) < MaxCopies
    <2>1. queue' = [queue EXCEPT !.delivery = Append(queue.delivery, d)]
      BY <1>2 DEF SendDelivery
    <2>2. queue'.delivery = Append(queue.delivery, d) /\ queue'.default = queue.default
      BY <1>1, <2>1 DEF Queues
    <2>3. /\ Append(queue.delivery, d) \in Seq(Deliveries)
          /\ Elements(Append(queue.delivery, d)) = Elements(queue.delivery) \cup {d}
      BY <1>1, AppendElements
    <2>4. Elements(queue.delivery)' = Elements(queue'.delivery)
      BY DEF Elements
    <2> QED
      BY <1>1, <2>1, <2>2, <2>3, <2>4 DEF Queues, Orders, Distinct
  <1>3. CASE ~(Copies(d) < MaxCopies)
    <2>1. UNCHANGED queue
      BY <1>1, <1>3 DEF SendDelivery, Queues
    <2>2. d \in Elements(queue.delivery)
      <3>1. ASSUME d \notin Elements(queue.delivery) PROVE FALSE
        <4>1. {i \in DOMAIN queue.delivery : queue.delivery[i] = d} = {}
          BY <3>1 DEF Elements
        <4>2. Copies(d) = 0
          BY <4>1, FS_EmptySet DEF Copies
        <4> QED
          BY <1>3, <4>2, BoundAssumption
      <3> QED
        BY <3>1
    <2> QED
      BY <1>1, <2>1, <2>2 DEF Elements, Orders, Distinct
  <1> QED
    BY <1>2, <1>3

LEMMA TakeDefaultQueue ==
  ASSUME Orders, queue.default # <<>>, Take("default")
  PROVE  /\ queue' \in Queues /\ UNCHANGED queue.delivery
         /\ Head(queue.default) \in Events \cup {Recover}
         /\ Elements(queue.default) = Elements(queue.default)' \cup {Head(queue.default)}
         /\ Head(queue.default) \notin Elements(queue.default)'
         /\ Distinct(queue.default)'
  <1>1. /\ queue \in Queues /\ queue.default \in Seq(Events \cup {Recover})
        /\ queue' = [queue EXCEPT !["default"] = Tail(queue.default)]
    BY DEF Orders, Queues, Take
  <1>2. queue'.default = Tail(queue.default) /\ queue'.delivery = queue.delivery
    BY <1>1 DEF Queues
  <1>3. /\ Elements(queue.default)' = Elements(queue'.default)
        /\ Distinct(queue.default)' <=> Distinct(queue'.default)
    BY DEF Elements, Distinct
  <1>4. /\ Tail(queue.default) \in Seq(Events \cup {Recover})
        /\ Head(queue.default) \in Events \cup {Recover}
        /\ Elements(queue.default) = Elements(Tail(queue.default)) \cup {Head(queue.default)}
        /\ Distinct(Tail(queue.default)) /\ Head(queue.default) \notin Elements(Tail(queue.default))
    BY <1>1, TailElements DEF Orders
  <1> QED
    BY <1>1, <1>2, <1>3, <1>4 DEF Queues

LEMMA TakeDeliveryQueue ==
  ASSUME Orders, queue.delivery # <<>>, Take("delivery")
  PROVE  /\ queue' \in Queues /\ UNCHANGED queue.default
         /\ Head(queue.delivery) \in Deliveries
         /\ Elements(queue.delivery) = Elements(queue.delivery)' \cup {Head(queue.delivery)}
         /\ Distinct(queue.default)'
  <1>1. /\ queue \in Queues /\ queue.delivery \in Seq(Deliveries)
        /\ queue' = [queue EXCEPT !["delivery"] = Tail(queue.delivery)]
    BY DEF Orders, Queues, Take
  <1>2. queue'.delivery = Tail(queue.delivery) /\ queue'.default = queue.default
    BY <1>1 DEF Queues
  <1>3. Elements(queue.delivery)' = Elements(queue'.delivery)
    BY DEF Elements
  <1>4. /\ Tail(queue.delivery) \in Seq(Deliveries) /\ Head(queue.delivery) \in Deliveries
        /\ Elements(queue.delivery) = Elements(Tail(queue.delivery)) \cup {Head(queue.delivery)}
    BY <1>1, TailElements
  <1>5. Distinct(queue.default)'
    BY <1>2 DEF Orders, Distinct
  <1> QED
    BY <1>1, <1>2, <1>3, <1>4, <1>5 DEF Queues

Tasks ==
  [name : {"idle", "dispatching"}, on : {Null}]
  \cup [name : {"deliver_event"}, on : Events]
  \cup [name : Holding, on : Deliveries]

\* What a process that runs a task runs.
LEMMA TaskKinds ==
  ASSUME TypeOK, NEW p \in Processes
  PROVE  /\ task[p] \in Tasks
         /\ task[p].name = "deliver_event" => \E e \in Events : FansOut(p, e)
         /\ task[p].name \in Holding => \E d \in Deliveries : Holds(p, d)
         /\ \A e : FansOut(p, e) => task[p].name = "deliver_event" /\ task[p].on = e
         /\ task[p] = Idle => task[p].name = "idle"
  BY DEF TypeOK, Tasks, FansOut, Holds, Holding, Idle

\* A process gets another task, the others go on with theirs.
LEMMA RunStep ==
  ASSUME TypeOK, NEW p \in Processes, NEW name, NEW arg,
         [name |-> name, on |-> arg] \in Tasks, Run(p, name, arg)
  PROVE  /\ task' \in [Processes -> Tasks] /\ task'[p].name = name
         /\ \A q \in Processes \ {p} : task'[q].name = task[q].name
         /\ \A q \in Processes : \A e :
              FansOut(q, e)' <=> IF q = p THEN name = "deliver_event" /\ arg = e ELSE FansOut(q, e)
         /\ \A q \in Processes : \A d :
              Holds(q, d)' <=> IF q = p THEN name \in Holding /\ arg = d ELSE Holds(q, d)
  <1>1. task \in [Processes -> Tasks]
    BY DEF TypeOK, Tasks
  <1>2. task' = [task EXCEPT ![p] = [name |-> name, on |-> arg]]
    BY DEF Run
  <1>3. /\ task'[p] = [name |-> name, on |-> arg]
        /\ \A q \in Processes \ {p} : task'[q] = task[q]
        /\ task' \in [Processes -> Tasks]
    BY <1>1, <1>2
  <1> HIDE DEF Tasks
  <1>4. ASSUME NEW e
        PROVE  /\ FansOut(p, e)' <=> (name = "deliver_event" /\ arg = e)
               /\ Holds(p, e)' <=> (name \in Holding /\ arg = e)
    BY <1>3 DEF FansOut, Holds
  <1> QED
    BY <1>3, <1>4 DEF FansOut, Holds

\* What has a next_retry_at: a row in the table, a task in its session.
Dated ==
  {d \in Deliveries : row[d] = "dated"} \cup {p \in Processes : task[p].name = "committing"}

\* With queues and passed dates in order, the rest of the type is each
\* variable's own.
Shape ==
  /\ event \in [Events -> {"new", "stored", "accepted", "unsent"}]
  /\ row \in [Deliveries -> {"absent", "new", "dated", "settled"}]
  /\ Elements(overdue) \cap ahead = {} /\ Elements(overdue) \cup ahead = Dated
  /\ countdown \subseteq Deliveries
  /\ task \in [Processes -> Tasks]
  /\ left \in [Processes -> SUBSET Deliveries]
  /\ aborts \in 0..MaxAborts

LEMMA ShapeOfType ==
  ASSUME TypeOK
  PROVE  Shape
  BY DEF TypeOK, Shape, Tasks, Dated

LEMMA TypedStep ==
  ASSUME Orders', Shape'
  PROVE  TypeOK'
  <1>1. /\ queue' \in Queues /\ overdue' \in Seq(Deliveries \cup Processes) /\ Distinct(overdue')
        /\ queue'.default \in Seq(Events \cup {Recover}) /\ queue'.delivery \in Seq(Deliveries)
    BY DEF Orders, Queues, Distinct
  <1>2. /\ Elements(queue'.default) \subseteq Events \cup {Recover}
        /\ Elements(queue'.delivery) \subseteq Deliveries
    BY <1>1, ElementsIn
  <1>3. Len(overdue') = Cardinality(Elements(overdue'))
    BY <1>1, DistinctLength
  <1> QED
    BY <1>2, <1>3 DEF Shape, TypeOK, Elements, Tasks, Dated

\* What stays when neither a queue, nor a task, nor a loop changes.
LEMMA Unmoved ==
  ASSUME UNCHANGED <<queue, task, left>>
  PROVE  /\ \A e : Coming(e)' <=> Coming(e)
         /\ \A d : Waiting(d)' <=> Waiting(d)
         /\ \A p, e : FansOut(p, e)' <=> FansOut(p, e)
         /\ \A p, d : Holds(p, d)' <=> Holds(p, d)
         /\ Elements(queue.default)' = Elements(queue.default)
         /\ Elements(queue.delivery)' = Elements(queue.delivery)
  BY DEF Coming, Waiting, FansOut, Holds, Elements

LEMMA InitInvariant == Init => IInv
  <1> SUFFICES ASSUME Init PROVE IInv
    OBVIOUS
  <1>1. Elements(<<>>) = {} /\ Distinct(<<>>) /\ Len(<<>>) = 0
    BY DEF Elements, Distinct
  <1>2. queue.default = <<>> /\ queue.delivery = <<>> /\ overdue = <<>>
    BY DEF Init
  <1>3. \A p \in Processes : task[p] = Idle /\ left[p] = {}
    BY DEF Init
  <1>4. \A S : <<>> \in Seq(S)
    BY EmptySeq
  <1>5. Orders
    BY <1>1, <1>2, <1>4 DEF Orders, Init
  <1>6. TypeOK
    <2>1. 0 \in 0..MaxAborts
      BY BoundAssumption
    <2>2. Idle \in [name : {"idle", "dispatching"}, on : {Null}]
      BY DEF Idle
    <2>3. Len(overdue) = Cardinality(Elements(overdue))
      BY <1>1, <1>2, FS_EmptySet
    <2>4. \A p \in Processes : task[p].name = "idle"
      BY <1>3 DEF Idle
    <2> QED
      BY <1>1, <1>2, <2>1, <2>2, <2>3, <2>4 DEF TypeOK, Init
  <1>7. \A p \in Processes : \A x : ~FansOut(p, x) /\ ~Holds(p, x)
    BY <1>3 DEF FansOut, Holds, Holding, Idle
  <1>8. \A x : ~Coming(x)
    BY <1>1, <1>2, <1>7 DEF Coming
  <1>9. /\ \A e \in Events : event[e] = "new"
        /\ \A d \in Deliveries : row[d] = "absent"
    BY DEF Init
  <1>10. SentOnce
    BY <1>7, <1>8, <1>9 DEF SentOnce, RowsOf
  <1>11. OneHolder /\ Loops /\ EventsKept /\ RowsKept
    BY <1>3, <1>7, <1>9 DEF OneHolder, Loops, EventsKept, RowsKept
  <1> QED
    BY <1>5, <1>6, <1>10, <1>11 DEF IInv

-----------------------------------------------------------------------------
(* The API and the beat *)

LEMMA StoreStep ==
  ASSUME IInv, NEW e \in Events, Store(e)
  PROVE  IInv'
  <1>1. /\ UNCHANGED <<row, ahead, overdue, countdown, queue, task, left, aborts>>
        /\ event' = [event EXCEPT ![e] = "stored"] /\ event[e] = "new"
    BY DEF Store, dates, pool
  <1>2. Shape
    BY ShapeOfType DEF IInv
  <1>3. /\ event' \in [Events -> {"new", "stored", "accepted", "unsent"}]
        /\ \A x \in Events : event'[x] = "accepted" <=> event[x] = "accepted"
    BY <1>1, <1>2 DEF Shape
  <1>4. Orders'
    BY <1>1 DEF IInv, Orders, Distinct
  <1>5. Shape'
    BY <1>1, <1>2, <1>3 DEF Shape, Elements, Dated
  <1>6. SentOnce'
    BY <1>1, <1>3, Unmoved DEF IInv, SentOnce
  <1>7. OneHolder' /\ Loops'
    BY <1>1, Unmoved DEF IInv, OneHolder, Loops, Due, Elements
  <1>8. EventsKept' /\ RowsKept'
    BY <1>1, <1>3, Unmoved DEF IInv, EventsKept, RowsKept
  <1> QED
    BY <1>4, <1>5, <1>6, <1>7, <1>8, TypedStep DEF IInv

LEMMA RequestFailsStep ==
  ASSUME IInv, NEW e \in Events, RequestFails(e)
  PROVE  IInv'
  <1>1. /\ UNCHANGED <<row, ahead, overdue, countdown, queue, task, left>>
        /\ event' = [event EXCEPT ![e] = "unsent"] /\ event[e] = "stored"
        /\ aborts < MaxAborts /\ aborts' = aborts + 1
    BY DEF RequestFails, Abort, dates, pool
  <1>2. Shape
    BY ShapeOfType DEF IInv
  <1>3. /\ event' \in [Events -> {"new", "stored", "accepted", "unsent"}]
        /\ \A x \in Events : event'[x] = "accepted" <=> event[x] = "accepted"
    BY <1>1, <1>2 DEF Shape
  <1>4. aborts' \in 0..MaxAborts /\ aborts' # 0
    BY <1>1, <1>2, BoundAssumption DEF Shape
  <1>5. Orders'
    BY <1>1 DEF IInv, Orders, Distinct
  <1>6. Shape'
    BY <1>1, <1>2, <1>3, <1>4 DEF Shape, Elements, Dated
  <1>7. SentOnce'
    BY <1>1, <1>3, Unmoved DEF IInv, SentOnce
  <1>8. OneHolder' /\ Loops'
    BY <1>1, Unmoved DEF IInv, OneHolder, Loops, Due, Elements
  <1>9. EventsKept' /\ RowsKept'
    BY <1>4 DEF EventsKept, RowsKept
  <1> QED
    BY <1>5, <1>6, <1>7, <1>8, <1>9, TypedStep DEF IInv

\* The message of an accepted event comes before anything else of it.
LEMMA AcceptStep ==
  ASSUME IInv, NEW e \in Events, Accept(e)
  PROVE  IInv'
  <1>1. /\ UNCHANGED <<row, ahead, overdue, countdown, task, left, aborts>>
        /\ event' = [event EXCEPT ![e] = "accepted"] /\ event[e] = "stored"
        /\ SendEvent(e)
    BY DEF Accept, dates, pool
  <1>2. Shape /\ Orders
    BY ShapeOfType DEF IInv
  <1>3. /\ event' \in [Events -> {"new", "stored", "accepted", "unsent"}]
        /\ \A x \in Events : event'[x] = "accepted" <=> event[x] = "accepted" \/ x = e
    BY <1>1, <1>2 DEF Shape
  <1>4. ~Coming(e)
    BY <1>1 DEF IInv, SentOnce
  <1>5. /\ queue' \in Queues /\ UNCHANGED queue.delivery
        /\ Elements(queue.default)' = Elements(queue.default) \cup {e}
        /\ Distinct(queue.default)'
    <2>1. e \notin Elements(queue.default)
      BY <1>4 DEF Coming
    <2> QED
      BY <1>1, <1>2, <2>1, SendEventQueue
  <1>6. /\ \A p, x : FansOut(p, x)' <=> FansOut(p, x)
        /\ \A p, d : Holds(p, d)' <=> Holds(p, d)
        /\ \A x : Coming(x)' <=> Coming(x) \/ x = e
        /\ \A d : Waiting(d)' <=> Waiting(d)
    <2>1. \A p, x : (FansOut(p, x)' <=> FansOut(p, x)) /\ (Holds(p, x)' <=> Holds(p, x))
      BY <1>1 DEF FansOut, Holds
    <2>2. Elements(queue.delivery)' = Elements(queue.delivery)
      BY <1>5 DEF Elements
    <2> QED
      BY <1>1, <1>5, <2>1, <2>2 DEF Coming, Waiting
  <1>7. Orders'
    BY <1>1, <1>2, <1>5 DEF Orders, Queues, Distinct
  <1>8. Shape'
    BY <1>1, <1>2, <1>3 DEF Shape, Elements, Dated
  <1>9. SentOnce'
    <2>1. \A d \in RowsOf(e) : row[d] = "absent"
      BY <1>1 DEF IInv, SentOnce
    <2>2. \A p \in Processes : ~FansOut(p, e)
      BY <1>4 DEF Coming
    <2> QED
      BY <1>1, <1>3, <1>5, <1>6, <2>1, <2>2 DEF IInv, SentOnce
  <1>10. OneHolder' /\ Loops'
    BY <1>1, <1>6 DEF IInv, OneHolder, Loops, Due, Elements
  <1>11. EventsKept' /\ RowsKept'
    BY <1>1, <1>3, <1>6 DEF IInv, EventsKept, RowsKept
  <1> QED
    BY <1>7, <1>8, <1>9, <1>10, <1>11, TypedStep DEF IInv

LEMMA BeatStep ==
  ASSUME IInv, Beat
  PROVE  IInv'
  <1>1. /\ UNCHANGED <<event, row, ahead, overdue, countdown, task, left, aborts>>
        /\ Recover \notin Elements(queue.default) /\ SendEvent(Recover)
    BY DEF Beat, dates, pool
  <1>2. Shape /\ Orders
    BY ShapeOfType DEF IInv
  <1>3. /\ queue' \in Queues /\ UNCHANGED queue.delivery
        /\ Elements(queue.default)' = Elements(queue.default) \cup {Recover}
        /\ Distinct(queue.default)'
    BY <1>1, <1>2, SendEventQueue
  <1>4. /\ \A p, x : FansOut(p, x)' <=> FansOut(p, x)
        /\ \A p, d : Holds(p, d)' <=> Holds(p, d)
        /\ \A e \in Events : Coming(e)' <=> Coming(e)
        /\ \A d : Waiting(d)' <=> Waiting(d)
    <2>1. \A p, x : (FansOut(p, x)' <=> FansOut(p, x)) /\ (Holds(p, x)' <=> Holds(p, x))
      BY <1>1 DEF FansOut, Holds
    <2>2. Elements(queue.delivery)' = Elements(queue.delivery)
      BY <1>3 DEF Elements
    <2> QED
      BY <1>1, <1>3, <2>1, <2>2, EventAssumption DEF Coming, Waiting
  <1>5. Orders'
    BY <1>1, <1>2, <1>3 DEF Orders, Queues, Distinct
  <1>6. Shape'
    BY <1>1, <1>2 DEF Shape, Elements, Dated
  <1>7. SentOnce'
    BY <1>1, <1>3, <1>4, EventAssumption DEF IInv, SentOnce
  <1>8. OneHolder' /\ Loops'
    BY <1>1, <1>4 DEF IInv, OneHolder, Loops, Due, Elements
  <1>9. EventsKept' /\ RowsKept'
    BY <1>1, <1>4 DEF IInv, EventsKept, RowsKept
  <1> QED
    BY <1>5, <1>6, <1>7, <1>8, <1>9, TypedStep DEF IInv

\* A date passes once.
LEMMA DatePassesStep ==
  ASSUME IInv, NEW d \in Deliveries \cup Processes, DatePasses(d)
  PROVE  IInv'
  <1>1. /\ UNCHANGED <<event, row, countdown, queue, task, left, aborts>>
        /\ d \in ahead /\ ahead' = ahead \ {d} /\ overdue' = Append(overdue, d)
    BY DEF DatePasses, pool
  <1>2. Shape /\ Orders
    BY ShapeOfType DEF IInv
  <1>3. /\ overdue' \in Seq(Deliveries \cup Processes) /\ Distinct(overdue')
        /\ Elements(overdue') = Elements(overdue) \cup {d}
    <2>1. d \notin Elements(overdue)
      BY <1>1, <1>2 DEF Shape
    <2> QED
      BY <1>1, <1>2, <2>1, AppendElements DEF Orders
  <1>4. Elements(overdue)' = Elements(overdue')
    BY DEF Elements
  <1>5. Orders'
    BY <1>1, <1>2, <1>3 DEF Orders, Distinct
  <1>6. Shape'
    BY <1>1, <1>2, <1>3, <1>4 DEF Shape, Dated
  <1>7. SentOnce'
    BY <1>1, Unmoved DEF IInv, SentOnce
  <1>8. OneHolder' /\ Loops'
    BY <1>1, <1>3, <1>4, Unmoved DEF IInv, OneHolder, Loops, Due
  <1>9. EventsKept' /\ RowsKept'
    BY <1>1, Unmoved DEF IInv, EventsKept, RowsKept
  <1> QED
    BY <1>5, <1>6, <1>7, <1>8, <1>9, TypedStep DEF IInv

\* What stays when a message of a row is sent.
LEMMA Sent ==
  ASSUME Orders, NEW d \in Deliveries, SendDelivery(d), UNCHANGED <<overdue, task>>,
         \A p \in Processes : left'[p] = left[p] \/ left'[p] = left[p] \ {d}
  PROVE  /\ Orders'
         /\ \A p, x : FansOut(p, x)' <=> FansOut(p, x)
         /\ \A p, x : Holds(p, x)' <=> Holds(p, x)
         /\ \A e : Coming(e)' <=> Coming(e)
         /\ \A x : Waiting(x) => Waiting(x)'
         /\ Elements(queue.default)' = Elements(queue.default)
  <1>1. /\ queue' \in Queues /\ UNCHANGED queue.default
        /\ Elements(queue.delivery)' = Elements(queue.delivery) \cup {d}
        /\ Distinct(queue.default)'
    BY SendDeliveryQueue
  <1>2. \A p, x : (FansOut(p, x)' <=> FansOut(p, x)) /\ (Holds(p, x)' <=> Holds(p, x))
    BY DEF FansOut, Holds
  <1>3. Elements(queue.default)' = Elements(queue.default)
    BY <1>1 DEF Elements
  <1>4. /\ \A e : Coming(e)' <=> Coming(e)
        /\ \A x : Waiting(x) => Waiting(x)'
    BY <1>1, <1>2, <1>3 DEF Coming, Waiting
  <1> QED
    BY <1>1, <1>2, <1>3, <1>4 DEF Orders, Queues, Distinct

\* The message of a retry arrives, whatever has become of its row.
LEMMA ArriveStep ==
  ASSUME IInv, NEW d \in Deliveries, Arrive(d)
  PROVE  IInv'
  <1>1. /\ UNCHANGED <<event, row, ahead, overdue, task, left, aborts>>
        /\ countdown' = countdown \ {d} /\ SendDelivery(d)
    BY DEF Arrive, dates, pool
  <1>2. Shape /\ Orders
    BY ShapeOfType DEF IInv
  <1>3. /\ Orders'
        /\ \A p, x : FansOut(p, x)' <=> FansOut(p, x)
        /\ \A p, x : Holds(p, x)' <=> Holds(p, x)
        /\ \A e : Coming(e)' <=> Coming(e)
        /\ \A x : Waiting(x) => Waiting(x)'
        /\ Elements(queue.default)' = Elements(queue.default)
    BY <1>1, <1>2, Sent
  <1>4. Shape'
    BY <1>1, <1>2 DEF Shape, Elements, Dated
  <1>5. SentOnce'
    BY <1>1, <1>3 DEF IInv, SentOnce
  <1>6. OneHolder' /\ Loops'
    BY <1>1, <1>3 DEF IInv, OneHolder, Loops, Due, Elements
  <1>7. EventsKept' /\ RowsKept'
    BY <1>1, <1>3 DEF IInv, EventsKept, RowsKept
  <1> QED
    BY <1>3, <1>4, <1>5, <1>6, <1>7, TypedStep DEF IInv

-----------------------------------------------------------------------------
(* Taking a message *)

\* An event goes from its message to its task.
LEMMA TakeEventStep ==
  ASSUME IInv, NEW p \in Processes, TakeEvent(p)
  PROVE  IInv'
  <1>1. /\ UNCHANGED <<event, row, ahead, overdue, countdown, left, aborts>>
        /\ task[p] = Idle /\ queue.default # <<>> /\ Head(queue.default) # Recover
        /\ Take("default") /\ Run(p, "deliver_event", Head(queue.default))
    BY DEF TakeEvent, EventWaits, dates
  <1>2. Shape /\ Orders /\ TypeOK
    BY ShapeOfType DEF IInv
  <1>3. /\ queue' \in Queues /\ UNCHANGED queue.delivery
        /\ Head(queue.default) \in Events \cup {Recover}
        /\ Elements(queue.default) = Elements(queue.default)' \cup {Head(queue.default)}
        /\ Head(queue.default) \notin Elements(queue.default)'
        /\ Distinct(queue.default)'
    BY <1>1, <1>2, TakeDefaultQueue
  <1>4. PICK e \in Events : e = Head(queue.default)
    BY <1>1, <1>3
  <1>5. /\ task' \in [Processes -> Tasks] /\ task'[p].name = "deliver_event"
        /\ \A q \in Processes \ {p} : task'[q].name = task[q].name
        /\ \A q \in Processes : \A x : FansOut(q, x)' <=> IF q = p THEN e = x ELSE FansOut(q, x)
        /\ \A q \in Processes : \A d : Holds(q, d)' <=> (q # p /\ Holds(q, d))
    <2>1. [name |-> "deliver_event", on |-> e] \in Tasks /\ Run(p, "deliver_event", e)
      BY <1>1, <1>4 DEF Tasks
    <2> QED
      BY <1>2, <2>1, RunStep DEF Holding
  <1>6. \A x : ~FansOut(p, x) /\ ~Holds(p, x)
    BY <1>1 DEF FansOut, Holds, Holding, Idle
  <1>7. /\ \A x : Coming(x)' <=> Coming(x)
        /\ \A d : Waiting(d)' <=> Waiting(d)
    <2>1. Elements(queue.delivery)' = Elements(queue.delivery)
      BY <1>3 DEF Elements
    <2> QED
      BY <1>1, <1>3, <1>4, <1>5, <1>6, <2>1 DEF Coming, Waiting
  <1>8. Orders'
    BY <1>1, <1>2, <1>3 DEF Orders, Queues, Distinct
  <1>9. Shape'
    <2>1. Dated' = Dated
      BY <1>1, <1>5 DEF Dated, Idle
    <2> QED
      BY <1>1, <1>2, <1>5, <2>1 DEF Shape, Elements
  <1>10. SentOnce'
    <2>1. \A x \in Events : FansOut(p, x)' => x = e /\ e \in Elements(queue.default)
      BY <1>3, <1>4, <1>5
    <2> QED
      BY <1>1, <1>3, <1>4, <1>5, <1>7, <2>1 DEF IInv, SentOnce
  <1>11. OneHolder'
    BY <1>1, <1>5 DEF IInv, OneHolder, Due, Elements
  <1>12. Loops'
    BY <1>1, <1>5, <1>2, TaskKinds DEF IInv, Loops
  <1>13. EventsKept' /\ RowsKept'
    BY <1>1, <1>7 DEF IInv, EventsKept, RowsKept
  <1> QED
    BY <1>8, <1>9, <1>10, <1>11, <1>12, <1>13, TypedStep DEF IInv

LEMMA TakeRecoverStep ==
  ASSUME IInv, NEW p \in Processes, TakeRecover(p)
  PROVE  IInv'
  <1>1. /\ UNCHANGED <<event, row, ahead, overdue, countdown, aborts>>
        /\ task[p] = Idle /\ queue.default # <<>> /\ Head(queue.default) = Recover
        /\ Take("default") /\ Run(p, "dispatching", Null)
        /\ left' = [left EXCEPT ![p] = Stuck]
    BY DEF TakeRecover, dates
  <1>2. Shape /\ Orders /\ TypeOK
    BY ShapeOfType DEF IInv
  <1>3. /\ queue' \in Queues /\ UNCHANGED queue.delivery
        /\ Elements(queue.default) = Elements(queue.default)' \cup {Recover}
        /\ Distinct(queue.default)'
    BY <1>1, <1>2, TakeDefaultQueue
  <1>4. /\ task' \in [Processes -> Tasks] /\ task'[p].name = "dispatching"
        /\ \A q \in Processes \ {p} : task'[q].name = task[q].name
        /\ \A q \in Processes : \A x : FansOut(q, x)' <=> (q # p /\ FansOut(q, x))
        /\ \A q \in Processes : \A d : Holds(q, d)' <=> (q # p /\ Holds(q, d))
    <2>1. [name |-> "dispatching", on |-> Null] \in Tasks
      BY DEF Tasks
    <2> QED
      BY <1>1, <1>2, <2>1, RunStep DEF Holding
  <1>5. Stuck \subseteq Deliveries
    BY DEF Stuck, Rows
  <1>6. /\ \A x : ~FansOut(p, x) /\ ~Holds(p, x)
        /\ left[p] = {}
    BY <1>1 DEF FansOut, Holds, Holding, Idle, IInv, Loops
  <1>7. /\ left' \in [Processes -> SUBSET Deliveries]
        /\ \A q \in Processes \ {p} : left'[q] = left[q]
    BY <1>1, <1>2, <1>5 DEF Shape
  <1>8. /\ \A e \in Events : Coming(e)' <=> Coming(e)
        /\ \A d : Waiting(d) => Waiting(d)'
    <2>1. Elements(queue.delivery)' = Elements(queue.delivery)
      BY <1>3 DEF Elements
    <2> QED
      BY <1>3, <1>4, <1>6, <1>7, <2>1, EventAssumption DEF Coming, Waiting
  <1>9. Orders'
    BY <1>1, <1>2, <1>3 DEF Orders, Queues, Distinct
  <1>10. Shape'
    <2>1. Dated' = Dated
      BY <1>1, <1>4 DEF Dated, Idle
    <2> QED
      BY <1>1, <1>2, <1>4, <1>7, <2>1 DEF Shape, Elements
  <1>11. SentOnce'
    BY <1>1, <1>3, <1>4, <1>8 DEF IInv, SentOnce
  <1>12. OneHolder'
    BY <1>1, <1>4 DEF IInv, OneHolder, Due, Elements
  <1>13. Loops'
    BY <1>4, <1>7 DEF IInv, Loops
  <1>14. EventsKept' /\ RowsKept'
    BY <1>1, <1>8 DEF IInv, EventsKept, RowsKept
  <1> QED
    BY <1>9, <1>10, <1>11, <1>12, <1>13, <1>14, TypedStep DEF IInv

\* A message is dropped when its row is not to be sent, or is being sent.
LEMMA TakeDeliveryStep ==
  ASSUME IInv, NEW p \in Processes, TakeDelivery(p)
  PROVE  IInv'
  <1>1. /\ UNCHANGED <<event, row, ahead, overdue, countdown, left, aborts>>
        /\ task[p] = Idle /\ queue.delivery # <<>> /\ Take("delivery")
        /\ IF Claimable(Head(queue.delivery))
           THEN Run(p, "deliver_to_endpoint", Head(queue.delivery)) ELSE UNCHANGED task
    BY DEF TakeDelivery, dates
  <1>2. Shape /\ Orders /\ TypeOK
    BY ShapeOfType DEF IInv
  <1>3. /\ queue' \in Queues /\ UNCHANGED queue.default
        /\ Head(queue.delivery) \in Deliveries
        /\ Elements(queue.delivery) = Elements(queue.delivery)' \cup {Head(queue.delivery)}
        /\ Distinct(queue.default)'
    BY <1>1, <1>2, TakeDeliveryQueue
  <1>4. PICK d \in Deliveries : d = Head(queue.delivery)
    BY <1>3
  <1>5. Elements(queue.default)' = Elements(queue.default)
    BY <1>3 DEF Elements
  <1>6. Orders'
    BY <1>1, <1>2, <1>3 DEF Orders, Queues, Distinct
  <1>7. \A x : ~FansOut(p, x) /\ ~Holds(p, x)
    BY <1>1 DEF FansOut, Holds, Holding, Idle
  <1>8. CASE Claimable(d)
    <2>1. /\ task' \in [Processes -> Tasks] /\ task'[p].name = "deliver_to_endpoint"
          /\ \A q \in Processes \ {p} : task'[q].name = task[q].name
          /\ \A q \in Processes : \A x : FansOut(q, x)' <=> (q # p /\ FansOut(q, x))
          /\ \A q \in Processes : \A x : Holds(q, x)' <=> IF q = p THEN d = x ELSE Holds(q, x)
      <3>1. /\ [name |-> "deliver_to_endpoint", on |-> d] \in Tasks
            /\ Run(p, "deliver_to_endpoint", d)
        BY <1>1, <1>4, <1>8 DEF Tasks, Holding
      <3>2. "deliver_to_endpoint" \in Holding /\ "deliver_to_endpoint" # "deliver_event"
        BY DEF Holding
      <3> QED
        BY <1>2, <3>1, <3>2, RunStep
    <2>2. (row[d] = "new" \/ Due(d)) /\ \A q \in Processes : ~Holds(q, d)
      BY <1>8 DEF Claimable, Locked, Holds
    <2>3. /\ \A x : Coming(x)' <=> Coming(x)
          /\ \A x : Waiting(x) => Waiting(x)'
      BY <1>1, <1>3, <1>4, <1>5, <1>7, <2>1 DEF Coming, Waiting
    <2>4. Shape'
      <3>1. Dated' = Dated
        BY <1>1, <2>1 DEF Dated, Idle
      <3> QED
        BY <1>1, <1>2, <2>1, <3>1 DEF Shape, Elements
    <2>5. SentOnce'
      BY <1>1, <1>5, <2>1, <2>3 DEF IInv, SentOnce
    <2>6. OneHolder'
      BY <1>1, <2>1, <2>2 DEF IInv, OneHolder, Due, Elements
    <2>7. Loops'
      BY <1>1, <1>2, <2>1, TaskKinds DEF IInv, Loops
    <2>8. EventsKept' /\ RowsKept'
      BY <1>1, <2>3 DEF IInv, EventsKept, RowsKept
    <2> QED
      BY <1>6, <2>4, <2>5, <2>6, <2>7, <2>8, TypedStep DEF IInv
  <1>9. CASE ~Claimable(d)
    <2>1. UNCHANGED task
      BY <1>1, <1>4, <1>9
    <2>2. /\ \A q, x : FansOut(q, x)' <=> FansOut(q, x)
          /\ \A q, x : Holds(q, x)' <=> Holds(q, x)
      BY <2>1 DEF FansOut, Holds
    <2>3. /\ \A x : Coming(x)' <=> Coming(x)
          /\ \A x : x # d /\ Waiting(x) => Waiting(x)'
      BY <1>1, <1>3, <1>4, <1>5, <2>2 DEF Coming, Waiting
    <2>4. row[d] = "new" => Waiting(d)'
      BY <1>9, <2>2 DEF Claimable, Locked, Waiting, Holds
    <2>5. Shape'
      BY <1>1, <1>2, <2>1 DEF Shape, Elements, Dated
    <2>6. SentOnce'
      BY <1>1, <1>5, <2>2, <2>3 DEF IInv, SentOnce
    <2>7. OneHolder' /\ Loops'
      BY <1>1, <2>1, <2>2 DEF IInv, OneHolder, Loops, Due, Elements
    <2>8. EventsKept' /\ RowsKept'
      BY <1>1, <2>3, <2>4 DEF IInv, EventsKept, RowsKept
    <2> QED
      BY <1>6, <2>5, <2>6, <2>7, <2>8, TypedStep DEF IInv
  <1> QED
    BY <1>8, <1>9

-----------------------------------------------------------------------------
(* Running it *)

\* An event goes from its task to its rows, and all of them are to be sent.
LEMMA FanOutStep ==
  ASSUME IInv, NEW p \in Processes, FanOut(p)
  PROVE  IInv'
  <1>1. Shape /\ Orders /\ TypeOK
    BY ShapeOfType DEF IInv
  <1>2. PICK e \in Events : FansOut(p, e)
    BY <1>1, TaskKinds DEF FanOut
  <1>3. task[p].name = "deliver_event" /\ task[p].on = e
    BY <1>2 DEF FansOut
  <1>4. /\ UNCHANGED <<event, ahead, overdue, countdown, queue, aborts>>
        /\ row' = [d \in Deliveries |-> IF d \in RowsOf(e) THEN "new" ELSE row[d]]
        /\ left' = [left EXCEPT ![p] = RowsOf(e)]
        /\ Run(p, "dispatching", Null)
    BY <1>3 DEF FanOut, dates
  <1>5. /\ task' \in [Processes -> Tasks] /\ task'[p].name = "dispatching"
        /\ \A q \in Processes \ {p} : task'[q].name = task[q].name
        /\ \A q \in Processes : \A x : FansOut(q, x)' <=> (q # p /\ FansOut(q, x))
        /\ \A q \in Processes : \A d : Holds(q, d)' <=> (q # p /\ Holds(q, d))
    <2>1. [name |-> "dispatching", on |-> Null] \in Tasks
      BY DEF Tasks
    <2> QED
      BY <1>1, <1>4, <2>1, RunStep DEF Holding
  <1>6. /\ \A x : FansOut(p, x) => x = e
        /\ \A x : ~Holds(p, x)
        /\ left[p] = {}
    BY <1>3 DEF FansOut, Holds, Holding, IInv, Loops
  <1>7. /\ left' \in [Processes -> SUBSET Deliveries] /\ left'[p] = RowsOf(e)
        /\ \A q \in Processes \ {p} : left'[q] = left[q]
    BY <1>1, <1>4 DEF Shape, RowsOf
  <1>8. /\ Coming(e) /\ event[e] = "accepted"
        /\ \A d \in RowsOf(e) : row[d] = "absent"
    BY <1>2 DEF Coming, IInv, SentOnce
  <1>9. /\ Elements(queue.default)' = Elements(queue.default)
        /\ Elements(queue.delivery)' = Elements(queue.delivery)
        /\ Elements(overdue)' = Elements(overdue)
    BY <1>4 DEF Elements
  <1>10. /\ \A x \in Events : Coming(x)' <=> Coming(x) /\ x # e
         /\ \A d : Waiting(d) \/ d \in RowsOf(e) => Waiting(d)'
    <2>1. e \notin Elements(queue.default) /\ \A q \in Processes : FansOut(q, e) => q = p
      BY <1>2 DEF IInv, SentOnce
    <2> QED
      BY <1>5, <1>6, <1>7, <1>9, <2>1 DEF Coming, Waiting
  <1>11. /\ row' \in [Deliveries -> {"absent", "new", "dated", "settled"}]
         /\ \A d \in RowsOf(e) : row'[d] = "new"
         /\ \A d \in Deliveries \ RowsOf(e) : row'[d] = row[d]
         /\ RowsOf(e) \subseteq Deliveries
         /\ \A x \in Events \ {e} : RowsOf(x) \cap RowsOf(e) = {}
    BY <1>1, <1>4 DEF Shape, RowsOf
  <1>12. Orders'
    BY <1>4, <1>1 DEF Orders, Distinct
  <1>13. Shape'
    <2>1. /\ {d \in Deliveries : row'[d] = "dated"} = {d \in Deliveries : row[d] = "dated"}
          /\ {q \in Processes : task'[q].name = "committing"} =
               {q \in Processes : task[q].name = "committing"}
      BY <1>3, <1>5, <1>8, <1>11
    <2> QED
      BY <1>1, <1>4, <1>5, <1>7, <1>9, <1>11, <2>1 DEF Shape, Dated
  <1>14. SentOnce'
    <2>1. ASSUME NEW x \in Events, event'[x] # "accepted" \/ Coming(x)'
          PROVE  \A d \in RowsOf(x) : row'[d] = "absent"
      <3>1. x # e /\ (event[x] # "accepted" \/ Coming(x))
        BY <1>4, <1>8, <1>10, <2>1
      <3>2. RowsOf(x) \subseteq Deliveries \ RowsOf(e)
        BY <1>11, <3>1 DEF RowsOf
      <3> QED
        BY <1>11, <3>1, <3>2 DEF IInv, SentOnce
    <2>2. \A x \in Events : Coming(x)' => event'[x] = "accepted"
      BY <1>4, <1>10 DEF IInv, SentOnce
    <2>3. \A x \in Events, q, r \in Processes :
            FansOut(q, x)' => x \notin Elements(queue.default)' /\ (FansOut(r, x)' => q = r)
      BY <1>5, <1>9 DEF IInv, SentOnce
    <2> QED
      BY <2>1, <2>2, <2>3 DEF SentOnce, RowsOf
  <1>15. OneHolder'
    BY <1>5, <1>8, <1>9, <1>11 DEF IInv, OneHolder, Due
  <1>16. Loops'
    BY <1>5, <1>7 DEF IInv, Loops
  <1>17. EventsKept'
    <2>1. ASSUME NEW x \in Events, x # e, \A d \in RowsOf(x) : row[d] # "absent"
          PROVE  \A d \in RowsOf(x) : row'[d] # "absent"
      BY <1>11, <2>1 DEF RowsOf
    <2> QED
      BY <1>4, <1>10, <1>11, <2>1 DEF IInv, EventsKept, RowsOf
  <1>18. RowsKept'
    BY <1>4, <1>10, <1>11 DEF IInv, RowsKept
  <1> QED
    BY <1>12, <1>13, <1>14, <1>15, <1>16, <1>17, <1>18, TypedStep DEF IInv

LEMMA DispatchStep ==
  ASSUME IInv, NEW p \in Processes, NEW d \in Deliveries, Dispatch(p, d)
  PROVE  IInv'
  <1>1. /\ UNCHANGED <<event, row, ahead, overdue, countdown, task, aborts>>
        /\ d \in left[p] /\ SendDelivery(d)
        /\ left' = [left EXCEPT ![p] = @ \ {d}]
    BY DEF Dispatch, dates
  <1>2. Shape /\ Orders
    BY ShapeOfType DEF IInv
  <1>3. /\ left' \in [Processes -> SUBSET Deliveries] /\ left'[p] = left[p] \ {d}
        /\ \A q \in Processes \ {p} : left'[q] = left[q]
    BY <1>1, <1>2 DEF Shape
  <1>4. /\ Orders'
        /\ \A q, x : FansOut(q, x)' <=> FansOut(q, x)
        /\ \A q, x : Holds(q, x)' <=> Holds(q, x)
        /\ \A x : Coming(x)' <=> Coming(x)
        /\ \A x : Waiting(x) => Waiting(x)'
        /\ Elements(queue.default)' = Elements(queue.default)
    <2>1. \A q \in Processes : left'[q] = left[q] \/ left'[q] = left[q] \ {d}
      BY <1>3
    <2> QED
      BY <1>1, <1>2, <2>1, Sent
  <1>5. Shape'
    BY <1>1, <1>2, <1>3 DEF Shape, Elements, Dated
  <1>6. SentOnce'
    BY <1>1, <1>4 DEF IInv, SentOnce
  <1>7. OneHolder'
    BY <1>1, <1>4 DEF IInv, OneHolder, Due, Elements
  <1>8. Loops'
    BY <1>1, <1>3 DEF IInv, Loops
  <1>9. EventsKept' /\ RowsKept'
    BY <1>1, <1>4 DEF IInv, EventsKept, RowsKept
  <1> QED
    BY <1>4, <1>5, <1>6, <1>7, <1>8, <1>9, TypedStep DEF IInv

\* A process that is done runs nothing.
LEMMA IdleStep ==
  ASSUME TypeOK, NEW p \in Processes, Run(p, "idle", Null)
  PROVE  /\ task' \in [Processes -> Tasks] /\ task'[p].name = "idle"
         /\ \A q \in Processes \ {p} : task'[q].name = task[q].name
         /\ \A q \in Processes : \A x : FansOut(q, x)' <=> (q # p /\ FansOut(q, x))
         /\ \A q \in Processes : \A x : Holds(q, x)' <=> (q # p /\ Holds(q, x))
  <1>1. [name |-> "idle", on |-> Null] \in Tasks
    BY DEF Tasks
  <1> QED
    BY <1>1, RunStep DEF Holding

LEMMA EndLoopStep ==
  ASSUME IInv, NEW p \in Processes, EndLoop(p)
  PROVE  IInv'
  <1>1. /\ UNCHANGED <<event, row, ahead, overdue, countdown, queue, left, aborts>>
        /\ task[p].name = "dispatching" /\ left[p] = {} /\ Run(p, "idle", Null)
    BY DEF EndLoop, dates
  <1>2. Shape /\ Orders /\ TypeOK
    BY ShapeOfType DEF IInv
  <1>3. /\ task' \in [Processes -> Tasks] /\ task'[p].name = "idle"
        /\ \A q \in Processes \ {p} : task'[q].name = task[q].name
        /\ \A q \in Processes : \A x : FansOut(q, x)' <=> (q # p /\ FansOut(q, x))
        /\ \A q \in Processes : \A x : Holds(q, x)' <=> (q # p /\ Holds(q, x))
    BY <1>1, <1>2, IdleStep
  <1>4. \A x : ~FansOut(p, x) /\ ~Holds(p, x)
    BY <1>1 DEF FansOut, Holds, Holding
  <1>5. /\ \A x : Coming(x)' <=> Coming(x)
        /\ \A x : Waiting(x)' <=> Waiting(x)
        /\ Elements(queue.default)' = Elements(queue.default)
    BY <1>1, <1>3, <1>4 DEF Coming, Waiting, Elements
  <1>6. Orders'
    BY <1>1, <1>2 DEF Orders, Distinct
  <1>7. Shape'
    <2>1. Dated' = Dated
      BY <1>1, <1>3 DEF Dated
    <2> QED
      BY <1>1, <1>2, <1>3, <2>1 DEF Shape, Elements
  <1>8. SentOnce'
    BY <1>1, <1>3, <1>5 DEF IInv, SentOnce
  <1>9. OneHolder'
    BY <1>1, <1>3 DEF IInv, OneHolder, Due, Elements
  <1>10. Loops'
    BY <1>1, <1>3 DEF IInv, Loops
  <1>11. EventsKept' /\ RowsKept'
    BY <1>1, <1>5 DEF IInv, EventsKept, RowsKept
  <1> QED
    BY <1>6, <1>7, <1>8, <1>9, <1>10, <1>11, TypedStep DEF IInv

\* A row that is held is pending, and has its date in the table if it has one;
\* what its task has set itself is not there.
LEMMA HeldRow ==
  ASSUME IInv, NEW p \in Processes, NEW d \in Deliveries, Holds(p, d)
  PROVE  /\ row[d] \in {"new", "dated"} /\ d \notin ahead
         /\ \A q \in Processes : Holds(q, d) => p = q
         /\ left[p] = {} /\ task[p].name \in Holding /\ task[p].on = d
         /\ \A x : ~FansOut(p, x) /\ (Holds(p, x) => x = d)
         /\ p \in Dated <=> task[p].name = "committing"
  <1>1. Shape /\ TypeOK
    BY ShapeOfType DEF IInv
  <1>2. /\ task[p].name \in Holding /\ task[p].on = d
        /\ row[d] = "new" \/ Due(d)
        /\ \A q \in Processes : Holds(q, d) => p = q
    BY DEF IInv, OneHolder, Holds
  <1>3. /\ p \in Dated <=> task[p].name = "committing"
        /\ d \in Dated <=> row[d] = "dated"
    BY ProcessAssumption DEF Dated
  <1>4. row[d] \in {"new", "dated"} /\ d \notin ahead
    BY <1>1, <1>2, <1>3 DEF Shape, Due
  <1>5. left[p] = {}
    BY <1>2 DEF IInv, Loops, Holding
  <1>6. \A x : ~FansOut(p, x) /\ (Holds(p, x) => x = d)
    BY <1>2 DEF FansOut, Holds, Holding
  <1> QED
    BY <1>2, <1>3, <1>4, <1>5, <1>6

\* A commit that ends a POST: the row was pending, and its dates are in order.
LEMMA RecordStep ==
  ASSUME IInv, NEW p \in Processes, NEW d \in Deliveries, Holds(p, d),
         NEW status \in {"dated", "settled"}, row' = [row EXCEPT ![d] = status],
         Run(p, "idle", Null), UNCHANGED <<event, countdown, queue, left, aborts>>,
         overdue' \in Seq(Deliveries \cup Processes), Distinct(overdue'),
         Elements(overdue') \cap ahead' = {}, Elements(overdue') \cup ahead' = Dated',
         \A x \in Deliveries \ {d} : x \in Elements(overdue) => x \in Elements(overdue')
  PROVE  IInv'
  <1>1. Shape /\ Orders /\ TypeOK
    BY ShapeOfType DEF IInv
  <1>2. /\ task' \in [Processes -> Tasks]
        /\ \A q \in Processes \ {p} : task'[q].name = task[q].name
        /\ \A q \in Processes : \A x : FansOut(q, x)' <=> (q # p /\ FansOut(q, x))
        /\ \A q \in Processes : \A x : Holds(q, x)' <=> (q # p /\ Holds(q, x))
    BY <1>1, IdleStep
  <1>3. /\ row[d] \in {"new", "dated"} /\ left[p] = {}
        /\ \A q \in Processes : Holds(q, d) => p = q
        /\ \A x : ~FansOut(p, x) /\ (Holds(p, x) => x = d)
    BY HeldRow
  <1>4. /\ row' \in [Deliveries -> {"absent", "new", "dated", "settled"}]
        /\ \A x \in Deliveries : row'[x] = IF x = d THEN status ELSE row[x]
    BY <1>1 DEF Shape
  <1>5. /\ \A x : Coming(x)' <=> Coming(x)
        /\ \A x : x # d => (Waiting(x)' <=> Waiting(x))
        /\ Elements(queue.default)' = Elements(queue.default)
    BY <1>2, <1>3 DEF Coming, Waiting, Elements
  <1>6. Elements(overdue)' = Elements(overdue')
    BY DEF Elements
  <1>7. Orders'
    BY <1>1 DEF Orders, Distinct
  <1>8. Shape'
    BY <1>1, <1>2, <1>4, <1>6 DEF Shape
  <1>9. SentOnce'
    <2>1. \A e \in Events : d \in RowsOf(e) => event[e] = "accepted" /\ ~Coming(e)
      BY <1>3 DEF IInv, SentOnce
    <2>2. \A e \in Events : \A x \in RowsOf(e) : x \in Deliveries
      BY DEF RowsOf
    <2> QED
      BY <1>2, <1>4, <1>5, <2>1, <2>2 DEF IInv, SentOnce, RowsOf
  <1>10. OneHolder'
    BY <1>2, <1>3, <1>4, <1>6 DEF IInv, OneHolder, Due
  <1>11. Loops'
    BY <1>2, <1>3 DEF IInv, Loops
  <1>12. EventsKept' /\ RowsKept'
    BY <1>4, <1>5 DEF IInv, EventsKept, RowsKept, RowsOf
  <1> QED
    BY <1>7, <1>8, <1>9, <1>10, <1>11, <1>12, TypedStep DEF IInv

LEMMA SettleStep ==
  ASSUME IInv, NEW p \in Processes, Settle(p)
  PROVE  IInv'
  <1>1. Shape /\ Orders /\ TypeOK
    BY ShapeOfType DEF IInv
  <1>2. task[p].name = "deliver_to_endpoint"
    BY DEF Settle
  <1>3. PICK d \in Deliveries : Holds(p, d)
    BY <1>1, <1>2, TaskKinds DEF Holding
  <1>4. task[p].on = d /\ d \notin ahead
    BY <1>3, HeldRow
  <1>5. /\ UNCHANGED <<event, ahead, countdown, queue, left, aborts>>
        /\ row' = [row EXCEPT ![d] = "settled"] /\ overdue' = Without(d)
        /\ Run(p, "idle", Null)
    BY <1>4 DEF Settle
  <1>6. /\ overdue' \in Seq(Deliveries \cup Processes) /\ Distinct(overdue')
        /\ Elements(overdue') = Elements(overdue) \ {d}
    BY <1>1, <1>5, WithoutElements
  <1>7. Dated' = Dated \ {d}
    <2>1. \A x \in Deliveries : row'[x] = IF x = d THEN "settled" ELSE row[x]
      BY <1>1, <1>5 DEF Shape
    <2>2. \A q \in Processes : task'[q].name = "committing" <=> task[q].name = "committing"
      BY <1>1, <1>2, <1>5, IdleStep
    <2>3. d \notin Processes
      BY ProcessAssumption
    <2> QED
      BY <2>1, <2>2, <2>3 DEF Dated
  <1>8. /\ Elements(overdue') \cap ahead' = {}
        /\ Elements(overdue') \cup ahead' = Dated'
    BY <1>1, <1>4, <1>5, <1>6, <1>7 DEF Shape
  <1> QED
    BY <1>3, <1>5, <1>6, <1>8, RecordStep

\* A task gets a date, and keeps its row.
LEMMA DispatchRetryStep ==
  ASSUME IInv, NEW p \in Processes, DispatchRetry(p)
  PROVE  IInv'
  <1>1. Shape /\ Orders /\ TypeOK
    BY ShapeOfType DEF IInv
  <1>2. task[p].name = "deliver_to_endpoint"
    BY DEF DispatchRetry
  <1>3. PICK d \in Deliveries : Holds(p, d)
    BY <1>1, <1>2, TaskKinds DEF Holding
  <1>4. /\ task[p].on = d /\ left[p] = {} /\ p \notin Dated
        /\ \A x : ~FansOut(p, x) /\ (Holds(p, x) => x = d)
    BY <1>2, <1>3, HeldRow
  <1>5. /\ UNCHANGED <<event, row, overdue, queue, left, aborts>>
        /\ ahead' = ahead \cup {p} /\ countdown' = countdown \cup {d}
        /\ Run(p, "committing", d)
    BY <1>4 DEF DispatchRetry
  <1>6. /\ task' \in [Processes -> Tasks] /\ task'[p].name = "committing"
        /\ \A q \in Processes \ {p} : task'[q].name = task[q].name
        /\ \A q \in Processes : \A x : FansOut(q, x)' <=> FansOut(q, x)
        /\ \A q \in Processes : \A x : Holds(q, x)' <=> Holds(q, x)
    <2>1. [name |-> "committing", on |-> d] \in Tasks /\ "committing" \in Holding
      BY DEF Tasks, Holding
    <2> QED
      BY <1>1, <1>3, <1>4, <1>5, <2>1, RunStep
  <1>7. /\ \A x : Coming(x)' <=> Coming(x)
        /\ \A x : Waiting(x)' <=> Waiting(x)
        /\ Elements(queue.default)' = Elements(queue.default)
    BY <1>5, <1>6 DEF Coming, Waiting, Elements
  <1>8. Orders'
    BY <1>1, <1>5 DEF Orders, Distinct
  <1>9. Shape'
    <2>1. Dated' = Dated \cup {p}
      BY <1>5, <1>6 DEF Dated
    <2>2. Elements(overdue)' = Elements(overdue)
      BY <1>5 DEF Elements
    <2> QED
      BY <1>1, <1>4, <1>5, <1>6, <2>1, <2>2 DEF Shape
  <1>10. SentOnce'
    BY <1>5, <1>6, <1>7 DEF IInv, SentOnce
  <1>11. OneHolder'
    BY <1>5, <1>6 DEF IInv, OneHolder, Due, Elements
  <1>12. Loops'
    BY <1>4, <1>5, <1>6 DEF IInv, Loops
  <1>13. EventsKept' /\ RowsKept'
    BY <1>5, <1>7 DEF IInv, EventsKept, RowsKept
  <1> QED
    BY <1>8, <1>9, <1>10, <1>11, <1>12, <1>13, TypedStep DEF IInv

\* The date of the task becomes that of its row; the others stay where they are.
LEMMA CommitRetryStep ==
  ASSUME IInv, NEW p \in Processes, CommitRetry(p)
  PROVE  IInv'
  <1>1. Shape /\ Orders /\ TypeOK
    BY ShapeOfType DEF IInv
  <1>2. task[p].name = "committing"
    BY DEF CommitRetry
  <1>3. PICK d \in Deliveries : Holds(p, d)
    BY <1>1, <1>2, TaskKinds DEF Holding
  <1>4. task[p].on = d /\ d \notin ahead /\ p \in Dated /\ d \notin Processes /\ p # d
    BY <1>2, <1>3, HeldRow, ProcessAssumption
  <1> DEFINE Named(x) == IF x = p THEN d ELSE x
             w == Without(d)
             t == [i \in DOMAIN w |-> Named(w[i])]
  <1>5. /\ UNCHANGED <<event, countdown, queue, left, aborts>>
        /\ row' = [row EXCEPT ![d] = "dated"]
        /\ ahead' = {Named(x) : x \in ahead} /\ overdue' = t
        /\ Run(p, "idle", Null)
    BY <1>4 DEF CommitRetry
  <1>6. /\ w \in Seq(Deliveries \cup Processes) /\ Distinct(w)
        /\ Elements(w) = Elements(overdue) \ {d}
    BY <1>1, WithoutElements
  <1> HIDE DEF w
  <1>7. /\ t \in Seq(Deliveries \cup Processes) /\ DOMAIN t = DOMAIN w
        /\ Elements(t) = {Named(x) : x \in Elements(w)}
    <2>1. /\ DOMAIN w = 1..Len(w) /\ Len(w) \in Nat
          /\ \A i \in 1..Len(w) : w[i] \in Deliveries \cup Processes
      BY <1>6, LenProperties, ElementOfSeq
    <2>2. \A i \in 1..Len(w) : t[i] \in Deliveries \cup Processes
      BY <2>1
    <2>3. t \in Seq(Deliveries \cup Processes)
      BY <2>1, <2>2, IsASeq
    <2> QED
      BY <2>3 DEF Elements
  <1>8. Distinct(t)
    <2>1. ASSUME NEW i \in DOMAIN w, NEW j \in DOMAIN w, Named(w[i]) = Named(w[j]) PROVE i = j
      <3>1. w[i] # d /\ w[j] # d
        BY <1>6 DEF Elements
      <3>2. w[i] = w[j]
        BY <2>1, <3>1
      <3> QED
        BY <1>6, <3>2 DEF Distinct
    <2> QED
      BY <1>7, <2>1 DEF Distinct
  <1>9. Dated' = (Dated \ {p}) \cup {d}
    <2>1. \A x \in Deliveries : row'[x] = IF x = d THEN "dated" ELSE row[x]
      BY <1>1, <1>5 DEF Shape
    <2>2. \A q \in Processes : task'[q].name = "committing" <=> task[q].name = "committing" /\ q # p
      BY <1>1, <1>5, IdleStep
    <2>3. p \notin Deliveries
      BY ProcessAssumption
    <2> QED
      BY <2>1, <2>2, <2>3 DEF Dated
  <1>10. /\ Elements(t) \cap ahead' = {}
         /\ Elements(t) \cup ahead' = Dated'
    <2>1. Elements(overdue) \cap ahead = {} /\ Elements(overdue) \cup ahead = Dated
      BY <1>1 DEF Shape
    <2>2. \A x : x \in ahead' <=> (x # p /\ x \in ahead) \/ (x = d /\ p \in ahead)
      BY <1>4, <1>5
    <2>3. \A x : x \in Elements(t) <=>
            (x # p /\ x # d /\ x \in Elements(overdue)) \/ (x = d /\ p \in Elements(overdue))
      BY <1>4, <1>6, <1>7
    <2> QED
      BY <1>4, <1>9, <2>1, <2>2, <2>3
  <1>11. \A x \in Deliveries \ {d} : x \in Elements(overdue) => x \in Elements(t)
    <2>1. \A x \in Deliveries : Named(x) = x
      BY ProcessAssumption
    <2> QED
      BY <1>6, <1>7, <2>1
  <1> HIDE DEF t
  <1> QED
    BY <1>3, <1>5, <1>7, <1>8, <1>10, <1>11, RecordStep

\* The date that a task has set goes with it.
LEMMA TaskFailsStep ==
  ASSUME IInv, NEW p \in Processes, TaskFails(p)
  PROVE  IInv'
  <1>1. /\ UNCHANGED <<event, row, countdown, queue>>
        /\ Run(p, "idle", Null) /\ left' = [left EXCEPT ![p] = {}]
        /\ ahead' = ahead \ {p} /\ overdue' = Without(p)
        /\ aborts < MaxAborts /\ aborts' = aborts + 1
    BY DEF TaskFails, Abort
  <1>2. Shape /\ Orders /\ TypeOK
    BY ShapeOfType DEF IInv
  <1>3. /\ task' \in [Processes -> Tasks] /\ task'[p].name = "idle"
        /\ \A q \in Processes \ {p} : task'[q].name = task[q].name
        /\ \A q \in Processes : \A x : FansOut(q, x)' <=> (q # p /\ FansOut(q, x))
        /\ \A q \in Processes : \A x : Holds(q, x)' <=> (q # p /\ Holds(q, x))
    BY <1>1, <1>2, IdleStep
  <1>4. /\ left' \in [Processes -> SUBSET Deliveries] /\ left'[p] = {}
        /\ \A q \in Processes \ {p} : left'[q] = left[q]
    BY <1>1, <1>2 DEF Shape
  <1>5. aborts' \in 0..MaxAborts /\ aborts' # 0
    BY <1>1, <1>2, BoundAssumption DEF Shape
  <1>6. /\ \A x : Coming(x)' => Coming(x)
        /\ Elements(queue.default)' = Elements(queue.default)
    BY <1>1, <1>3 DEF Coming, Elements
  <1>7. /\ overdue' \in Seq(Deliveries \cup Processes) /\ Distinct(overdue')
        /\ Elements(overdue)' = Elements(overdue) \ {p}
    <2>1. Elements(overdue)' = Elements(overdue')
      BY DEF Elements
    <2> QED
      BY <1>1, <1>2, <2>1, WithoutElements
  <1>8. Orders'
    BY <1>1, <1>2, <1>7 DEF Orders, Distinct
  <1>9. Shape'
    <2>1. Dated' = Dated \ {p}
      BY <1>1, <1>3, ProcessAssumption DEF Dated
    <2> QED
      BY <1>1, <1>2, <1>3, <1>4, <1>5, <1>7, <2>1 DEF Shape
  <1>10. SentOnce'
    BY <1>1, <1>3, <1>6 DEF IInv, SentOnce
  <1>11. OneHolder'
    <2>1. \A d \in Deliveries : Due(d) => Due(d)'
      BY <1>7, ProcessAssumption DEF Due
    <2> QED
      BY <1>1, <1>3, <2>1 DEF IInv, OneHolder
  <1>12. Loops'
    BY <1>3, <1>4 DEF IInv, Loops
  <1>13. EventsKept' /\ RowsKept'
    BY <1>5 DEF EventsKept, RowsKept
  <1> QED
    BY <1>8, <1>9, <1>10, <1>11, <1>12, <1>13, TypedStep DEF IInv

-----------------------------------------------------------------------------
(* The theorems *)

LEMMA StepInvariant == IInv /\ [Next]_vars => IInv'
  <1> SUFFICES ASSUME IInv, [Next]_vars PROVE IInv'
    OBVIOUS
  <1>1. CASE \E e \in Events : Store(e) \/ Accept(e) \/ RequestFails(e)
    BY <1>1, StoreStep, AcceptStep, RequestFailsStep
  <1>2. CASE Beat
    BY <1>2, BeatStep
  <1>3. CASE \/ \E x \in Deliveries \cup Processes : DatePasses(x)
             \/ \E d \in Deliveries : Arrive(d)
    BY <1>3, DatePassesStep, ArriveStep
  <1>4. CASE \E p \in Processes : TakeDefault(p) \/ TakeDelivery(p)
    BY <1>4, TakeEventStep, TakeRecoverStep, TakeDeliveryStep DEF TakeDefault
  <1>5. CASE \E p \in Processes : Work(p)
    BY <1>5, FanOutStep, DispatchStep, EndLoopStep, SettleStep, DispatchRetryStep,
       CommitRetryStep DEF Work
  <1>6. CASE \E p \in Processes : TaskFails(p)
    BY <1>6, TaskFailsStep
  <1>7. CASE UNCHANGED vars
    <2>1. UNCHANGED <<event, row, ahead, overdue, countdown, queue, task, left, aborts>>
      BY <1>7 DEF vars, dates, pool
    <2>2. Orders' /\ Shape'
      BY <2>1, ShapeOfType DEF IInv, Orders, Distinct, Shape, Elements, Dated
    <2>3. SentOnce' /\ OneHolder' /\ Loops'
      BY <2>1, Unmoved DEF IInv, SentOnce, OneHolder, Loops, Due, Elements
    <2>4. EventsKept' /\ RowsKept'
      BY <2>1, Unmoved DEF IInv, EventsKept, RowsKept
    <2> QED
      BY <2>2, <2>3, <2>4, TypedStep DEF IInv
  <1> QED
    BY <1>1, <1>2, <1>3, <1>4, <1>5, <1>6, <1>7 DEF Next

\* The inductive invariant: an event has one message or one task at a time and
\* no row before its fan-out commits (deliver_event); a row is held by one
\* process, through the POST, the dispatch of its retry and the commit
\* (deliver_to_endpoint_once); and only a loop has rows to dispatch.
THEOREM PipelineInvariant == Spec => []IInv
  BY InitInvariant, StepInvariant, PTL DEF Spec

\* Every pending row with a next_retry_at has one date, that is to come or has
\* passed, and so has every retry that is dispatched and not committed: no date
\* is lost, doubled or left behind when they change hands at the commit, whether
\* it has passed by then or not, or when it is rolled back.
THEOREM PipelineTypeCorrect == Spec => []TypeOK
  <1>1. IInv => TypeOK
    BY DEF IInv
  <1> QED
    BY <1>1, PipelineInvariant, PTL

\* Until a request or a task fails, the API, deliver_event, deliver_to_endpoint
\* and the recovery never lose an accepted event or a row without a date, which
\* no recovery would find, whatever the number of processes, the interleaving of
\* their tasks and the messages that are dropped because a row is locked.
THEOREM NothingEverForgotten == Spec => []NothingForgotten
  <1>1. IInv => NothingForgotten
    <2> SUFFICES ASSUME IInv, aborts = 0 PROVE NothingForgotten
      BY DEF NothingForgotten
    <2>1. ASSUME NEW e \in Events, event[e] = "accepted"
          PROVE  \/ e \in Elements(queue.default)
                 \/ \E p \in Processes : task[p] = [name |-> "deliver_event", on |-> e]
                 \/ \A d \in RowsOf(e) : row[d] # "absent"
      BY <2>1 DEF IInv, EventsKept, Coming, FansOut
    <2>2. ASSUME NEW d \in Deliveries, row[d] = "new"
          PROVE  d \in Elements(queue.delivery) \/ Locked(d) \/ \E p \in Processes : d \in left[p]
      BY <2>2 DEF IInv, RowsKept, Waiting, Holds, Locked
    <2> QED
      BY <2>1, <2>2 DEF NothingForgotten
  <1> QED
    BY <1>1, PipelineInvariant, PTL
=============================================================================
