------------------------- MODULE DeliveryLogProofs -------------------------
(***************************************************************************)
(* Proofs that keyset pagination shows every steady row exactly once and   *)
(* that the load test's count tells the truth, for any number of rows, any *)
(* page size and any course of inserts and updates between the pages.      *)
(***************************************************************************)
EXTENDS DeliveryLog, FiniteSetTheorems, TLAPS

(* The rows of an open transaction are in no other and not in the table.   *)
Unborn ==
  /\ \A t \in open, d \in Ids : d \in t.ids => row[d] = Null
  /\ \A s, t \in open, d \in Ids : d \in s.ids /\ d \in t.ids => s = t

(* Before the first page there is nothing to remember, and a client without*)
(* a cursor in the middle of a scan has seen nothing of it.                *)
Begun ==
  /\ pc \in {"idle", "done"} \cup Stopped => cursor = Null
  /\ pc = "idle" => steady = {} /\ filter = Null
  /\ pc = "idle" \/ (pc = "paging" /\ cursor = Null) =>
       counted = 0 /\ \A d \in Ids : shown[d] = 0

(* The rows shown are at the cursor or before it, each once.               *)
ShownRows == \A d \in Ids : shown[d] > 0 => row[d] # Null
Behind ==
  pc = "paging" /\ cursor # Null =>
    \A d \in Ids : shown[d] > 0 => ~AfterCursor(d)

(* Steady rows match; those not shown yet are after the cursor.            *)
Steady ==
  /\ \A d \in steady : Matches(d, filter)
  /\ pc = "paging" => \A d \in steady : shown[d] > 0 \/ AfterCursor(d)

(* A row that settles only changes its status: what a cursor leads to is   *)
(* still there.                                                            *)
More == pc = "paging" /\ cursor # Null /\ filter = Null => Candidates # {}

(* The count is of rows that were shown and are finished.                  *)
Reached == {d \in Finished(Ours) : shown[d] > 0}
CountTrue ==
  /\ counted <= Cardinality(Reached)
  /\ pc = "over" => counted >= Expected

IInv ==
  TypeOK /\ Unborn /\ Begun /\ ShownRows /\ ShownOnce /\ Behind /\ Steady /\ More
  /\ CountTrue /\ ScanComplete

-----------------------------------------------------------------------------
(* The order of the rows *)

\* Before is a strict total order.
LEMMA BeforeOrder ==
  ASSUME NEW j \in Keys, NEW k \in Keys, NEW l \in Keys
  PROVE  /\ ~Before(k, k)
         /\ Before(j, k) /\ Before(k, l) => Before(j, l)
         /\ j = k \/ Before(j, k) \/ Before(k, j)
  <1>1. /\ j.created_at \in Nat /\ k.created_at \in Nat /\ l.created_at \in Nat
        /\ j.id \in Nat /\ k.id \in Nat /\ l.id \in Nat
    <2>1. ASSUME NEW i \in Keys PROVE i.created_at \in 0..MaxClock /\ i.id \in Ids
      BY DEF Keys
    <2>2. 0..MaxClock \subseteq Nat
      BY SizeAssumption
    <2> QED
      BY <2>1, <2>2, IdAssumption
  <1>2. j.created_at = k.created_at /\ j.id = k.id => j = k
    BY DEF Keys
  <1> QED
    BY <1>1, <1>2 DEF Before

LEMMA KeyType ==
  ASSUME TypeOK, NEW d \in Ids, row[d] # Null
  PROVE  Key(d) \in Keys /\ Key(d).id = d
  BY DEF TypeOK, Key, Keys

\* A set of numbers has a least one.
LEMMA LeastNumber ==
  ASSUME NEW T \in SUBSET Nat, T # {}
  PROVE  \E m \in T : \A n \in T : m <= n
  <1> DEFINE R == StrictSubsetOrdering(Nat)
             below == {0..n : n \in T}
  <1>1. ASSUME NEW n \in T PROVE 0..n \in FiniteSubsetsOf(Nat)
    <2>1. IsFiniteSet(0..n)
      BY FS_Interval
    <2> QED
      BY <2>1 DEF FiniteSubsetsOf
  <1>2. PICK b \in below : \A a \in below : <<a, b>> \notin R
    <2>1. below \subseteq FiniteSubsetsOf(Nat) /\ below # {}
      BY <1>1
    <2> QED
      BY <2>1, FS_StrictSubsetOrderingWellFounded, WFMin
  <1>3. PICK m \in T : b = 0..m
    BY <1>2
  <1>4. ASSUME NEW n \in T, n < m PROVE FALSE
    <2>1. 0..n \subseteq 0..m /\ 0..n # 0..m /\ 0..n \in SUBSET Nat /\ 0..m \in SUBSET Nat
      BY <1>4
    <2>2. <<0..n, 0..m>> \in R
      BY <2>1 DEF StrictSubsetOrdering
    <2> QED
      BY <1>2, <1>3, <2>2
  <1> QED
    BY <1>4

\* A page that is not empty has a last row.
LEMMA LastRow ==
  ASSUME TypeOK, NEW P \in SUBSET Ids, P # {}, \A d \in P : row[d] # Null
  PROVE  /\ Last(P) \in P
         /\ \A b \in P \ {Last(P)} : Before(Key(Last(P)), Key(b))
  <1> DEFINE times == {row[d].created_at : d \in P}
  <1>1. ASSUME NEW d \in P PROVE row[d].created_at \in Nat /\ d \in Nat
    <2>1. row[d] \in [created_at : 0..MaxClock, status : Statuses]
      BY DEF TypeOK
    <2> QED
      BY <2>1, IdAssumption, SizeAssumption
  <1>2. PICK t \in times : \A u \in times : t <= u
    BY <1>1, LeastNumber
  <1> DEFINE oldest == {d \in P : row[d].created_at = t}
  <1>3. PICK d \in oldest : \A b \in oldest : d <= b
    <2>1. oldest \in SUBSET Nat /\ oldest # {}
      BY <1>1, <1>2
    <2> QED
      BY <2>1, LeastNumber
  <1>4. d \in P /\ \A b \in P \ {d} : Before(Key(d), Key(b))
    BY <1>1, <1>2, <1>3 DEF Before, Key
  <1> QED
    BY <1>4 DEF Last

LEMMA CandidateRows ==
  ASSUME TypeOK, NEW d \in Candidates
  PROVE  d \in Ids /\ row[d] # Null /\ Key(d) \in Keys /\ AfterCursor(d)
  BY KeyType DEF Candidates, Matches

\* The first page there is to show is not empty.
LEMMA PageShows ==
  ASSUME TypeOK, NEW P, IsPage(P), Candidates # {}
  PROVE  P # {}
  <1>1. IsFiniteSet(Candidates) /\ IsFiniteSet(P) /\ P \in SUBSET Ids
    BY IdAssumption, FS_Subset DEF IsPage, Candidates
  <1>2. Cardinality(Candidates) \in Nat /\ Cardinality(Candidates) # 0
    BY <1>1, FS_CardinalityType, FS_EmptySet
  <1>3. Cardinality(P) # 0
    BY <1>2, SizeAssumption DEF IsPage
  <1> QED
    BY <1>3, FS_EmptySet

-----------------------------------------------------------------------------
(* The invariant *)

\* The first state.
LEMMA InitInvariant == Init => IInv
  <1> SUFFICES ASSUME Init PROVE IInv
    OBVIOUS
  <1>1. Cardinality(Ids) \in Nat /\ IsFiniteSet(Reached)
    BY IdAssumption, FS_CardinalityType, FS_Subset DEF Reached, Finished
  <1>2. Cardinality(Reached) \in Nat
    BY <1>1, FS_CardinalityType
  <1> QED
    BY <1>1, <1>2, SizeAssumption
    DEF Init, IInv, TypeOK, Unborn, Begun, ShownRows, ShownOnce, Behind, Steady, More,
        CountTrue, ScanComplete

\* Rows are inserted, and settled once; nothing else becomes of them.
RowsGrow ==
  \A d \in Ids : row[d] # Null =>
    /\ row'[d] # Null /\ row'[d].created_at = row[d].created_at
    /\ row[d].status # "pending" => row'[d].status = row[d].status

\* The set whose rows are counted is finite.
LEMMA ReachedFinite == IsFiniteSet(Reached) /\ Cardinality(Reached) \in Nat
  BY IdAssumption, FS_CardinalityType, FS_Subset DEF Reached, Finished

\* What the table does between two pages does not disturb the client.
LEMMA TableStep ==
  ASSUME IInv, RowsGrow, UNCHANGED client,
         clock' \in 0..MaxClock,
         open' \subseteq [created_at : 0..MaxClock, ids : SUBSET Ids],
         row' \in [Ids -> [created_at : 0..MaxClock, status : Statuses] \cup {Null}],
         steady' \subseteq steady, \A d \in steady' : Matches(d, filter)', Unborn'
  PROVE  IInv'
  <1> USE DEF IInv, client
  <1>1. TypeOK'
    BY DEF TypeOK
  <1>2. \A d \in Ids : row[d] # Null => (AfterCursor(d)' <=> AfterCursor(d))
    BY DEF RowsGrow, AfterCursor, Before, Key
  <1>3. Begun' /\ ShownRows' /\ ShownOnce' /\ ScanComplete'
    BY DEF Begun, Stopped, ShownRows, ShownOnce, ScanComplete, RowsGrow
  <1>4. Behind'
    BY <1>2 DEF Behind, ShownRows
  <1>5. Steady'
    BY <1>2 DEF TypeOK, Steady, Matches
  <1>6. More'
    <2>1. filter = Null => Candidates \subseteq Candidates'
      BY <1>2 DEF Candidates, Matches, RowsGrow
    <2> QED
      BY <2>1 DEF More
  <1>7. CountTrue'
    <2>1. Reached \subseteq Reached'
      BY IdAssumption DEF Reached, Finished, RowsGrow
    <2>2. IsFiniteSet(Reached') /\ Cardinality(Reached') \in Nat
      BY IdAssumption, FS_CardinalityType, FS_Subset DEF Reached, Finished
    <2>3. Cardinality(Reached) <= Cardinality(Reached') /\ Cardinality(Reached) \in Nat
      BY <2>1, <2>2, ReachedFinite, FS_Subset
    <2> QED
      BY <2>2, <2>3 DEF CountTrue, TypeOK
  <1> QED
    BY <1>1, <1>3, <1>4, <1>5, <1>6, <1>7

\* A page holds rows that were not shown before.
LEMMA PageNew ==
  ASSUME IInv, NEW P, ReadPage(P)
  PROVE  /\ P \in SUBSET Ids
         /\ \A d \in P : shown[d] = 0 /\ row[d] # Null /\ Key(d) \in Keys /\ AfterCursor(d)
  <1>1. P \subseteq Candidates /\ pc = "paging"
    BY DEF ReadPage, IsPage
  <1>2. P \in SUBSET Ids /\ \A d \in P : row[d] # Null /\ Key(d) \in Keys /\ AfterCursor(d)
    BY <1>1, CandidateRows DEF IInv
  <1>3. \A d \in P : shown[d] = 0
    BY <1>1, <1>2 DEF IInv, TypeOK, Begun, Behind
  <1> QED
    BY <1>2, <1>3

\* A page adds to the count what it adds to the finished rows that were shown.
LEMMA PageCount ==
  ASSUME IInv, NEW P, ReadPage(P)
  PROVE  counted' \in 0..Cardinality(Ids) /\ counted' <= Cardinality(Reached')
  <1> DEFINE F == Finished(P \cap Ours)
  <1>1. Reached' = Reached \cup F /\ Reached \cap F = {} /\ F \in SUBSET Ids
    <2>1. /\ P \in SUBSET Ids /\ \A d \in P : shown[d] = 0
          /\ shown' = [d \in Ids |-> IF d \in P THEN shown[d] + 1 ELSE shown[d]]
          /\ UNCHANGED row
      BY PageNew DEF ReadPage, table
    <2>2. \A d \in Ids : shown[d] \in Nat
      BY DEF IInv, TypeOK
    <2>3. ASSUME NEW d \in Ids
          PROVE  /\ d \in P => shown[d] = 0 /\ shown'[d] = 1
                 /\ d \notin P => shown'[d] = shown[d]
      BY <2>1
    <2>4. \A d \in Ids : d \in Reached' <=> d \in Reached \/ d \in F
      BY <2>1, <2>2, <2>3 DEF Reached, Finished
    <2>5. \A d \in Ids : ~(d \in Reached /\ d \in F)
      BY <2>1 DEF Reached, Finished
    <2>6. Reached \subseteq Ids /\ Reached' \subseteq Ids /\ F \in SUBSET Ids
      BY IdAssumption DEF Reached, Finished
    <2> QED
      BY <2>4, <2>5, <2>6
  <1>2. IsFiniteSet(F) /\ Cardinality(F) \in Nat
    BY <1>1, IdAssumption, FS_CardinalityType, FS_Subset
  <1>3. Cardinality(Reached') = Cardinality(Reached) + Cardinality(F)
    <2>1. Cardinality(Reached \cup F) =
            Cardinality(Reached) + Cardinality(F) - Cardinality(Reached \cap F)
      BY <1>2, ReachedFinite, FS_Union
    <2>2. Cardinality(Reached \cap F) = 0
      BY <1>1, FS_EmptySet
    <2> QED
      BY <1>1, <1>2, <2>1, <2>2, ReachedFinite
  <1>4. Cardinality(Reached') <= Cardinality(Ids) /\ Cardinality(Ids) \in Nat
    <2>1. Reached' \in SUBSET Ids
      BY <1>1, IdAssumption DEF Reached, Finished
    <2> QED
      BY <2>1, IdAssumption, FS_Subset, FS_CardinalityType
  <1>5. counted' = counted + Cardinality(F) /\ counted \in Nat
    BY <1>4 DEF ReadPage, Counted, IInv, TypeOK
  <1>6. Cardinality(Reached') \in Nat
    BY <1>2, <1>3, ReachedFinite
  <1> QED
    BY <1>2, <1>3, <1>4, <1>5, <1>6, ReachedFinite DEF IInv, CountTrue

\* A page that is not the last leaves the cursor at its last row.
LEMMA MorePages ==
  ASSUME IInv, NEW P, ReadPage(P), HasMore(P)
  PROVE  /\ cursor' \in Keys /\ Behind' /\ Steady' /\ More'
  <1> USE DEF IInv
  <1>1. P \in SUBSET Ids /\ P # {} /\ P \subseteq Candidates /\ pc = "paging"
    BY PageNew, PageShows DEF ReadPage, HasMore, IsPage
  <1>2. PICK l \in P : /\ l = Last(P) /\ \A b \in P \ {l} : Before(Key(l), Key(b))
    BY <1>1, PageNew, LastRow
  <1>3. l \in Ids /\ row[l] # Null /\ Key(l) \in Keys /\ AfterCursor(l)
    BY <1>2, PageNew
  <1>4. /\ cursor' = Key(l) /\ pc' = "paging" /\ UNCHANGED <<table, filter, steady>>
        /\ shown' = [d \in Ids |-> IF d \in P THEN shown[d] + 1 ELSE shown[d]]
    BY <1>2 DEF ReadPage, NextCursor, HasMore
  <1>5. cursor' # Null
    BY <1>3, <1>4, NullAssumption
  <1>6. \A d \in Ids : AfterCursor(d)' <=> Before(Key(d), Key(l))
    BY <1>4, <1>5 DEF AfterCursor, Key, Before, table
  <1>7. ASSUME NEW d \in Ids, row[d] # Null, Before(Key(d), Key(l))
        PROVE  d \notin P /\ AfterCursor(d)
    <2>1. Key(d) \in Keys
      BY <1>7, KeyType
    <2>2. d \notin P
      BY <1>2, <1>3, <1>7, <2>1, BeforeOrder
    <2>3. cursor # Null => Before(Key(d), cursor)
      <3>1. cursor # Null => cursor \in Keys /\ Before(Key(l), cursor)
        BY <1>3 DEF TypeOK, AfterCursor
      <3> QED
        BY <1>3, <1>7, <2>1, <3>1, BeforeOrder
    <2> QED
      BY <2>2, <2>3 DEF AfterCursor
  <1>8. Behind'
    <2>1. ASSUME NEW d \in Ids, shown'[d] > 0, Before(Key(d), Key(l)) PROVE FALSE
      <3>1. row[d] # Null
        BY <1>4, <2>1, PageNew DEF ShownRows
      <3>2. d \notin P /\ AfterCursor(d)
        BY <1>7, <2>1, <3>1
      <3>3. shown[d] > 0
        BY <1>4, <2>1, <3>2
      <3> QED
        BY <1>1, <3>2, <3>3 DEF Behind, Begun
    <2> QED
      BY <1>6, <2>1 DEF Behind
  <1>9. Steady'
    <2>1. ASSUME NEW d \in steady PROVE Matches(d, filter)'
      BY <1>4, <2>1 DEF Steady, Matches, table
    <2>2. ASSUME NEW d \in steady, ~(shown'[d] > 0) PROVE Before(Key(d), Key(l))
      <3>1. d \in Ids
        BY DEF TypeOK
      <3>2. d \notin P /\ ~(shown[d] > 0)
        BY <1>4, <2>2, <3>1, PageNew
      <3>3. d \in Candidates \ P
        BY <1>1, <3>1, <3>2 DEF Steady, Candidates
      <3> QED
        BY <1>2, <3>3 DEF ReadPage, IsPage
    <2> QED
      BY <1>4, <1>6, <2>1, <2>2 DEF Steady, TypeOK
  <1>10. More'
    <2>1. PICK b \in Candidates \ P : Before(Key(b), Key(l))
      BY <1>2 DEF ReadPage, HasMore, IsPage
    <2>2. b \in Ids /\ Matches(b, filter)'
      BY <1>4 DEF Candidates, Matches, table
    <2>3. b \in Candidates'
      BY <1>6, <2>1, <2>2 DEF Candidates
    <2> QED
      BY <2>3 DEF More
  <1> QED
    BY <1>3, <1>4, <1>8, <1>9, <1>10

\* A page is read.
LEMMA PageStep == ASSUME IInv, NEW P, ReadPage(P) PROVE IInv'
  <1> USE DEF IInv
  <1>1. /\ pc = "paging" /\ UNCHANGED <<table, filter, steady>>
        /\ shown' = [d \in Ids |-> IF d \in P THEN shown[d] + 1 ELSE shown[d]]
        /\ P \subseteq Candidates
    BY DEF ReadPage, IsPage
  <1>2. Unborn'
    BY <1>1 DEF Unborn, table
  <1>3. ShownRows' /\ ShownOnce'
    BY <1>1, PageNew DEF ShownRows, ShownOnce, table, TypeOK
  <1>4. CASE HasMore(P)
    <2>1. cursor' \in Keys /\ cursor' # Null /\ Behind' /\ Steady' /\ More'
      BY <1>4, MorePages, NullAssumption
    <2>2. pc' = "paging"
      BY <1>4 DEF ReadPage
    <2>3. TypeOK'
      BY <1>1, <2>1, <2>2, PageCount DEF TypeOK, Stopped, table
    <2>4. Begun' /\ ScanComplete'
      BY <2>1, <2>2 DEF Begun, Stopped, ScanComplete
    <2>5. CountTrue'
      BY <2>2, PageCount DEF CountTrue
    <2> QED
      BY <1>2, <1>3, <2>1, <2>3, <2>4, <2>5
  <1>5. CASE ~HasMore(P)
    <2>1. cursor' = Null /\ pc' = "done" /\ P = Candidates
      BY <1>1, <1>5 DEF ReadPage, NextCursor, HasMore
    <2>2. TypeOK'
      BY <1>1, <2>1, PageCount DEF TypeOK, table
    <2>3. Begun' /\ Behind' /\ More'
      BY <2>1 DEF Begun, Behind, More
    <2>4. Steady'
      BY <1>1, <2>1 DEF Steady, Matches, table
    <2>5. ScanComplete'
      <3>1. ASSUME NEW d \in steady PROVE shown'[d] > 0
        <4>1. d \in Ids /\ shown[d] \in Nat
          BY DEF TypeOK
        <4>2. shown[d] > 0 \/ d \in P
          BY <1>1, <2>1, <4>1 DEF Steady, Candidates
        <4> QED
          BY <1>1, <4>1, <4>2
      <3> QED
        BY <1>1, <3>1 DEF ScanComplete
    <2>6. CountTrue'
      BY <2>1, PageCount DEF CountTrue
    <2> QED
      BY <1>2, <1>3, <2>2, <2>3, <2>4, <2>5, <2>6
  <1> QED
    BY <1>4, <1>5

\* A round of pages begins.
LEMMA RoundStep ==
  ASSUME IInv, NEW f \in Statuses \cup {Null},
         pc' = "paging", cursor = Null, counted' = 0, filter' = f,
         shown' = [d \in Ids |-> 0], steady' = {d \in Ids : Matches(d, f)},
         UNCHANGED <<table, cursor>>
  PROVE  IInv'
  <1> USE DEF IInv, table
  <1>1. IsFiniteSet(Reached') /\ Cardinality(Reached') \in Nat /\ Cardinality(Ids) \in Nat
    BY IdAssumption, FS_CardinalityType, FS_Subset DEF Reached, Finished
  <1>2. TypeOK' /\ CountTrue'
    BY <1>1 DEF TypeOK, CountTrue, Stopped
  <1>3. Unborn' /\ Begun' /\ ShownRows' /\ ShownOnce' /\ Behind' /\ More' /\ ScanComplete'
    BY DEF Unborn, Begun, Stopped, ShownRows, ShownOnce, Behind, More, ScanComplete
  <1>4. Steady'
    BY DEF Steady, Matches, AfterCursor
  <1> QED
    BY <1>2, <1>3, <1>4

\* Every step keeps the invariant.
LEMMA StepInvariant == IInv /\ [Next]_vars => IInv'
  <1> SUFFICES ASSUME IInv, [Next]_vars PROVE IInv'
    OBVIOUS
  <1> USE DEF IInv
  <1>1. CASE Tick
    <2>1. clock' \in 0..MaxClock /\ UNCHANGED <<open, row, client, steady>>
      BY <1>1, SizeAssumption DEF Tick, TypeOK
    <2>2. Unborn' /\ RowsGrow /\ \A d \in steady' : Matches(d, filter)'
      BY <2>1 DEF Unborn, RowsGrow, Steady, Matches, client
    <2> QED
      BY <2>1, <2>2, TableStep DEF TypeOK
  <1>2. ASSUME NEW S \in SUBSET Ids, Begin(S) PROVE IInv'
    <2>1. open' \subseteq [created_at : 0..MaxClock, ids : SUBSET Ids]
      BY <1>2 DEF Begin, TypeOK
    <2>2. Unborn'
      BY <1>2 DEF Begin, Unborn
    <2>3. RowsGrow /\ \A d \in steady' : Matches(d, filter)'
      BY <1>2 DEF Begin, RowsGrow, Steady, Matches, client
    <2> QED
      BY <1>2, <2>1, <2>2, <2>3, TableStep DEF Begin, TypeOK
  <1>3. ASSUME NEW t \in open, CommitRows(t) PROVE IInv'
    <2>1. /\ t.created_at \in 0..MaxClock /\ t.ids \in SUBSET Ids
          /\ \A d \in t.ids : row[d] = Null
      BY DEF TypeOK, Unborn
    <2>2. row' \in [Ids -> [created_at : 0..MaxClock, status : Statuses] \cup {Null}]
      BY <1>3, <2>1 DEF CommitRows, TypeOK, Statuses
    <2>3. Unborn'
      BY <1>3, <2>1 DEF CommitRows, Unborn
    <2>4. RowsGrow
      BY <1>3, <2>1 DEF CommitRows, RowsGrow
    <2>5. \A d \in steady' : Matches(d, filter)'
      BY <1>3, <2>1 DEF CommitRows, client, Steady, Matches, TypeOK
    <2> QED
      BY <1>3, <2>1, <2>2, <2>3, <2>4, <2>5, TableStep DEF CommitRows, TypeOK
  <1>4. ASSUME NEW d \in Ids, NEW status \in Final, Settle(d, status) PROVE IInv'
    <2>1. row[d] \in [created_at : 0..MaxClock, status : Statuses] /\ row[d].status = "pending"
      BY <1>4 DEF Settle, TypeOK
    <2>2. PICK new \in [created_at : 0..MaxClock, status : Statuses] :
            new = [row[d] EXCEPT !.status = status]
      BY <2>1 DEF Statuses
    <2>3. /\ new # Null /\ new.created_at = row[d].created_at /\ new.status = status
          /\ row' = [row EXCEPT ![d] = new]
      BY <1>4, <2>1, <2>2, NullAssumption DEF Settle
    <2>4. row' \in [Ids -> [created_at : 0..MaxClock, status : Statuses] \cup {Null}]
      BY <2>3 DEF TypeOK
    <2>5. Unborn' /\ RowsGrow
      BY <1>4, <2>1, <2>3 DEF Settle, Unborn, RowsGrow, TypeOK
    <2>6. steady' \subseteq steady /\ \A c \in steady' : Matches(c, filter)'
      BY <1>4, <2>3 DEF Settle, client, Steady, Matches, TypeOK
    <2> QED
      BY <1>4, <2>4, <2>5, <2>6, TableStep DEF Settle, TypeOK
  <1>5. ASSUME NEW P, ReadPage(P) PROVE IInv'
    BY <1>5, PageStep
  <1>6. ASSUME NEW f \in Statuses \cup {Null}, Ask(f) PROVE IInv'
    <2>1. counted = 0 /\ cursor = Null /\ shown = [d \in Ids |-> 0]
      BY <1>6 DEF Ask, Begun, TypeOK
    <2> QED
      BY <1>6, <2>1, RoundStep DEF Ask, table
  <1>7. CASE Again
    BY <1>7, RoundStep DEF Again, Begun
  <1>8. CASE Over
    <2>1. UNCHANGED Reached
      BY <1>8 DEF Over, table, Reached, Finished
    <2>2. counted \in Nat /\ pc' \in Stopped /\ (pc' = "over" => counted >= Expected)
      BY <1>8 DEF Over, Stopped, TypeOK
    <2> QED
      BY <1>8, <2>1, <2>2 DEF Over, Stopped, table, TypeOK, Unborn, Begun, ShownRows, ShownOnce,
                              Behind, Steady, Matches, More, CountTrue, ScanComplete
  <1>9. CASE UNCHANGED vars
    <2>1. UNCHANGED <<Reached, Candidates>> /\ \A d \in Ids : AfterCursor(d)' = AfterCursor(d)
      BY <1>9 DEF vars, table, client, Reached, Finished, Candidates, Matches, AfterCursor, Key,
                  Before
    <2> QED
      BY <1>9, <2>1 DEF vars, table, client, TypeOK, Unborn, Begun, ShownRows, ShownOnce, Behind,
                        Steady, Matches, More, CountTrue, ScanComplete
  <1> QED
    BY <1>1, <1>2, <1>3, <1>4, <1>5, <1>6, <1>7, <1>8, <1>9 DEF Next, Done

-----------------------------------------------------------------------------
(* The theorems *)

\* While transactions commit rows and workers settle them, list_delivery_logs has
\* shown what is before its cursor and will show what is after: the invariant
\* always holds.
THEOREM LogInvariant == Spec => []IInv
  BY InitInvariant, StepInvariant, PTL DEF Spec

\* Every variable keeps its type: above all, the load test never counts more
\* than there are rows.
THEOREM LogTypeCorrect == Spec => []TypeOK
  BY LogInvariant, PTL DEF IInv

\* No row is on two pages, also when many share the cursor's created_at
\* (list_delivery_logs).
THEOREM AlwaysShownOnce == Spec => []ShownOnce
  BY LogInvariant, PTL DEF IInv

\* A scan that has come to its end has shown every steady row.
THEOREM ScanAlwaysComplete == Spec => []ScanComplete
  BY LogInvariant, PTL DEF IInv

\* What the load test has counted when it stops, for either reason, is finished,
\* each row once; without the timeout that is as many as it computed beforehand
\* (wait_for_deliveries).
THEOREM WaitAlwaysEndsTruthfully == Spec => []WaitEndsTruthfully
  <1>1. ASSUME IInv
        PROVE  /\ counted <= Cardinality(Finished(Ours))
               /\ pc = "over" => Expected <= Cardinality(Finished(Ours))
    <2>1. Reached \in SUBSET Finished(Ours) /\ Finished(Ours) \in SUBSET Ids
      BY IdAssumption DEF Reached, Finished
    <2>2. IsFiniteSet(Finished(Ours)) /\ Cardinality(Finished(Ours)) \in Nat
      BY <2>1, IdAssumption, FS_Subset, FS_CardinalityType
    <2>3. Cardinality(Reached) <= Cardinality(Finished(Ours))
      BY <2>1, <2>2, FS_Subset
    <2>4. counted \in Nat /\ Expected \in Nat
      <3>1. Cardinality(Ids) \in Nat
        BY IdAssumption, FS_CardinalityType
      <3> QED
        BY <1>1, <3>1, SizeAssumption DEF IInv, TypeOK
    <2> QED
      BY <1>1, <2>2, <2>3, <2>4, ReachedFinite DEF IInv, CountTrue
  <1>2. IInv => WaitEndsTruthfully
    BY <1>1 DEF WaitEndsTruthfully
  <1> QED
    BY <1>2, LogInvariant, PTL

\* A cursor promises another row: the page it leads to is not empty.
THEOREM CursorAlwaysLeadsOn == Spec => CursorLeadsOn
  <1>1. ASSUME IInv, NEW P \in SUBSET Ids, ReadPage(P), cursor # Null, filter = Null
        PROVE  P # {}
    <2>1. Candidates # {} /\ IsPage(P)
      BY <1>1 DEF ReadPage, IInv, More
    <2> QED
      BY <1>1, <2>1, PageShows DEF IInv
  <1>2. IInv /\ [Next]_vars =>
          [\A P \in SUBSET Ids :
             ReadPage(P) /\ cursor # Null /\ filter = Null => P # {}]_vars
    BY <1>1
  <1> QED
    BY <1>2, LogInvariant, PTL DEF Spec, CursorLeadsOn
=============================================================================
