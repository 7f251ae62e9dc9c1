---------------------------- MODULE DeliveryLog ----------------------------
(***************************************************************************)
(* GET /deliveries/: a client pages through its delivery rows, newest      *)
(* first, with a cursor that names the last row it was shown, while rows   *)
(* are inserted and settled.                                               *)
(*                                                                         *)
(* created_at is the time at which the inserting transaction began, so the *)
(* rows of one fan-out share it, and a row may appear after newer ones.    *)
(* Each page is one select.  A client may ask for one status, or be the    *)
(* load test, which reads all pages again and again until it has counted   *)
(* as many finished rows of its events as it computed beforehand, or its   *)
(* time is up.  There may be more such rows than that, when a fan-out ran  *)
(* twice or an endpoint was added, and also fewer.                         *)
(***************************************************************************)
EXTENDS Naturals, FiniteSets

CONSTANTS
  Ids,       \* row ids, numbers: uuids compare like numbers of random order
  PageSize,  \* min(limit, MAX_DELIVERY_LOG_LIMIT)
  Ours,      \* the rows of the events the load test has sent
  Expected,  \* expected_deliveries
  MaxClock,  \* bound: the time now() returns
  Null       \* no row, no cursor, no filter

\* "success" stands for "exhausted" too.
Final == {"success", "failed"}
Statuses == {"pending"} \cup Final
Keys == [created_at : 0..MaxClock, id : Ids]

ASSUME IdAssumption == Ids \subseteq Nat /\ IsFiniteSet(Ids) /\ Ours \subseteq Ids
ASSUME NullAssumption ==
  /\ Null \notin Keys /\ Null \notin Statuses
  /\ Null \notin [created_at : 0..MaxClock, status : Statuses]
ASSUME SizeAssumption == PageSize \in Nat \ {0} /\ Expected \in Nat \ {0} /\ MaxClock \in Nat

VARIABLES
  clock,     \* the current time
  open,      \* the transactions that insert rows: their start and their rows
  row,       \* the committed rows
  pc,        \* how far the client has come
  counted,   \* its finished rows on the pages of this round
  filter,    \* the status it asks for, or Null
  cursor,    \* next_cursor of the last page, or Null
  shown,     \* history: how often each row was on a page
  steady     \* history: the rows that matched since the first page was asked for

table == <<clock, open, row>>
client == <<pc, counted, filter, cursor, shown>>
vars == <<table, client, steady>>

Stopped == {"over", "timeout"}

TypeOK ==
  /\ clock \in 0..MaxClock
  /\ open \subseteq [created_at : 0..MaxClock, ids : SUBSET Ids]
  /\ row \in [Ids -> [created_at : 0..MaxClock, status : Statuses] \cup {Null}]
  /\ pc \in {"idle", "paging", "done"} \cup Stopped
  /\ counted \in 0..Cardinality(Ids)
  /\ filter \in Statuses \cup {Null}
  /\ cursor \in Keys \cup {Null} /\ (pc \in {"done"} \cup Stopped => cursor = Null)
  /\ shown \in [Ids -> Nat]
  /\ steady \subseteq Ids

Init ==
  /\ clock = 0
  /\ open = {}
  /\ row = [d \in Ids |-> Null]
  /\ pc = "idle"
  /\ counted = 0
  /\ filter = Null
  /\ cursor = Null
  /\ shown = [d \in Ids |-> 0]
  /\ steady = {}

-----------------------------------------------------------------------------
(* The table *)

Tick ==
  /\ clock < MaxClock
  /\ clock' = clock + 1
  /\ UNCHANGED <<open, row, client, steady>>

\* A fan-out begins its transaction.
Begin(S) ==
  /\ S # {}
  /\ \A d \in S : row[d] = Null /\ \A t \in open : d \notin t.ids
  /\ open' = open \cup {[created_at |-> clock, ids |-> S]}
  /\ UNCHANGED <<clock, row, client, steady>>

\* It commits its rows, all with the time of its start.
CommitRows(t) ==
  /\ t \in open
  /\ open' = open \ {t}
  /\ row' = [d \in Ids |->
       IF d \in t.ids THEN [created_at |-> t.created_at, status |-> "pending"] ELSE row[d]]
  /\ UNCHANGED <<clock, client, steady>>

Matches(d, f) == row[d] # Null /\ (f # Null => row[d].status = f)

\* A worker commits the row's final status.
Settle(d, status) ==
  /\ row[d] # Null /\ row[d].status = "pending"
  /\ row' = [row EXCEPT ![d].status = status]
  /\ steady' = IF filter \in {Null, status} THEN steady ELSE steady \ {d}
  /\ UNCHANGED <<clock, open, client>>

-----------------------------------------------------------------------------
(* The pages *)

Key(d) == [created_at |-> row[d].created_at, id |-> d]

\* ORDER BY created_at DESC, id DESC: j comes after k.
Before(j, k) ==
  j.created_at < k.created_at \/ (j.created_at = k.created_at /\ j.id < k.id)

\* Mutants: rows with the cursor's created_at are left out, or all come again.
AfterTime(d) == cursor # Null => row[d].created_at < cursor.created_at
AfterOrSame(d) == cursor # Null => row[d].created_at <= cursor.created_at

\* created_at < cursor_created_at OR (created_at = ... AND id < cursor_id)
AfterCursor(d) == cursor # Null => Before(Key(d), cursor)

Candidates == {d \in Ids : Matches(d, filter) /\ AfterCursor(d)}

\* The first PageSize candidates.
IsPage(P) ==
  /\ P \subseteq Candidates
  /\ \A d \in P, b \in Candidates \ P : Before(Key(b), Key(d))
  /\ Cardinality(P) = IF Cardinality(Candidates) < PageSize
                      THEN Cardinality(Candidates) ELSE PageSize

Last(P) == CHOOSE d \in P : \A b \in P \ {d} : Before(Key(d), Key(b))

\* Mutant: a full page always has a cursor.
HasMoreFull(P) == Cardinality(P) = PageSize
\* The select asks for one row more than the page.
HasMore(P) == Candidates \ P # {}

\* Mutant: the cursor names the extra row, which no page has shown.
NextCursorExtra(P) ==
  IF HasMore(P) THEN
    Key(CHOOSE d \in Candidates \ P : \A b \in Candidates \ P : d = b \/ Before(Key(b), Key(d)))
  ELSE Null

\* Mutant: the last page has a cursor too.
NextCursorAlways(P) == IF P # {} THEN Key(Last(P)) ELSE Null

\* _encode_delivery_cursor(page_items[-1])
NextCursor(P) == IF HasMore(P) THEN Key(Last(P)) ELSE Null

\* The client decides what to ask for.
Ask(f) ==
  /\ pc = "idle"
  /\ pc' = "paging"
  /\ filter' = f
  /\ steady' = {d \in Ids : Matches(d, f)}
  /\ UNCHANGED <<table, counted, cursor, shown>>

\* TERMINAL_DELIVERY_STATUSES holds "success" and "exhausted", not "failed".
Finished(P) == {d \in P : row[d] # Null /\ row[d].status = "success"}

\* fetch_delivery_status_counts adds up the statuses of the pages of a round, of
\* the rows whose event_id is among event_ids.
Counted(P) == counted + Cardinality(Finished(P \cap Ours))

\* list_delivery_logs; without a next_cursor the client is done.
ReadPage(P) ==
  /\ pc = "paging"
  /\ IsPage(P)
  /\ shown' = [d \in Ids |-> IF d \in P THEN shown[d] + 1 ELSE shown[d]]
  /\ cursor' = NextCursor(P)
  /\ counted' = Counted(P)
  /\ pc' = IF HasMore(P) THEN "paging" ELSE "done"
  /\ UNCHANGED <<table, filter, steady>>

\* wait_for_deliveries stops when it has counted enough, or DELIVERY_TIMEOUT has
\* passed when a round ends.
Over ==
  /\ pc = "done" /\ filter = Null
  /\ pc' = IF counted >= Expected THEN "over" ELSE "timeout"
  /\ UNCHANGED <<table, counted, filter, cursor, shown, steady>>

\* Otherwise it starts over.
Again ==
  /\ pc = "done" /\ filter = Null
  /\ counted < Expected
  /\ pc' = "paging"
  /\ counted' = 0
  /\ shown' = [d \in Ids |-> 0]
  /\ steady' = {d \in Ids : Matches(d, Null)}
  /\ UNCHANGED <<table, filter, cursor>>

Done == pc \in {"done"} \cup Stopped /\ UNCHANGED vars

Next ==
  \/ Tick
  \/ \E S \in SUBSET Ids : Begin(S) \/ ReadPage(S)
  \/ \E t \in open : CommitRows(t)
  \/ \E d \in Ids, status \in Final : Settle(d, status)
  \/ \E f \in Statuses \cup {Null} : Ask(f)
  \/ Over \/ Again \/ Done

Spec == Init /\ [][Next]_vars

-----------------------------------------------------------------------------

\* No row is on two pages, however many rows share its created_at or appear
\* while the client pages.
ShownOnce == \A d \in Ids : shown[d] <= 1

\* A client that follows the cursors to the end has been shown every row that
\* matched its filter all the time.
ScanComplete == pc = "done" => \A d \in steady : shown[d] > 0

\* The load test reports no more completed deliveries than there are, although
\* rows are inserted and settled between the pages it adds up; when it stops
\* because it has counted enough, at least as many as it expected are finished.
WaitEndsTruthfully ==
  /\ pc \in Stopped => counted <= Cardinality(Finished(Ours))
  /\ pc = "over" => Expected <= Cardinality(Finished(Ours))

\* A cursor promises another row: without a status filter the page it leads to
\* is never empty.
CursorLeadsOn ==
  [][\A P \in SUBSET Ids :
       ReadPage(P) /\ cursor # Null /\ filter = Null => P # {}]_vars
=============================================================================
