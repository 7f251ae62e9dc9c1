------------------------- MODULE EventIngestProofs -------------------------
(***************************************************************************)
(* Proofs that EventIngest keeps one event per key and implements          *)
(* IdempotentEvents, for any number of requests, tenants and keys.         *)
(***************************************************************************)
EXTENDS EventIngest, TLAPS

(* Before its commit a request's event is not in the table.                *)
Unstored(r) == pc[r] \in {"new", "rejected"} \cup Open => r \notin event

(* What a request knows of the event it will answer with.                  *)
Knows(r) ==
  /\ pc[r] = "inserted" => Created(r)
  /\ pc[r] = "conflicted" => \E s \in event : Same(r, s)
  /\ pc[r] \in {"found", "committed", "replied"} =>
       /\ result[r] \in event
       /\ result[r] = r \/ Same(r, result[r])

(* No two of the events stored or about to be are of one key.              *)
Unique == \A r, s \in event \cup Uncommitted : Same(r, s) => r = s

(* Only a request that has answered has dispatched its event.              *)
Sent(r) == dispatched[r] > 0 => pc[r] = "replied" /\ Created(r)

IInv ==
  /\ TypeOK
  /\ Unique
  /\ ConflictExplained
  /\ \A r \in Requests : Unstored(r) /\ Knows(r) /\ Sent(r)

LEMMA SameSymmetric == ASSUME NEW r, NEW s, Same(r, s) PROVE Same(s, r)
  BY DEF Same

LEMMA SameTransitive ==
  ASSUME NEW r, NEW s, NEW t, Same(r, s), Same(r, t) PROVE Same(s, t)
  BY DEF Same

(* The first state.                                                        *)
LEMMA InitInvariant == Init => IInv
  BY FailureAssumption
  DEF Init, IInv, TypeOK, Unique, ConflictExplained, Unstored, Knows, Sent, Open, Over,
      Uncommitted

(* Every step keeps the invariant.                                         *)
LEMMA StepInvariant == IInv /\ [Next]_vars => IInv'
<1> SUFFICES ASSUME IInv, [Next]_vars PROVE IInv'
  OBVIOUS
<1> USE FailureAssumption, NullAssumption DEF IInv
<1>1. ASSUME NEW r \in Requests, Reject(r) \/ StartInsert(r) PROVE IInv'
  BY <1>1 DEF Reject, StartInsert, Goto, TypeOK, Unique, ConflictExplained, Unstored,
              Knows, Sent, Open, Over, Uncommitted, Created
<1>2. ASSUME NEW r \in Requests, Insert(r) PROVE IInv'
  <2>1. TypeOK' /\ ConflictExplained'
    BY <1>2 DEF Insert, Goto, TypeOK, ConflictExplained, Open, Over
  <2>2. Unique'
    <3>1. (event \cup Uncommitted)' = event \cup Uncommitted \cup {r}
      BY <1>2 DEF Insert, Goto, TypeOK, Uncommitted
    <3>2. \A s \in event \cup Uncommitted : ~Same(r, s) /\ ~Same(s, r)
      BY <1>2, SameSymmetric DEF Insert, Taken
    <3> QED
      BY <3>1, <3>2 DEF Unique, Same
  <2>3. ASSUME NEW q \in Requests PROVE (Unstored(q) /\ Knows(q) /\ Sent(q))'
    BY <1>2 DEF Insert, Goto, TypeOK, Unstored, Knows, Sent, Open, Created, Same
  <2> QED
    BY <2>1, <2>2, <2>3
<1>3. ASSUME NEW r \in Requests, Conflict(r) PROVE IInv'
  BY <1>3 DEF Conflict, Conflicting, Goto, TypeOK, Unique, ConflictExplained, Unstored,
              Knows, Sent, Open, Over, Uncommitted, Created, Same
<1>4. ASSUME NEW r \in Requests, SelectExisting(r) PROVE IInv'
  <2> DEFINE existing == {s \in event : Same(r, s)}
  <2>1. PICK s \in existing : existing = {s}
    <3>1. PICK s \in event : Same(r, s)
      BY <1>4 DEF SelectExisting, Goto, Knows
    <3>2. ASSUME NEW t \in event, Same(r, t) PROVE t = s
      BY <3>1, <3>2, SameTransitive DEF Unique
    <3> QED
      BY <3>1, <3>2
  <2>2. /\ pc[r] = "conflicted"
        /\ pc' = [pc EXCEPT ![r] = "found"]
        /\ result' = [result EXCEPT ![r] = s]
        /\ UNCHANGED <<event, dispatched, failures>>
    BY <1>4, <2>1 DEF SelectExisting, Goto
  <2>3. s \in event /\ Same(r, s)
    BY <2>1
  <2> QED
    BY <2>2, <2>3 DEF TypeOK, Unique, ConflictExplained, Unstored,
                      Knows, Sent, Open, Over, Uncommitted, Created, Same
<1>5. ASSUME NEW r \in Requests, Commit(r) PROVE IInv'
  <2>1. TypeOK' /\ ConflictExplained'
    BY <1>5 DEF Commit, Goto, TypeOK, ConflictExplained, Open, Over
  <2>2. CASE pc[r] = "inserted"
    <3>1. /\ event' = event \cup {r} /\ pc' = [pc EXCEPT ![r] = "committed"]
          /\ UNCHANGED <<result, dispatched, failures>>
      BY <1>5, <2>2 DEF Commit, Goto, Knows
    <3>2. Unique'
      BY <2>2, <3>1 DEF TypeOK, Unique, Uncommitted, Same
    <3>3. ASSUME NEW q \in Requests PROVE (Unstored(q) /\ Knows(q) /\ Sent(q))'
      BY <2>2, <3>1 DEF TypeOK, Unstored, Knows, Sent, Open, Created, Same
    <3> QED
      BY <2>1, <3>2, <3>3
  <2>3. CASE pc[r] = "found"
    <3>1. /\ UNCHANGED <<event, result, dispatched, failures>>
          /\ pc' = [pc EXCEPT ![r] = "committed"]
      BY <1>5, <2>3 DEF Commit, Goto, Knows, Unstored, Open, Created
    <3> QED
      BY <2>1, <2>3, <3>1
      DEF TypeOK, Unique, Unstored, Knows, Sent, Open, Uncommitted, Created, Same
  <2> QED
    BY <1>5, <2>2, <2>3 DEF Commit, Goto
<1>6. ASSUME NEW r \in Requests, Dispatch(r) PROVE IInv'
  <2>1. dispatched[r] = 0
    BY <1>6 DEF Dispatch, Goto, Sent, TypeOK
  <2>2. dispatched' = IF Created(r) THEN [dispatched EXCEPT ![r] = @ + 1] ELSE dispatched
    BY <1>6 DEF Dispatch, Sends, Created
  <2> QED
    BY <1>6, <2>1, <2>2 DEF Dispatch, Goto, TypeOK, Unique, ConflictExplained, Unstored,
                      Knows, Sent, Open, Over, Uncommitted, Created, Same
<1>7. ASSUME NEW r \in Requests, Fail(r) PROVE IInv'
  BY <1>7 DEF Fail, TypeOK, Unique, ConflictExplained, Unstored,
              Knows, Sent, Open, Over, Uncommitted, Created, Same
<1>8. CASE UNCHANGED vars
  BY <1>8 DEF vars, TypeOK, Unique, ConflictExplained, Unstored,
              Knows, Sent, Open, Over, Uncommitted, Created, Same
<1> QED
  BY <1>1, <1>2, <1>3, <1>4, <1>5, <1>6, <1>7, <1>8 DEF Next, Step, AllOver

(* The inductive invariant of the requests and the event table.            *)
THEOREM IngestInvariant == Spec => []IInv
  BY InitInvariant, StepInvariant, PTL DEF Spec

(* The types, and that no event has a second message.                      *)
THEOREM IngestTypeCorrect == Spec => []TypeOK
<1>1. IInv => TypeOK
  BY DEF IInv
<1> QED
  BY <1>1, IngestInvariant, PTL

(* One event per tenant and key, whatever the requests do.                 *)
THEOREM OneEventPerKeyAlways == Spec => []OneEventPerKey
<1>1. IInv => OneEventPerKey
  BY DEF IInv, Unique, OneEventPerKey
<1> QED
  BY <1>1, IngestInvariant, PTL

(* Every answer names the stored event of its tenant and key.              *)
THEOREM AnswersAlwaysAgree == Spec => []AnswersAgree
<1>1. IInv => AnswersAgree
  BY DEF IInv, Knows, AnswersAgree
<1> QED
  BY <1>1, IngestInvariant, PTL

(* The RuntimeError of a conflict without an event is never raised.        *)
THEOREM ConflictAlwaysExplained == Spec => []ConflictExplained
<1>1. IInv => ConflictExplained
  BY DEF IInv
<1> QED
  BY <1>1, IngestInvariant, PTL

(* An event is dispatched at most once, and only when it is committed.     *)
THEOREM AlwaysDispatchedOnce == Spec => []DispatchedOnce
<1>1. IInv => DispatchedOnce
  BY DEF IInv, TypeOK, Sent, Knows, Created, DispatchedOnce
<1> QED
  BY <1>1, IngestInvariant, PTL

-----------------------------------------------------------------------------

(* The first state is one of IdempotentEvents.                             *)
LEMMA InitPromised == Init => Promise!Init
  BY DEF Init, Promise!Init

(* Every step is a step of IdempotentEvents or changes nothing it sees.    *)
LEMMA StepPromised == IInv /\ [Next]_vars => [Promise!Next]_(Promise!vars)
<1> SUFFICES ASSUME IInv, [Next]_vars PROVE [Promise!Next]_(Promise!vars)
  OBVIOUS
<1> DEFINE answer == [r \in Requests |-> IF pc[r] = "replied" THEN result[r] ELSE Null]
<1> USE DEF IInv
<1>1. ASSUME NEW r \in Requests,
             Reject(r) \/ StartInsert(r) \/ Insert(r) \/ Conflict(r)
               \/ SelectExisting(r) \/ Fail(r)
      PROVE UNCHANGED Promise!vars
  <2>1. event' = event /\ pc[r] # "replied" /\ pc'[r] # "replied"
    BY <1>1 DEF Reject, StartInsert, Insert, Conflict, SelectExisting, Fail, Goto,
                TypeOK, Open
  <2>2. \A q \in Requests : q # r => pc'[q] = pc[q] /\ result'[q] = result[q]
    BY <1>1 DEF Reject, StartInsert, Insert, Conflict, SelectExisting, Fail, Goto, TypeOK
  <2> QED
    BY <2>1, <2>2 DEF Promise!vars
<1>2. ASSUME NEW r \in Requests, Commit(r) PROVE [Promise!Next]_(Promise!vars)
  <2>1. UNCHANGED answer
    BY <1>2 DEF Commit, Goto, TypeOK
  <2>2. CASE pc[r] = "inserted"
    <3>1. r \notin event /\ event' = event \cup {r}
      BY <1>2, <2>2 DEF Commit, Goto, Knows, Unstored, Open
    <3>2. \A s \in event : ~Same(r, s)
      BY <2>2, <3>1 DEF Unique, Uncommitted
    <3>3. Promise!Store(r)
      BY <2>1, <3>1, <3>2 DEF Promise!Store, Promise!Same, Same
    <3> QED
      BY <3>3 DEF Promise!Next
  <2>3. CASE pc[r] = "found"
    BY <1>2, <2>1, <2>3 DEF Commit, Goto, Knows, Unstored, Open, Created, Promise!vars
  <2> QED
    BY <1>2, <2>2, <2>3 DEF Commit, Goto
<1>3. ASSUME NEW r \in Requests, Dispatch(r) PROVE [Promise!Next]_(Promise!vars)
  <2>1. PICK e \in Requests : e = result[r]
    BY <1>3 DEF Dispatch, Goto, Knows, TypeOK
  <2>2. /\ e \in event /\ (e = r \/ Same(r, e))
        /\ UNCHANGED event /\ UNCHANGED result
        /\ pc[r] = "committed" /\ pc' = [pc EXCEPT ![r] = "replied"]
    BY <1>3, <2>1 DEF Dispatch, Goto, Knows
  <2>3. answer[r] = Null /\ answer' = [answer EXCEPT ![r] = e]
    BY <2>1, <2>2 DEF TypeOK
  <2>4. Promise!Answer(r, e)
    BY <2>2, <2>3 DEF Promise!Answer, Promise!Same, Same
  <2> QED
    BY <2>4 DEF Promise!Next
<1>4. CASE UNCHANGED vars
  BY <1>4 DEF vars, Promise!vars
<1> QED
  BY <1>1, <1>2, <1>3, <1>4 DEF Next, Step, AllOver

(* Requests implement IdempotentEvents.                                    *)
THEOREM PromiseImplemented == Spec => ImplementsPromise
  BY IngestInvariant, InitPromised, StepPromised, PTL
  DEF Spec, ImplementsPromise, Promise!Spec
=============================================================================
