-------------------------- MODULE IdempotentEvents --------------------------
(***************************************************************************)
(* What POST /events/ promises: one stored event for each tenant and       *)
(* idempotency key, and every answered request names the stored event of   *)
(* its key, its own or the one an earlier request stored.                  *)
(***************************************************************************)
EXTENDS Naturals

CONSTANTS
  Requests,   \* requests, each naming the event it would store
  TenantOf,   \* the tenant that sends a request
  KeyOf,      \* its idempotency key, or Null
  Null

VARIABLES
  stored,     \* the events in the table
  answer      \* the event a request was answered with, or Null

vars == <<stored, answer>>

\* The same tenant with the same key: a missing key is like no other.
Same(r, s) == KeyOf[r] # Null /\ KeyOf[r] = KeyOf[s] /\ TenantOf[r] = TenantOf[s]

Init ==
  /\ stored = {}
  /\ answer = [r \in Requests |-> Null]

Store(r) ==
  /\ r \notin stored
  /\ \A s \in stored : ~Same(r, s)
  /\ stored' = stored \cup {r}
  /\ UNCHANGED answer

Answer(r, e) ==
  /\ answer[r] = Null
  /\ e \in stored
  /\ e = r \/ Same(r, e)
  /\ answer' = [answer EXCEPT ![r] = e]
  /\ UNCHANGED stored

Next == \E r \in Requests : Store(r) \/ \E e \in Requests : Answer(r, e)

Spec == Init /\ [][Next]_vars
=============================================================================
