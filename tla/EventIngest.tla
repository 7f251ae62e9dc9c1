---------------------------- MODULE EventIngest ----------------------------
(***************************************************************************)
(* POST /events/: concurrent requests insert an event under its tenant and *)
(* idempotency key, commit, and dispatch deliver_event if they created it. *)
(* A request is one HTTP exchange; a client that tries again is another    *)
(* request with the same key.  The event a request would insert carries a  *)
(* fresh uuid and is named by the request.                                 *)
(*                                                                         *)
(* Postgres: INSERT ... ON CONFLICT DO NOTHING waits for an uncommitted    *)
(* insert of the same key and then inserts or does nothing; under READ     *)
(* COMMITTED each statement reads what was committed when it started.      *)
(***************************************************************************)
EXTENDS Naturals

CONSTANTS
  Requests,    \* requests, each naming the event it would insert
  TenantOf,    \* the tenant that sends a request
  KeyOf,       \* its idempotency key, or Null
  Null,        \* no key, and no event
  MaxFailures  \* bound: requests that fail or lose their process

ASSUME FailureAssumption == MaxFailures \in Nat
ASSUME NullAssumption == Null \notin Requests

VARIABLES
  event,       \* the committed events
  pc,          \* how far each request has come
  result,      \* EventInsertResult.event_id
  dispatched,  \* how many deliver_event messages an event was sent
  failures     \* how many requests have failed

vars == <<event, pc, result, dispatched, failures>>

\* EventInsertResult.created: the event is the request's own.
Created(r) == result[r] = r

Open == {"inserting", "inserted", "conflicted", "found"}
Over == {"replied", "rejected", "error", "failed"}

\* The unique constraint on (tenant_id, idempotency_key): NULLs never conflict.
Same(r, s) == KeyOf[r] # Null /\ KeyOf[r] = KeyOf[s] /\ TenantOf[r] = TenantOf[s]

\* The inserts that others must wait for.
Uncommitted == {s \in Requests : pc[s] = "inserted"}

TypeOK ==
  /\ event \subseteq Requests
  /\ pc \in [Requests -> {"new", "committed"} \cup Open \cup Over]
  /\ result \in [Requests -> Requests \cup {Null}]
  /\ dispatched \in [Requests -> 0..1]
  /\ failures \in 0..MaxFailures

Init ==
  /\ event = {}
  /\ pc = [r \in Requests |-> "new"]
  /\ result = [r \in Requests |-> Null]
  /\ dispatched = [r \in Requests |-> 0]
  /\ failures = 0

Goto(r, from, to) == pc[r] = from /\ pc' = [pc EXCEPT ![r] = to]

\* No tenant has the API key, or the payload is invalid or too large.
Reject(r) ==
  /\ Goto(r, "new", "rejected")
  /\ UNCHANGED <<event, result, dispatched, failures>>

StartInsert(r) ==
  /\ Goto(r, "new", "inserting")
  /\ UNCHANGED <<event, result, dispatched, failures>>

\* Mutant: SELECT, then INSERT: what others have not committed is not seen.
TakenCommitted == event

\* The rows whose key an insert may not repeat.
Taken == event \cup Uncommitted

\* The insert goes through: nobody has committed the key or is about to.
Insert(r) ==
  /\ Goto(r, "inserting", "inserted")
  /\ \A s \in Taken : ~Same(r, s)
  /\ result' = [result EXCEPT ![r] = r]
  /\ UNCHANGED <<event, dispatched, failures>>

\* Mutants: a conflict is reported without waiting for the other's commit, or for
\* an insert that is still open only.
ConflictingAtOnce == event \cup Uncommitted
ConflictingOpen == Uncommitted

\* The rows that end the wait of an insert of their key.
Conflicting == event

\* ON CONFLICT DO NOTHING returns no row.
Conflict(r) ==
  /\ Goto(r, "inserting", "conflicted")
  /\ \E s \in Conflicting : Same(r, s)
  /\ UNCHANGED <<event, result, dispatched, failures>>

\* Mutant: the first event with the key, whatever its tenant.
SelectAnyTenant(r) ==
  /\ Goto(r, "conflicted", "found")
  /\ \E s \in event : KeyOf[s] = KeyOf[r] /\ result' = [result EXCEPT ![r] = s]
  /\ UNCHANGED <<event, dispatched, failures>>

\* SELECT ... scalar_one_or_none(): two rows raise as none does ("Idempotent
\* event insert conflicted but no event was found.").
SelectExisting(r) ==
  LET existing == {s \in event : Same(r, s)}
      one == \E s \in existing : existing = {s}
  IN
  /\ Goto(r, "conflicted", IF one THEN "found" ELSE "error")
  /\ result' = IF one THEN [result EXCEPT ![r] = CHOOSE s \in existing : TRUE]
                      ELSE result
  /\ UNCHANGED <<event, dispatched, failures>>

\* session.commit().
Commit(r) ==
  /\ Goto(r, "inserted", "committed") \/ Goto(r, "found", "committed")
  /\ event' = event \cup (IF Created(r) THEN {r} ELSE {})
  /\ UNCHANGED <<result, dispatched, failures>>

\* Mutants: every accepted request dispatches, or only one that has a key.
SendsAlways(r) == TRUE
SendsKeyed(r) == Created(r) /\ KeyOf[r] # Null
Sends(r) == Created(r)

\* deliver_event.apply_async if result.created, then 202 or 200.
Dispatch(r) ==
  /\ Goto(r, "committed", "replied")
  /\ dispatched' = IF Sends(r) THEN [dispatched EXCEPT ![result[r]] = @ + 1] ELSE dispatched
  /\ UNCHANGED <<event, result, failures>>

\* An exception, a lost connection or a dead process: before the commit the
\* transaction rolls back, after it the event stays and is not dispatched.
Fail(r) ==
  /\ pc[r] \in Open \cup {"committed"}
  /\ pc' = [pc EXCEPT ![r] = "failed"]
  /\ failures < MaxFailures
  /\ failures' = failures + 1
  /\ UNCHANGED <<event, result, dispatched>>

Step(r) ==
  Insert(r) \/ Conflict(r) \/ SelectExisting(r) \/ Commit(r) \/ Dispatch(r)

AllOver == (\A r \in Requests : pc[r] \in Over) /\ UNCHANGED vars

Next ==
  \/ \E r \in Requests : Reject(r) \/ StartInsert(r) \/ Step(r) \/ Fail(r)
  \/ AllOver

Spec == Init /\ [][Next]_vars

\* A request that has started goes on.
FairSpec == Spec /\ \A r \in Requests : WF_vars(Step(r))

-----------------------------------------------------------------------------

\* Concurrent requests and retries of one tenant and key store one event.
OneEventPerKey == \A r, s \in event : Same(r, s) => r = s

\* Every answer names a committed event of the request's own tenant and key, so
\* that all answers to one key agree, whoever won.
AnswersAgree ==
  \A r \in Requests : pc[r] = "replied" =>
    /\ result[r] \in event
    /\ result[r] = r \/ Same(r, result[r])

\* The select that follows a conflict always finds the event that caused it.
ConflictExplained == \A r \in Requests : pc[r] # "error"

\* deliver_event is dispatched once for an event, and only when the task will
\* find the event committed.
DispatchedOnce ==
  \A r \in Requests : dispatched[r] > 0 => dispatched[r] = 1 /\ r \in event

\* A committed event is always dispatched, unless the request that created it
\* failed after its commit: no later request of the same key makes up for it.
EventuallyDispatched ==
  \A r \in Requests : r \in event ~> dispatched[r] = 1 \/ pc[r] = "failed"

\* Requests that wait for each other's inserts all come to an answer.
EventuallyOver == \A r \in Requests : pc[r] = "inserting" ~> pc[r] \in Over

\* Refinement mapping: the committed events, and the answers sent.
Promise == INSTANCE IdempotentEvents WITH
  stored <- event,
  answer <- [r \in Requests |-> IF pc[r] = "replied" THEN result[r] ELSE Null]

\* Requests store and answer as IdempotentEvents says.
ImplementsPromise == Promise!Spec
=============================================================================
