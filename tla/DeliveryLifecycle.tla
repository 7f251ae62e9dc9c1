------------------------- MODULE DeliveryLifecycle -------------------------
(***************************************************************************)
(* What the service promises about one row of the "delivery" table,        *)
(* whatever workers, queues and crashes do underneath: a row is created    *)
(* pending, every counted attempt takes it one step further, it becomes    *)
(* "success" only after the receiver has answered 2xx, "exhausted" only at *)
(* the last attempt, and a row that has left "pending" never changes.      *)
(***************************************************************************)
EXTENDS Naturals

CONSTANTS
  Deliveries,   \* row identifiers
  MaxAttempts   \* attempts after which a delivery is given up

VARIABLES
  status,       \* the status column
  attempt,      \* the attempt_number column
  accepted      \* the deliveries whose receiver has ever answered 2xx

vars == <<status, attempt, accepted>>

Init ==
  /\ status = [d \in Deliveries |-> "absent"]
  /\ attempt = [d \in Deliveries |-> 0]
  /\ accepted = {}

\* The fan-out commits one pending row for each endpoint, all at once.
Create(S) ==
  /\ S # {}
  /\ \A d \in S : status[d] = "absent"
  /\ status' = [d \in Deliveries |-> IF d \in S THEN "pending" ELSE status[d]]
  /\ UNCHANGED <<attempt, accepted>>

\* The receiver answers 2xx; the answer may still be lost before it is saved.
Accept(d) ==
  /\ status[d] = "pending"
  /\ accepted' = accepted \cup {d}
  /\ UNCHANGED <<status, attempt>>

\* An attempt is counted; s is the status it leaves the row in.
Attempted(d, s) ==
  /\ status[d] = "pending"
  /\ attempt' = [attempt EXCEPT ![d] = @ + 1]
  /\ status' = [status EXCEPT ![d] = s]
  /\ UNCHANGED accepted

Succeed(d) == d \in accepted /\ Attempted(d, "success")

Retry(d) == attempt[d] + 1 < MaxAttempts /\ Attempted(d, "pending")

Exhaust(d) == attempt[d] + 1 = MaxAttempts /\ Attempted(d, "exhausted")

\* The endpoint is gone: the row is closed without an attempt.
Cancel(d) ==
  /\ status[d] = "pending"
  /\ status' = [status EXCEPT ![d] = "failed"]
  /\ UNCHANGED <<attempt, accepted>>

Next ==
  \/ \E S \in SUBSET Deliveries : Create(S)
  \/ \E d \in Deliveries :
       Accept(d) \/ Succeed(d) \/ Retry(d) \/ Exhaust(d) \/ Cancel(d)

Spec == Init /\ [][Next]_vars
=============================================================================
