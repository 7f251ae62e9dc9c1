----------------------------- MODULE MCDelivery -----------------------------
(* Instances of Delivery for TLC. *)
EXTENDS Delivery, TLC

\* All deliveries go to one endpoint, so that deliveries are interchangeable.
OneEndpoint == [d \in Deliveries |-> CHOOSE e \in Endpoints : TRUE]

TwoRetries == <<1, 2>>
OneRetry == <<1>>
\* As many retries as RETRY_DELAYS_SECONDS has.
ThreeRetries == <<1, 1, 1>>

\* Workers are interchangeable, and so are deliveries together with their
\* endpoints.
Symmetry ==
  Permutations(Workers) \cup
  {p \in Permutations(Deliveries \cup Endpoints) :
     \A d \in Deliveries : p[d] \in Deliveries /\ p[EndpointOf[d]] = EndpointOf[p[d]]}
=============================================================================
