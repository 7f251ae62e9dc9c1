--------------------------- MODULE MCDeliveryLog ---------------------------
(* An instance of DeliveryLog for TLC. *)
EXTENDS DeliveryLog

FourIds == 1..4

\* Three rows of the load test's events, among them a duplicate, and one other.
ThreeOfThem == {1, 2, 4}
=============================================================================
