------------------------------ MODULE MCFanOut ------------------------------
(* Instances of FanOut for TLC. *)
EXTENDS FanOut, TLC

CONSTANT t1

\* All events are of one type.
OneType == [e \in Events |-> t1]
=============================================================================
