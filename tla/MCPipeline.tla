----------------------------- MODULE MCPipeline -----------------------------
(* Instances of Pipeline for TLC. *)
EXTENDS Pipeline, TLC

CONSTANTS d1, d2, d3, e1, e2

\* Each event has one subscriber: rows compete although their events do not.
OneEach == (d1 :> e1) @@ (d2 :> e2)

\* The first event has two subscribers, the second one.
TwoAndOne == (d1 :> e1) @@ (d2 :> e1) @@ (d3 :> e2)
=============================================================================
