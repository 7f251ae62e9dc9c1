---------------------------- MODULE MCEndpoints ----------------------------
(* An instance of Endpoints for TLC. *)
EXTENDS Endpoints, TLC

CONSTANTS p1, p2, acme, globex, t1

OneEach == p1 :> acme @@ p2 :> globex

Symmetry == Permutations(Requests) \cup Permutations(Urls)
=============================================================================
