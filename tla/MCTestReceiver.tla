--------------------------- MODULE MCTestReceiver ---------------------------
(* An instance of TestReceiver for TLC. *)
EXTENDS TestReceiver, TLC

Symmetry == Permutations(Webhooks)
=============================================================================
