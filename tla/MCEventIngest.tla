--------------------------- MODULE MCEventIngest ---------------------------
(* An instance of EventIngest for TLC: three requests with one key (a winner *)
(* and two that wait for it), a fourth of another tenant with the same key,  *)
(* and a fifth without a key.                                                *)
EXTENDS EventIngest, TLC

CONSTANTS r1, r2, r3, r4, r5, acme, globex, key

Tenants == (r1 :> acme @@ r2 :> acme) @@ (r3 :> acme @@ r4 :> globex) @@ r5 :> acme
Keys == (r1 :> key @@ r2 :> key) @@ (r3 :> key @@ r4 :> key) @@ r5 :> Null
=============================================================================
