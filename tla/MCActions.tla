----------------------------- MODULE MCActions -----------------------------
(* Values of Actions' constants for TLC.                                   *)
EXTENDS Actions, TLC

CONSTANTS s, m

Symmetry == Permutations(Requests)

ShimAndStub == (s :> "shim") @@ (m :> "stub")
=============================================================================
