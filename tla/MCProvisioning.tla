--------------------------- MODULE MCProvisioning ---------------------------
(* Values of Provisioning's constants for TLC.                             *)
EXTENDS Provisioning

CONSTANTS a, b, c

AllShim == [s \in Sites |-> "shim"]

\* One site that works and two that cannot be provisioned.
StubAndAbsent == (a :> "shim") @@ (b :> "stub") @@ (c :> "absent")

Symmetry == Permutations(Requests) \cup Permutations(Sites)

=============================================================================
