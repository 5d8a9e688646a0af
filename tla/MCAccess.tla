------------------------------ MODULE MCAccess ------------------------------
(* Values of Access's constants for TLC.                                   *)
EXTENDS Access, TLC

Symmetry == Permutations(Threads)
=============================================================================
