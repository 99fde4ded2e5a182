------------------------------ MODULE MCRecords -----------------------------
(* Bounded instances of Records for TLC. *)
EXTENDS Records, TLC

CONSTANTS k1, k2, s1

MCSystemId == (s1 :> 0)

Symmetry == Permutations(Handles) \cup Permutations({k1, k2})
=============================================================================
