----------------------------- MODULE MCBranches -----------------------------
(* Bounded instances of Branches for TLC. *)
EXTENDS Branches, TLC

(* Threads are interchangeable; used where only safety is checked. *)
Symmetry == Permutations(Threads) \cup Permutations(Managers)
=============================================================================
