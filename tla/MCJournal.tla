----------------------------- MODULE MCJournal ------------------------------
(* Bounded instance of Journal for TLC. *)
EXTENDS Journal

=============================================================================
