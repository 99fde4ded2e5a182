------------------------------ MODULE Versions ------------------------------
(***************************************************************************)
(* What the branch manager promises: a chain of committed versions, and    *)
(* branches that each start from one version and are published atomically, *)
(* in full, and only on top of the very version they started from.         *)
(*                                                                         *)
(* There are no threads, locks, snapshots, sealed rows or transactions     *)
(* here.  Module Branches is shown to implement this specification.        *)
(***************************************************************************)
EXTENDS Integers

CONSTANTS
    Ids,        \* branch IDs
    Keys,       \* cell addresses
    Values,     \* cell values
    Tombstone,  \* a staged deletion
    Missing,    \* no cell, or no staged entry
    Absent,     \* a branch that was never begun
    Gone        \* a branch that was committed, discarded or found stale

VARIABLES
    committed,  \* [head |-> commit number, cells |-> committed cells]
    branches    \* [Ids -> live branch, Absent or Gone]

vars == <<committed, branches>>

Cells == [Keys -> Values \cup {Missing}]

Overlays == [Keys -> Values \cup {Tombstone, Missing}]

(* A live branch: its origin, what it has staged, and whether it is sealed. *)
Branch == [origin : Nat, overlay : Overlays, frozen : BOOLEAN]

(* The cells a reader sees when overlay o is laid over cells c. *)
Apply(o, c) ==
    [k \in Keys |-> IF o[k] = Missing THEN c[k]
                    ELSE IF o[k] = Tombstone THEN Missing ELSE o[k]]

Live(b) == branches[b] \notin {Absent, Gone}

Init ==
    /\ committed \in [head : Nat, cells : Cells]
    /\ branches = [b \in Ids |-> Absent]

(* The head is read before the branch is registered, so a branch may be born
   stale: its origin is the current version or an earlier one. *)
Begin(b) ==
    /\ branches[b] = Absent
    /\ \E h \in 0..committed.head :
          branches' = [branches EXCEPT ![b] =
              [origin |-> h, overlay |-> [k \in Keys |-> Missing], frozen |-> FALSE]]
    /\ UNCHANGED committed

Edit(b) ==
    /\ Live(b) /\ ~branches[b].frozen
    /\ \E o \in Overlays : branches' = [branches EXCEPT ![b].overlay = o]
    /\ UNCHANGED committed

Freeze(b) ==
    /\ Live(b)
    /\ branches' = [branches EXCEPT ![b].frozen = TRUE]
    /\ UNCHANGED committed

(* First committer wins: the branch must still be based on the head. *)
Commit(b) ==
    /\ Live(b) /\ branches[b].frozen
    /\ branches[b].origin = committed.head
    /\ committed' = [head |-> committed.head + 1,
                     cells |-> Apply(branches[b].overlay, committed.cells)]
    /\ branches' = [branches EXCEPT ![b] = Gone]

Drop(b) ==
    /\ Live(b)
    /\ branches' = [branches EXCEPT ![b] = Gone]
    /\ UNCHANGED committed

(* Another writer of the store publishes a later version. *)
Foreign ==
    /\ committed' \in [head : Nat, cells : Cells]
    /\ committed'.head > committed.head
    /\ UNCHANGED branches

(* The process restarts: branches are volatile, versions are not. *)
Restart ==
    /\ branches' = [b \in Ids |-> Absent]
    /\ UNCHANGED committed

Next ==
    \/ \E b \in Ids : Begin(b) \/ Edit(b) \/ Freeze(b) \/ Commit(b) \/ Drop(b)
    \/ Foreign
    \/ Restart

Spec == Init /\ [][Next]_vars
=============================================================================
