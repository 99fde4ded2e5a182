------------------------------- MODULE Frames -------------------------------
(***************************************************************************)
(* What the working state of a branch promises its user: the cells staged  *)
(* so far, a version, and a stack of frames, each of which remembers the   *)
(* whole state at the moment it was opened.                                *)
(*                                                                         *)
(* Nothing here knows how the saved states are kept.  Module Journal, the  *)
(* undo log of crates/branch, is shown to implement this specification.    *)
(***************************************************************************)
EXTENDS Integers, Sequences

CONSTANTS
    Keys,       \* cell addresses
    Staged,     \* what the overlay may hold for a key: a value or a tombstone
    Missing     \* the overlay holds nothing: reads fall through to the origin

VARIABLES
    cells,      \* the overlay, [Keys -> Staged \cup {Missing}]
    version,    \* number of retained changes
    stack,      \* the states the open frames started from, oldest first
    consumed    \* the current frame has been rolled back and not written since

vars == <<cells, version, stack, consumed>>

Overlays == [Keys -> Staged \cup {Missing}]

Saved == [cells |-> cells, version |-> version]

Init ==
    /\ cells = [k \in Keys |-> Missing]
    /\ version = 0
    /\ stack = <<Saved>>
    /\ consumed = FALSE

(* A successful write group.  It may leave any staged state behind, it never
   lowers the version, and a group that changes a cell raises it.  Only a
   group that wrote something reactivates a frame that was rolled back. *)
Write ==
    /\ cells' \in Overlays
    /\ version' \in Nat
    /\ version' >= version
    /\ cells' # cells => version' > version
    /\ consumed' \in BOOLEAN
    /\ consumed' => consumed /\ version' = version
    /\ UNCHANGED stack

(* A frame that was rolled back is still open: it becomes the new frame. *)
Checkpoint ==
    /\ stack' = IF consumed THEN stack ELSE Append(stack, Saved)
    /\ consumed' = FALSE
    /\ UNCHANGED <<cells, version>>

(* Go back to the start of the current frame, or, when that has just been
   done, to the start of the frame before it. *)
Rollback ==
    /\ consumed => Len(stack) > 1
    /\ stack' = IF consumed THEN SubSeq(stack, 1, Len(stack) - 1) ELSE stack
    /\ cells' = stack'[Len(stack')].cells
    /\ version' = stack'[Len(stack')].version
    /\ consumed' = TRUE

Next == Write \/ Checkpoint \/ Rollback

Spec == Init /\ [][Next]_vars
=============================================================================
