------------------------------ MODULE RowCursor -----------------------------
(***************************************************************************)
(* What the ReadCursor trait promises (crates/storage/src/lib.rs): a       *)
(* bidirectional cursor over a fixed set of rows.  The first step starts   *)
(* at a key, which need not have a row; a later one moves strictly past    *)
(* the row returned last; past an end there is nothing, and reversing      *)
(* there returns the boundary row.                                         *)
(***************************************************************************)
EXTENDS Integers, FiniteSetsExt

CONSTANTS Keys, None

VARIABLES
    rows,        \* keys that have a row
    position,    \* where the cursor stands
    call,        \* the last call: "next" or "prev"
    returned     \* the row it returned

vars == <<rows, position, call, returned>>

Least(S) == IF S = {} THEN None ELSE Min(S)
Greatest(S) == IF S = {} THEN None ELSE Max(S)

Init ==
    /\ rows \in SUBSET Keys
    /\ position \in [kind : {"Start"}, key : Keys]
    /\ call = None /\ returned = None

(* The rows a step in either direction may return. *)
Ahead ==
    CASE position.kind = "Start"  -> {k \in rows : k >= position.key}
      [] position.kind = "At"     -> {k \in rows : k > position.key}
      [] position.kind = "Before" -> rows
      [] position.kind = "After"  -> {}

Behind ==
    CASE position.kind = "Start"  -> {k \in rows : k <= position.key}
      [] position.kind = "At"     -> {k \in rows : k < position.key}
      [] position.kind = "Before" -> {}
      [] position.kind = "After"  -> rows

Move(row, end) ==
    /\ returned' = row
    /\ position' = IF row = None THEN [kind |-> end, key |-> None]
                   ELSE [kind |-> "At", key |-> row]
    /\ UNCHANGED rows

Next ==
    \/ call' = "next" /\ Move(Least(Ahead), "After")
    \/ call' = "prev" /\ Move(Greatest(Behind), "Before")

Spec == Init /\ [][Next]_vars
=============================================================================
