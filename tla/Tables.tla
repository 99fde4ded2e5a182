------------------------------- MODULE Tables -------------------------------
(***************************************************************************)
(* The two writers that keep a table and its commitment together: batches  *)
(* of cell changes (crates/cells/src/cells.rs) and batches of posting      *)
(* changes (crates/index/src/index/writer.rs and bitmap_trie.rs).  Both    *)
(* take the tables and the root before and give those after.               *)
(***************************************************************************)
EXTENDS Commitments, Integers

CONSTANT Width   \* record IDs per bitmap container (2^16)

-----------------------------------------------------------------------------
(* Cells::apply. *)

ReopenCells(c, digest) == Reopen(c.rows, c.trie, digest)

(* Keys of the net batch whose row changes; a no-op changes nothing. *)
ChangedCells(c, net) == {k \in DOMAIN net : net[k] # Lookup(c.rows, k)}

(* check_change: every key of the batch is checked, a no-op too. *)
CellsAgree(c, root, net) == \A k \in DOMAIN net : Agrees(c.rows, c.trie, root, k)

ApplyCellsSkipsDeletes(c, root, net) ==                     \* faulty variant
    LET new == RootOf(Edited(root.leaves, net))
        put == [k \in {x \in DOMAIN net : net[x] # None} |-> net[k]]
    IN [cells |-> [rows |-> Edited(c.rows, put), trie |-> Stored(c.trie, new)], root |-> new]

ApplyCells(c, root, net) ==
    LET new == RootOf(Edited(root.leaves, net))
    IN [cells |-> [rows |-> Edited(c.rows, net), trie |-> Stored(c.trie, new)], root |-> new]

-----------------------------------------------------------------------------
(* Index::apply. *)

(* path::split and join. *)
Hi(id) == id \div Width
Lo(id) == id % Width
Join(hi, lo) == hi * Width + lo

Container(offsets) == [kind |-> "Container", offsets |-> offsets]

(* The offsets in the containers of one bitmap after the changes net of its term, which say
   for some pairs of a term and an ID whether the ID is to be present. *)
Containers(leaves, net, t) ==
    LET put == {id \in {p[2] : p \in DOMAIN net} :
                   <<t, id>> \in DOMAIN net /\ net[<<t, id>>]}
        del == {id \in {p[2] : p \in DOMAIN net} :
                   <<t, id>> \in DOMAIN net /\ ~net[<<t, id>>]}
        old(hi) == IF hi \in DOMAIN leaves THEN leaves[hi].offsets ELSE {}
        new(hi) == (old(hi) \cup {Lo(id) : id \in {x \in put : Hi(x) = hi}})
                      \ {Lo(id) : id \in {x \in del : Hi(x) = hi}}
    IN [hi \in {Hi(id) : id \in put \cup del} |-> new(hi)]

(* BitmapTrie::apply: a container that is left empty leaves the trie. *)
BitmapAfter(leaves, net, t) ==
    LET new == Containers(leaves, net, t)
    IN RootOf(Edited(leaves, [hi \in DOMAIN new |-> IF new[hi] = {} THEN None ELSE Container(new[hi])]))

(* Container rows are keyed by the hash of their path and offsets. *)
ContainerRows(root) == {<<hi, root.leaves[hi]>> : hi \in DOMAIN root.leaves}

BitmapStored(ix, root) ==
    /\ root.kind # "Empty"
    /\ BranchesStored(ix.bitmaps, root)
    /\ ContainerRows(root) \subseteq ix.containers

Bitmap(root) == {Join(p[1], p[2]) : p \in
                   UNION {{hi} \X root.leaves[hi].offsets : hi \in DOMAIN root.leaves}}

ChangedTerms(ix, net) == {p[1] : p \in DOMAIN net}

LeavesOf(ix, t) == IF t \in DOMAIN ix.rows THEN ix.rows[t].leaves ELSE [hi \in {} |-> None]

ReopenIndex(ix, digest) == Reopen(ix.rows, ix.trie, digest)

(* Every affected term is checked against the trie, and its bitmap is read. *)
IndexAgrees(ix, root, net) ==
    \A t \in ChangedTerms(ix, net) :
        /\ Agrees(ix.rows, ix.trie, root, t)
        /\ t \in DOMAIN ix.rows => BitmapStored(ix, ix.rows[t])

ApplyIndexReplacesContainers(ix, root, net) ==              \* faulty variant
    LET after == [t \in ChangedTerms(ix, net) |-> BitmapAfter(LeavesOf(ix, t), net, t)]
        edits == [t \in DOMAIN after |-> IF after[t].kind = "Empty" THEN None ELSE after[t]]
        new   == RootOf(Edited(root.leaves, edits))
        old   == UNION {ContainerRows(RootOf(LeavesOf(ix, t))) : t \in DOMAIN after}
    IN [index |->
          [rows       |-> Edited(ix.rows, edits),
           trie       |-> Stored(ix.trie, new),
           bitmaps    |-> ix.bitmaps \cup {after[t] : t \in {u \in DOMAIN after : after[u].kind = "Branch"}},
           containers |-> (ix.containers \ old) \cup UNION {ContainerRows(after[t]) : t \in DOMAIN after}],
        root |-> new]

ApplyIndex(ix, root, net) ==
    LET after == [t \in ChangedTerms(ix, net) |-> BitmapAfter(LeavesOf(ix, t), net, t)]
        edits == [t \in DOMAIN after |-> IF after[t].kind = "Empty" THEN None ELSE after[t]]
        new   == RootOf(Edited(root.leaves, edits))
    IN [index |->
          [rows       |-> Edited(ix.rows, edits),
           trie       |-> Stored(ix.trie, new),
           bitmaps    |-> ix.bitmaps \cup {after[t] : t \in {u \in DOMAIN after : after[u].kind = "Branch"}},
           containers |-> ix.containers \cup UNION {ContainerRows(after[t]) : t \in DOMAIN after}],
        root |-> new]
=============================================================================
