----------------------------- MODULE Commitments ----------------------------
(***************************************************************************)
(* Flat tables and the tries that commit to them, as the cell and index    *)
(* crates use them.  A table is a function on the keys that have a row.  A *)
(* trie is the set of roots whose branch rows are stored.                  *)
(*                                                                         *)
(* Module MerkleTrie models the trie itself and shows what is assumed      *)
(* here: that the root hash is a function of the leaves and determines     *)
(* them, and that an update stores the rows of the new root and keeps all  *)
(* others.  A root is therefore the function from paths to leaves that it  *)
(* commits to, together with its RootRef case: an empty trie and a lone    *)
(* leaf have no branch row.                                                *)
(***************************************************************************)

EXTENDS Naturals

(* An absent value; whatever a row holds is of another kind. *)
None == [kind |-> "None"]

Override(f, g) ==
    [k \in DOMAIN f \cup DOMAIN g |-> IF k \in DOMAIN g THEN g[k] ELSE f[k]]

(* f with the entries of edits written; None removes an entry. *)
Edited(f, edits) ==
    LET g == Override(f, edits) IN [k \in {x \in DOMAIN g : g[x] # None} |-> g[k]]

Lookup(f, k) == IF k \in DOMAIN f THEN f[k] ELSE None

(* A batch is a sequence of edits of one or more keys; the last edit of a key
   wins (a stable sort by key, then dedup_by keeping the later value). *)
Normalize(batch) ==
    LET keys == UNION {DOMAIN batch[i] : i \in DOMAIN batch}
        last(k) == CHOOSE i \in DOMAIN batch :
                      k \in DOMAIN batch[i]
                      /\ \A j \in DOMAIN batch : k \in DOMAIN batch[j] => j <= i
    IN [k \in keys |-> batch[last(k)][k]]

RootOf(leaves) ==
    [kind   |-> IF DOMAIN leaves = {} THEN "Empty"
                ELSE IF \E k \in DOMAIN leaves : DOMAIN leaves = {k} THEN "Leaf"
                ELSE "Branch",
     leaves |-> leaves]

(* The branch rows of a root are stored.  An empty trie and a lone leaf have none:
   such a RootRef is all there is of the trie. *)
BranchesStored(trie, root) == root.kind = "Branch" => root \in trie

(* Trie::apply: old branches are retained. *)
Stored(trie, root) == IF root.kind = "Branch" THEN trie \cup {root} ELSE trie

(* CellTrie::reopen, IndexTrie::reopen: recover a root from its digest and the
   rows of the same snapshot.  None stands for RootMismatch. *)
Reopen(rows, trie, digest) ==
    IF digest.kind = "Empty"
    THEN IF DOMAIN rows = {} THEN digest ELSE None
    ELSE IF digest \in trie THEN digest
    ELSE IF (\E k \in DOMAIN rows : DOMAIN rows = {k}) /\ RootOf(rows) = digest
         THEN digest ELSE None

(* CellTrie::check, IndexTrie::check: the leaf at k is the one of the row at k. *)
Agrees(rows, trie, root, k) ==
    BranchesStored(trie, root) /\ Lookup(root.leaves, k) = Lookup(rows, k)
=============================================================================
