------------------------------- MODULE Batches ------------------------------
(***************************************************************************)
(* Batches as a caller of the cell and index crates may form them: any     *)
(* order, with repeated keys.  The tables after a batch are compared with  *)
(* the changes carried out one after the other.                            *)
(***************************************************************************)
EXTENDS Tables, Sequences

CONSTANTS
    CellKeys, CellValues,  \* the Cell table
    IndexTerms, Ids,       \* the Index table
    MaxBatch,              \* bound on the changes of a batch
    MaxBatches             \* bound on the batches applied

VARIABLES
    cells, state_root,     \* as in module Seal
    index, index_root,
    batch,                 \* the changes a caller has gathered, of cells or of postings
    content,               \* what the cells are to be (history variable)
    postings,              \* the pairs of a term and an ID to be indexed (same)
    applied                \* batches so far

vars == <<cells, state_root, index, index_root, batch, content, postings, applied>>

(* PostingChange::Add and Remove, CellChange::Put and Delete. *)
PostingChange == [posting : IndexTerms \X Ids, present : BOOLEAN]
CellChange == [key : CellKeys, value : CellValues \cup {None}]

CellEdits(changes) == [i \in DOMAIN changes |-> [k \in {changes[i].key} |-> changes[i].value]]

(* The postings of a batch in the order Normalize takes them in: the stable sort
   leaves membership out of its key. *)
PostingEditsSorted(changes) ==                              \* faulty variant
    [i \in DOMAIN changes |-> [p \in {changes[i].posting} |->
        \E j \in DOMAIN changes : changes[j].posting = p /\ changes[j].present]]

PostingEdits(changes) ==
    [i \in DOMAIN changes |-> [p \in {changes[i].posting} |-> changes[i].present]]

NoBatch == [cells |-> <<>>, postings |-> <<>>]

(* The caller adds a change to its batch.  The history variables carry it out at
   once. *)
AddCell(c) ==
    /\ applied < MaxBatches /\ Len(batch.cells) < MaxBatch /\ batch.postings = <<>>
    /\ batch' = [batch EXCEPT !.cells = Append(@, c)]
    /\ content' = Edited(content, [k \in {c.key} |-> c.value])
    /\ UNCHANGED <<cells, state_root, index, index_root, postings, applied>>

AddPosting(c) ==
    /\ applied < MaxBatches /\ Len(batch.postings) < MaxBatch /\ batch.cells = <<>>
    /\ batch' = [batch EXCEPT !.postings = Append(@, c)]
    /\ postings' = IF c.present THEN postings \cup {c.posting} ELSE postings \ {c.posting}
    /\ UNCHANGED <<cells, state_root, index, index_root, content, applied>>

ApplyCellBatch ==
    LET net == Normalize(CellEdits(batch.cells))
        new == ApplyCells(cells, state_root, net)
    IN /\ applied < MaxBatches /\ batch.postings = <<>>
       /\ ReopenCells(cells, state_root) = state_root
       /\ CellsAgree(cells, state_root, net)
       /\ cells' = new.cells /\ state_root' = new.root
       /\ batch' = NoBatch /\ applied' = applied + 1
       /\ UNCHANGED <<index, index_root, content, postings>>

ApplyPostingBatch ==
    LET net == Normalize(PostingEdits(batch.postings))
        new == ApplyIndex(index, index_root, net)
    IN /\ applied < MaxBatches /\ batch.cells = <<>>
       /\ ReopenIndex(index, index_root) = index_root
       /\ IndexAgrees(index, index_root, net)
       /\ index' = new.index /\ index_root' = new.root
       /\ batch' = NoBatch /\ applied' = applied + 1
       /\ UNCHANGED <<cells, state_root, content, postings>>

Init ==
    LET nothing == [k \in {} |-> None] IN
    /\ cells = [rows |-> nothing, trie |-> {}]
    /\ index = [rows |-> nothing, trie |-> {}, bitmaps |-> {}, containers |-> {}]
    /\ state_root = RootOf(nothing) /\ index_root = RootOf(nothing)
    /\ batch = NoBatch
    /\ content = nothing /\ postings = {}
    /\ applied = 0

Next ==
    \/ \E c \in CellChange : AddCell(c)
    \/ \E c \in PostingChange : AddPosting(c)
    \/ ApplyCellBatch \/ ApplyPostingBatch
    \/ applied = MaxBatches /\ UNCHANGED vars

Spec == Init /\ [][Next]_vars

-----------------------------------------------------------------------------
(* Properties. *)

(* A batch of cell changes does what its changes do one after the other, and
   the root reopens and commits to the result, be it empty, one cell or more. *)
CellsInOrder ==
    batch.cells = <<>> =>
        /\ cells.rows = content
        /\ ReopenCells(cells, state_root) = RootOf(content)

(* A batch of posting changes does what its changes do one after the other:
   each term has exactly its IDs, no term is left without one, every bitmap can
   be read, and the root reopens and commits to the rows. *)
PostingsInOrder ==
    batch.postings = <<>> =>
        /\ DOMAIN index.rows = {p[1] : p \in postings}
        /\ \A t \in DOMAIN index.rows :
              /\ BitmapStored(index, index.rows[t])
              /\ Bitmap(index.rows[t]) = {id \in Ids : <<t, id>> \in postings}
        /\ ReopenIndex(index, index_root) = RootOf(index.rows)
=============================================================================
