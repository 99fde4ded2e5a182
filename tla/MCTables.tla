------------------------------ MODULE MCTables ------------------------------
(* Bounded instance of the two models of the authenticated tables, for TLC: a
   behaviour is one of Seal, where commits change them, or one of Batches, where
   any batch does.  IDs 2 and 3 share a container when the width is two, ID 1
   has one of its own. *)
EXTENDS Seal, TLC

CONSTANTS field, Allocator, CellKeys, CellValues, IndexTerms, Ids, MaxBatch, MaxBatches

VARIABLES
    part,
    batchCells, batchIndex, state_root, index_root, batch, content, postings, applied

batchVars ==
    <<batchCells, batchIndex, state_root, index_root, batch, content, postings, applied>>

B == INSTANCE Batches WITH cells <- batchCells, index <- batchIndex

ASSUME BatchesAssumption == Ids \subseteq Nat

MCGenesisCells == [k \in {Allocator} |-> Field(field)]

(* Attribute values are only compared. *)
Symmetry == Permutations(Attributes)

MCInit == part \in {"seal", "batches"} /\ Init /\ B!Init

Sealing == part = "seal" /\ Next /\ UNCHANGED <<part, batchVars>>
Batching == part = "batches" /\ B!Next /\ UNCHANGED <<part, vars>>

MCSpec == MCInit /\ [][Sealing \/ Batching]_<<part, vars, batchVars>>

(* A batch of cell changes (Cells::apply) or of posting changes
   (IndexWriter::apply) does what its changes do one after the other. *)
BatchesInOrder == B!CellsInOrder /\ B!PostingsInOrder
=============================================================================
