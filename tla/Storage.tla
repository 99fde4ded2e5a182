------------------------------- MODULE Storage ------------------------------
(***************************************************************************)
(* The storage traits and what implements them: the two backends, and the  *)
(* cursors that move over their rows, each with state of its own.          *)
(***************************************************************************)
EXTENDS MemoryStore, Naturals

CONSTANTS
    MdbxProcs, MdbxTables, MdbxKeys, MdbxValues, LargeKeys, LargeValues,
    CursorKeys, MaxWrites

VARIABLES
    environment, handles, mode, transaction, opened, read,
    origin, writes, view, writing, backend, cursor, position, step, call, row

mdbxVars == <<environment, handles, mode, transaction, opened, read>>
cursorVars == <<origin, writes, view, writing, backend, cursor, position, step, call, row>>

X == INSTANCE MdbxStore WITH
    Procs <- MdbxProcs, Tables <- MdbxTables, Keys <- MdbxKeys, Values <- MdbxValues,
    committed <- environment, state <- transaction, got <- read
C == INSTANCE Cursors WITH Keys <- CursorKeys

(* A table has finitely many rows; None is no key, no backend, no position of a
   cursor and no step of one. *)
ASSUME CursorsAssumption ==
    /\ CursorKeys \subseteq Nat /\ None \notin CursorKeys
    /\ \E last \in CursorKeys : \A k \in CursorKeys : k <= last
    /\ None \notin {"memory", "mdbx"}
    /\ None \notin [kind : {"Start", "At", "Before", "After"}, key : CursorKeys \cup {None}]
    /\ None \notin [forward : BOOLEAN, staged : CursorKeys \cup {None}]

(* The MDBX adapter keeps the promises of the storage traits: reads see their
   snapshot only, whatever handles others have opened. *)
MdbxImplementsStore == X!ImplementsSnapshotStore

(* Cursors of both backends, and the one that merges staged rows with those of
   either, do what trait ReadCursor promises, over the rows Buffered::get shows. *)
CursorsBehave == C!BackendsBehave /\ C!BufferBehaves
=============================================================================
