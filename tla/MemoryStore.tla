----------------------------- MODULE MemoryStore ----------------------------
(***************************************************************************)
(* The in-memory backend (crates/storage/src/memory.rs): the committed     *)
(* rows behind one mutex, held only to clone or replace the shared         *)
(* pointer, and the right to write behind another, held for the life of a  *)
(* write transaction.  A panic while that is held poisons it.              *)
(***************************************************************************)
EXTENDS StoreRows

CONSTANT Procs

ASSUME MemoryAssumption == None \notin Procs

VARIABLES
    committed,   \* Inner::committed
    writer,      \* Inner::writer: the process that holds it, or None
    poisoned,    \* Inner::writer is poisoned
    pc,          \* per process: idle, read, locked, write or published
    state,       \* per process: the rows of its transaction
    got

vars == <<committed, writer, poisoned, pc, state, got>>

Init ==
    /\ committed = NoRows /\ writer = None /\ poisoned = FALSE
    /\ pc = [p \in Procs |-> "idle"]
    /\ state = [p \in Procs |-> NoRows]
    /\ got = [p \in Procs |-> None]

BeginRead(p) ==
    /\ pc[p] = "idle"
    /\ pc' = [pc EXCEPT ![p] = "read"]
    /\ state' = [state EXCEPT ![p] = committed]
    /\ UNCHANGED <<committed, writer, poisoned, got>>

(* begin_write: the writer mutex first, then the latest committed rows. *)
LockWriterLate(p) ==                                        \* faulty variant
    /\ pc[p] = "idle" /\ ~poisoned
    /\ writer' = p
    /\ pc' = [pc EXCEPT ![p] = "locked"]
    /\ UNCHANGED <<committed, poisoned, state, got>>

LockWriter(p) ==
    /\ pc[p] = "idle" /\ writer = None /\ ~poisoned
    /\ writer' = p
    /\ pc' = [pc EXCEPT ![p] = "locked"]
    /\ UNCHANGED <<committed, poisoned, state, got>>

(* The lock reports Poisoned("writer"); so does every later begin_write. *)
RefuseWriter(p) == pc[p] = "idle" /\ writer = None /\ poisoned /\ UNCHANGED vars

TakeSnapshot(p) ==
    /\ pc[p] = "locked"
    /\ pc' = [pc EXCEPT ![p] = "write"]
    /\ state' = [state EXCEPT ![p] = committed]
    /\ UNCHANGED <<committed, writer, poisoned, got>>

Get(p, t, k) ==
    /\ pc[p] \in {"read", "write"}
    /\ got' = [got EXCEPT ![p] = GetIn(state[p], t, k)]
    /\ UNCHANGED <<committed, writer, poisoned, pc, state>>

Write(p, rows) ==
    /\ pc[p] = "write"
    /\ state' = [state EXCEPT ![p] = rows]
    /\ UNCHANGED <<committed, writer, poisoned, pc, got>>

Put(p, t, k, v) == Write(p, PutIn(state[p], t, k, v))
Insert(p, t, k, v) == Write(p, InsertIn(state[p], t, k, v))
Delete(p, t, k) == Write(p, DeleteIn(state[p], t, k))

(* commit replaces the pointer; the writer mutex is released after that. *)
Publish(p) ==
    /\ pc[p] = "write"
    /\ committed' = state[p]
    /\ pc' = [pc EXCEPT ![p] = "published"]
    /\ state' = [state EXCEPT ![p] = NoRows]
    /\ UNCHANGED <<writer, poisoned, got>>

Release(p) ==
    /\ pc[p] \in {"read", "write", "published"}
    /\ writer' = IF pc[p] = "read" THEN writer ELSE None
    /\ pc' = [pc EXCEPT ![p] = "idle"]
    /\ state' = [state EXCEPT ![p] = NoRows]
    /\ UNCHANGED <<committed, poisoned, got>>

(* A panic unwinds through a write transaction. *)
Panic(p) ==
    /\ pc[p] = "write"
    /\ poisoned' = TRUE /\ writer' = None
    /\ pc' = [pc EXCEPT ![p] = "idle"]
    /\ state' = [state EXCEPT ![p] = NoRows]
    /\ UNCHANGED <<committed, got>>

Next ==
    \E p \in Procs :
        \/ BeginRead(p) \/ LockWriter(p) \/ RefuseWriter(p) \/ TakeSnapshot(p)
        \/ Publish(p) \/ Release(p) \/ Panic(p)
        \/ \E t \in Tables, k \in Keys :
              \/ Get(p, t, k) \/ Delete(p, t, k)
              \/ \E v \in Values : Put(p, t, k, v) \/ Insert(p, t, k, v)

Spec == Init /\ [][Next]_vars

(* The transaction each process has, as its user sees it. *)
Mode == [p \in Procs |-> IF pc[p] \in {"read", "write"} THEN pc[p] ELSE "idle"]

Abstract == INSTANCE SnapshotStore WITH mode <- Mode

(* The memory store keeps the promises of the storage traits, with the snapshot
   taken under the writer mutex and after a panic in a write transaction. *)
ImplementsSnapshotStore == Abstract!Spec
=============================================================================
