------------------------------ MODULE MdbxStore -----------------------------
(***************************************************************************)
(* The MDBX backend (crates/storage-mdbx/src/lib.rs).  MDBX itself is      *)
(* external: snapshots, one writer, atomic commit, and table handles that  *)
(* belong to the environment.  A handle another transaction has opened is  *)
(* found by name even when the table is newer than the reader's snapshot,  *)
(* and using it then fails with BadDbi.                                    *)
(***************************************************************************)
EXTENDS StoreRows

CONSTANTS Procs, LargeKeys, LargeValues   \* beyond the environment's limits

VARIABLES
    committed,   \* rows of the environment; its domain is the catalogue
    handles,     \* tables with a handle in the environment
    mode, state, \* per process: its native transaction
    opened,      \* per process: handles its transaction created
    got

vars == <<committed, handles, mode, state, opened, got>>

Init ==
    /\ committed = NoRows /\ handles = {}
    /\ mode = [p \in Procs |-> "idle"]
    /\ state = [p \in Procs |-> NoRows]
    /\ opened = [p \in Procs |-> {}]
    /\ got = [p \in Procs |-> None]

Begin(p, kind) ==
    /\ mode[p] = "idle"
    /\ kind = "write" => \A q \in Procs : mode[q] # "write"
    /\ mode' = [mode EXCEPT ![p] = kind]
    /\ state' = [state EXCEPT ![p] = committed]
    /\ UNCHANGED <<committed, handles, opened, got>>

BeginRead(p) == Begin(p, "read")
BeginWrite(p) == Begin(p, "write")

(* Limits::key and the value limit, checked before the native call. *)
Fits(k) == k \notin LargeKeys
RefuseLarge(p, k) == mode[p] # "idle" /\ ~Fits(k) /\ UNCHANGED vars
RefuseLargeValue(p, k, v) == mode[p] = "write" /\ Fits(k) /\ v \in LargeValues /\ UNCHANGED vars

(* MdbxTransaction::table looks in the catalogue of its own snapshot first. *)
TableCached(p, t) ==                                        \* faulty variant
    IF t \in DOMAIN state[p] \cup handles THEN {t} ELSE {}

Table(p, t) == IF t \in DOMAIN state[p] THEN {t} ELSE {}

(* Native get through a handle. *)
NativeGet(p, t, k) == IF t \in DOMAIN state[p] THEN GetIn(state[p], t, k) ELSE "BadDbi"

Get(p, t, k) ==
    /\ mode[p] # "idle" /\ Fits(k)
    /\ got' = [got EXCEPT ![p] = IF Table(p, t) = {} THEN None ELSE NativeGet(p, t, k)]
    /\ handles' = handles \cup (Table(p, t) \ opened[p])
    /\ UNCHANGED <<committed, mode, state, opened>>

(* write: create_table, then put. *)
Write(p, t, k, rows) ==
    /\ mode[p] = "write" /\ Fits(k)
    /\ state' = [state EXCEPT ![p] = rows]
    /\ opened' = [opened EXCEPT ![p] = @ \cup ({t} \ handles)]
    /\ UNCHANGED <<committed, handles, mode, got>>

Put(p, t, k, v) == v \notin LargeValues /\ Write(p, t, k, PutIn(state[p], t, k, v))
Insert(p, t, k, v) == v \notin LargeValues /\ Write(p, t, k, InsertIn(state[p], t, k, v))

Delete(p, t, k) ==
    /\ mode[p] = "write" /\ Fits(k)
    /\ state' = [state EXCEPT ![p] = IF Table(p, t) = {} THEN @ ELSE DeleteIn(@, t, k)]
    /\ handles' = handles \cup (Table(p, t) \ opened[p])
    /\ UNCHANGED <<committed, mode, opened, got>>

End(p) ==
    /\ mode[p] # "idle"
    /\ mode' = [mode EXCEPT ![p] = "idle"]
    /\ state' = [state EXCEPT ![p] = NoRows]
    /\ opened' = [opened EXCEPT ![p] = {}]
    /\ UNCHANGED got

(* A commit keeps the handles of the tables it created. *)
Commit(p) ==
    /\ mode[p] = "write" /\ End(p)
    /\ committed' = state[p]
    /\ handles' = handles \cup opened[p]

(* Also a commit that fails, and every read that ends. *)
Abort(p) == End(p) /\ UNCHANGED <<committed, handles>>

Next ==
    \E p \in Procs :
        \/ BeginRead(p) \/ BeginWrite(p) \/ Commit(p) \/ Abort(p)
        \/ \E t \in Tables, k \in Keys :
              \/ Get(p, t, k) \/ Delete(p, t, k) \/ RefuseLarge(p, k)
              \/ \E v \in Values : \/ Put(p, t, k, v) \/ Insert(p, t, k, v)
                                   \/ RefuseLargeValue(p, k, v)

Spec == Init /\ [][Next]_vars

Abstract == INSTANCE SnapshotStore

(* The adapter keeps the promises of the storage traits: a read never fails and
   never sees a row outside its snapshot, whatever handles others have opened. *)
ImplementsSnapshotStore == Abstract!Spec
=============================================================================
