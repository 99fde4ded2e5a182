---------------------------- MODULE SnapshotStore ---------------------------
(***************************************************************************)
(* What the traits Store, ReadTransaction and WriteTransaction promise     *)
(* (crates/storage/src/lib.rs): readers keep the committed state they      *)
(* began with, one writer at a time works on the latest committed state,   *)
(* sees its own changes and publishes them all at once, or none of them.   *)
(***************************************************************************)
EXTENDS StoreRows

CONSTANT Procs

VARIABLES
    committed,   \* the committed rows
    mode,        \* per process: "idle", "read" or "write"
    state,       \* per process in a transaction: the rows it sees
    got          \* per process: what its last get returned

vars == <<committed, mode, state, got>>

Init ==
    /\ committed = NoRows
    /\ mode = [p \in Procs |-> "idle"]
    /\ state = [p \in Procs |-> NoRows]
    /\ got = [p \in Procs |-> None]

BeginRead(p) ==
    /\ mode[p] = "idle"
    /\ mode' = [mode EXCEPT ![p] = "read"]
    /\ state' = [state EXCEPT ![p] = committed]
    /\ UNCHANGED <<committed, got>>

BeginWrite(p) ==
    /\ \A q \in Procs : mode[q] # "write"
    /\ mode[p] = "idle"
    /\ mode' = [mode EXCEPT ![p] = "write"]
    /\ state' = [state EXCEPT ![p] = committed]
    /\ UNCHANGED <<committed, got>>

Get(p, t, k) ==
    /\ mode[p] # "idle"
    /\ got' = [got EXCEPT ![p] = GetIn(state[p], t, k)]
    /\ UNCHANGED <<committed, mode, state>>

Write(p, rows) ==
    /\ mode[p] = "write"
    /\ state' = [state EXCEPT ![p] = rows]
    /\ UNCHANGED <<committed, mode, got>>

End(p) ==
    /\ mode[p] # "idle"
    /\ mode' = [mode EXCEPT ![p] = "idle"]
    /\ state' = [state EXCEPT ![p] = NoRows]
    /\ UNCHANGED got

Commit(p) == mode[p] = "write" /\ End(p) /\ committed' = state[p]

Abort(p) == End(p) /\ UNCHANGED committed

Next ==
    \E p \in Procs :
        \/ BeginRead(p) \/ BeginWrite(p) \/ Commit(p) \/ Abort(p)
        \/ \E t \in Tables, k \in Keys :
              \/ Get(p, t, k)
              \/ Write(p, DeleteIn(state[p], t, k))
              \/ \E v \in Values : \/ Write(p, PutIn(state[p], t, k, v))
                                   \/ Write(p, InsertIn(state[p], t, k, v))

Spec == Init /\ [][Next]_vars
=============================================================================
