------------------------------- MODULE Genesis ------------------------------
(***************************************************************************)
(* Opening a database (crates/api/src/open.rs and genesis.rs): processes   *)
(* open one store in three modes and with various genesis parameters, the  *)
(* first initialises it, the others validate what they find, and opened    *)
(* processes commit.                                                       *)
(*                                                                         *)
(* An opener works on the private state of one write transaction.  A step  *)
(* ends at the writer lock, at a publication, and wherever prepare may     *)
(* fail with part of genesis written.                                      *)
(***************************************************************************)
EXTENDS Integers

CONSTANTS
    Processes,
    Params,      \* genesis parameters: hash function and cell limits
    Unfit,       \* those whose rows the backend cannot hold
    Hashes,      \* hash functions
    HashOf,      \* [Params -> Hashes]
    FirstUserId, \* FIRST_USER_RECORD_ID
    MaxId,       \* bound on record IDs
    MaxCommit,   \* bound on commits
    None         \* no row, no holder, no transaction

VARIABLES
    exists,      \* the store's directory exists
    store,       \* the published state
    writer,      \* holder of the store's writer lock
    pc,          \* where each process stands
    config,      \* the OpenConfig of each process
    tx           \* the write transaction of each process

vars == <<exists, store, writer, pc, config, tx>>

Modes == {"CreateIfMissing", "ExistingOnly", "CreateNew"}

Ids == FirstUserId..MaxId

(* A state of the store.  The identity of genesis cells is a hash over all of
   them, so genesis_id stands for the parameters it commits to; reserved says
   from which parameters the reserved records were written. *)
State ==
    [head       : 0..MaxCommit \cup {None},  \* Superblock rows ...
     format     : {1, None},
     hash_fn    : Hashes \cup {None},
     roaring    : {1, None},
     genesis_id : Params \cup {None},
     reserved   : Params \cup {None},        \* cells of the reserved records
     next       : Ids \cup {None},           \* the allocator cell
     records    : SUBSET Ids,                \* records that have cells
     roots      : SUBSET (0..MaxCommit),     \* commits with a #roots cell
     indexed    : BOOLEAN]                   \* the index is not empty

Empty ==
    [head |-> None, format |-> None, hash_fn |-> None, roaring |-> None,
     genesis_id |-> None, reserved |-> None, next |-> None, records |-> {},
     roots |-> {}, indexed |-> FALSE]

ASSUME GenesisAssumption ==
    /\ Unfit \subseteq Params
    /\ HashOf \in [Params -> Hashes]
    /\ None \notin Params /\ None \notin Hashes /\ None \notin Processes
    /\ FirstUserId \in Nat /\ MaxId \in Nat /\ FirstUserId <= MaxId
    /\ MaxCommit \in Nat
    /\ None \notin Nat /\ None \notin State /\ None \notin [genesis : Params, mode : Modes]

TypeOK ==
    /\ exists \in BOOLEAN
    /\ store \in State
    /\ writer \in Processes \cup {None}
    /\ pc \in [Processes -> {"closed", "path", "begin", "prepare", "cells", "head",
                             "publish", "abort", "open"}]
    /\ config \in [Processes -> [genesis : Params, mode : Modes] \cup {None}]
    /\ tx \in [Processes -> State \cup {None}]

Init ==
    /\ exists \in BOOLEAN
    /\ store = Empty
    /\ writer = None
    /\ pc = [p \in Processes |-> "closed"]
    /\ config = [p \in Processes |-> None]
    /\ tx = [p \in Processes |-> None]

-----------------------------------------------------------------------------
(* Opening. *)

Open(p) ==
    /\ pc[p] = "closed"
    /\ config' \in {[config EXCEPT ![p] = [genesis |-> g, mode |-> m]] :
                       g \in Params, m \in Modes}
    /\ pc' = [pc EXCEPT ![p] = "path"]
    /\ UNCHANGED <<exists, store, writer, tx>>

(* The opener returns, releasing whatever it held; its transaction is dropped. *)
Return(p, to) ==
    /\ pc' = [pc EXCEPT ![p] = to]
    /\ tx' = [tx EXCEPT ![p] = None]
    /\ writer' = IF writer = p THEN None ELSE writer
    /\ config' = IF to = "open" THEN config ELSE [config EXCEPT ![p] = None]

(* open_mdbx: ExistingOnly does not create a directory. *)
OpenPath(p) ==
    /\ pc[p] = "path"
    /\ IF config[p].mode = "ExistingOnly" /\ ~exists
       THEN Return(p, "closed") /\ UNCHANGED <<exists, store>>
       ELSE /\ exists' = TRUE
            /\ pc' = [pc EXCEPT ![p] = "begin"]
            /\ UNCHANGED <<store, writer, config, tx>>

(* Parameters the backend cannot hold are refused before the writer is taken. *)
RefuseParams(p) ==
    /\ pc[p] = "begin"
    /\ config[p].genesis \in Unfit
    /\ Return(p, "closed")
    /\ UNCHANGED <<exists, store>>

BeginWriteEarlySnapshot(p) ==                               \* faulty variant
    /\ pc[p] = "begin"
    /\ config[p].genesis \notin Unfit
    /\ \/ tx[p] = None /\ tx' = [tx EXCEPT ![p] = store] /\ UNCHANGED <<writer, pc>>
       \/ tx[p] # None /\ writer = None /\ writer' = p
          /\ pc' = [pc EXCEPT ![p] = "prepare"] /\ UNCHANGED tx
    /\ UNCHANGED <<exists, store, config>>

BeginWrite(p) ==
    /\ pc[p] = "begin"
    /\ config[p].genesis \notin Unfit
    /\ writer = None
    /\ writer' = p
    /\ tx' = [tx EXCEPT ![p] = store]
    /\ pc' = [pc EXCEPT ![p] = "prepare"]
    /\ UNCHANGED <<exists, store, config>>

-----------------------------------------------------------------------------
(* prepare on a store without a head. *)

IsEmpty(s) == s = Empty

(* Storage with tables but no head, or nothing to open in ExistingOnly mode. *)
RefuseEmpty(p) ==
    /\ pc[p] = "prepare"
    /\ tx[p].head = None
    /\ ~IsEmpty(tx[p]) \/ config[p].mode = "ExistingOnly"
    /\ Return(p, "closed")
    /\ UNCHANGED <<exists, store>>

(* A hash over the parameters and every genesis cell. *)
Identity(g) == g

(* What genesis writes to Cells: the reserved records and the allocator. *)
InitialCells(s, g) == [s EXCEPT !.reserved = g, !.next = FirstUserId]

PutSuperblock(p) ==
    LET g == config[p].genesis IN
    /\ pc[p] = "prepare"
    /\ tx[p].head = None
    /\ IsEmpty(tx[p]) /\ config[p].mode # "ExistingOnly"
    /\ tx' = [tx EXCEPT ![p].format = 1, ![p].hash_fn = HashOf[g], ![p].roaring = 1,
                        ![p].genesis_id = Identity(g)]
    /\ pc' = [pc EXCEPT ![p] = "cells"]
    /\ UNCHANGED <<exists, store, writer, config>>

ApplyInitialCells(p) ==
    /\ pc[p] = "cells"
    /\ tx' = [tx EXCEPT ![p] = InitialCells(@, config[p].genesis)]
    /\ pc' = [pc EXCEPT ![p] = "head"]
    /\ UNCHANGED <<exists, store, writer, config>>

WriteHead(p) ==
    /\ pc[p] = "head"
    /\ tx' = [tx EXCEPT ![p].head = 0]
    /\ pc' = [pc EXCEPT ![p] = "publish"]
    /\ UNCHANGED <<exists, store, writer, config>>

-----------------------------------------------------------------------------
(* prepare on a store with a head. *)

MetadataOK(s, g) ==
    s.format = 1 /\ s.roaring = 1 /\ s.hash_fn = HashOf[g] /\ s.genesis_id = Identity(g)

(* validate_state: allocator, reserved cells, and the extent of genesis or the
   roots of the previous commit. *)
StateOK(s, g) ==
    /\ s.next # None /\ s.next >= FirstUserId
    /\ s.head = 0 => s.next = FirstUserId
    /\ s.next \notin s.records
    /\ s.reserved = g
    /\ IF s.head = 0 THEN s.records = {} /\ s.roots = {} /\ ~s.indexed
                     ELSE s.head - 1 \in s.roots

RefuseExisting(p) ==
    LET g == config[p].genesis IN
    /\ pc[p] = "prepare"
    /\ tx[p].head # None
    /\ \/ ~MetadataOK(tx[p], g) \/ ~StateOK(tx[p], g) \/ config[p].mode = "CreateNew"
    /\ Return(p, "closed")
    /\ UNCHANGED <<exists, store>>

AcceptAnyParams(p) ==                                       \* faulty variant
    /\ pc[p] = "prepare"
    /\ tx[p].head # None
    /\ StateOK(tx[p], tx[p].genesis_id) /\ config[p].mode # "CreateNew"
    /\ pc' = [pc EXCEPT ![p] = "abort"]
    /\ UNCHANGED <<exists, store, writer, config, tx>>

AcceptExisting(p) ==
    LET g == config[p].genesis IN
    /\ pc[p] = "prepare"
    /\ tx[p].head # None
    /\ MetadataOK(tx[p], g) /\ StateOK(tx[p], g) /\ config[p].mode # "CreateNew"
    /\ pc' = [pc EXCEPT ![p] = "abort"]
    /\ UNCHANGED <<exists, store, writer, config, tx>>

-----------------------------------------------------------------------------
(* The end of open_store. *)

(* created: the transaction is committed and the database is open. *)
Publish(p) ==
    /\ pc[p] = "publish"
    /\ store' = tx[p]
    /\ Return(p, "open")
    /\ UNCHANGED exists

(* The commit takes effect but reports an error: the opener fails. *)
PublishInDoubt(p) ==
    /\ pc[p] = "publish"
    /\ store' = tx[p]
    /\ Return(p, "closed")
    /\ UNCHANGED exists

(* not created: the transaction is aborted and the database is open. *)
Abort(p) ==
    /\ pc[p] = "abort"
    /\ Return(p, "open")
    /\ UNCHANGED <<exists, store>>

(* A storage error, a panic or the death of the process: the uncommitted
   transaction is gone and the writer is free.  A closed process may reopen. *)
FailKeepsWriter(p) ==                                       \* faulty variant
    /\ pc[p] # "closed"
    /\ pc' = [pc EXCEPT ![p] = "closed"]
    /\ tx' = [tx EXCEPT ![p] = None]
    /\ config' = [config EXCEPT ![p] = None]
    /\ UNCHANGED <<exists, store, writer>>

Fail(p) ==
    /\ pc[p] # "closed"
    /\ Return(p, "closed")
    /\ UNCHANGED <<exists, store>>

(* An opened process commits a branch over the head (modules Branches and
   Records): it may create records from the allocator on and delete others,
   index them, and it records the roots of the head it supersedes. *)
CommitForgetsRoots(p) ==                                    \* faulty variant
    /\ pc[p] = "open" /\ writer = None
    /\ store.head < MaxCommit
    /\ store' = [store EXCEPT !.head = @ + 1]
    /\ UNCHANGED <<exists, writer, pc, config, tx>>

CommitBranch(p) ==
    /\ pc[p] = "open" /\ writer = None
    /\ store.head < MaxCommit
    /\ \E next \in store.next..MaxId, indexed \in BOOLEAN :
       \E kept \in SUBSET (store.records \cup store.next..(next - 1)) :
          store' = [store EXCEPT !.head = @ + 1, !.next = next, !.records = kept,
                                 !.roots = @ \cup {store.head}, !.indexed = indexed]
    /\ UNCHANGED <<exists, writer, pc, config, tx>>

Step(p) ==
    \/ OpenPath(p) \/ RefuseParams(p) \/ BeginWrite(p) \/ RefuseEmpty(p)
    \/ PutSuperblock(p) \/ ApplyInitialCells(p) \/ WriteHead(p)
    \/ RefuseExisting(p) \/ AcceptExisting(p) \/ Publish(p) \/ Abort(p)

Next ==
    \E p \in Processes :
        Open(p) \/ Step(p) \/ PublishInDoubt(p) \/ Fail(p) \/ CommitBranch(p)

Spec == Init /\ [][Next]_vars

(* An opener that can go on is scheduled.  The writer lock need not be fair. *)
FairSpec == Spec /\ \A p \in Processes : WF_vars(Step(p))

-----------------------------------------------------------------------------
(* Properties. *)

(* The published store is empty or a complete database: never rows without a
   head, or a head without its metadata, whatever interrupts initialisation; and
   after any commits prepare has nothing to object to in it when it is opened
   again with the parameters it was created with. *)
EmptyOrComplete ==
    \/ store = Empty
    \/ /\ store.head # None
       /\ store.genesis_id # None
       /\ MetadataOK(store, store.genesis_id) /\ StateOK(store, store.genesis_id)

(* A database is initialised once: its genesis never changes, its commits never
   go back, and no opener turns an initialised store into a new one. *)
InitialisedOnce ==
    [][store # Empty =>
          /\ store'.genesis_id = store.genesis_id /\ store'.hash_fn = store.hash_fn
          /\ store'.head >= store.head]_vars

(* Who has the database open runs it with the parameters it was created with,
   and the backend can hold the rows these parameters allow. *)
OpenedMatches ==
    \A p \in Processes : pc[p] = "open" =>
        /\ store.genesis_id = config[p].genesis
        /\ store.reserved = config[p].genesis
        /\ config[p].genesis \notin Unfit

(* Once processes stop calling open, every open under way returns, successfully
   or not: no failure, at any point of another opener, leaves the writer held. *)
EveryOpenReturns ==
    <>[][\A p \in Processes : ~Open(p)]_vars
        => <>[](\A p \in Processes : pc[p] \in {"closed", "open"})
=============================================================================
