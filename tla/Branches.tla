------------------------------ MODULE Branches ------------------------------
(***************************************************************************)
(* The branch manager (crates/branch/src/manager.rs, seal.rs, commit.rs)   *)
(* over a store with snapshot readers and one writer                       *)
(* (crates/storage/src/lib.rs and memory.rs).                              *)
(*                                                                         *)
(* Threads call begin, read, edit (write, checkpoint, rollback), seal,     *)
(* commit and discard.  A step ends wherever another thread can intervene: *)
(* at the registry lock, the branch lock, the writer lock, a snapshot and  *)
(* a publication.  Module Journal refines what an edit does to an overlay. *)
(***************************************************************************)
EXTENDS Integers

CONSTANTS
    Threads,
    Managers,   \* Branches values in the process that share one store
    Keys,       \* cell addresses
    Values,     \* cell values
    Tombstone,  \* a staged deletion
    Missing,    \* no cell, no overlay entry, no row
    Absent,     \* a registry entry that was never created
    Gone,       \* a registry entry whose state was taken (the slot is None)
    None,       \* nothing: an unset option, a free lock
    MaxBranch,  \* u64::MAX of NEXT_BRANCH_ID: no ID reaches it
    MaxCommit   \* u64::MAX of commit numbers

VARIABLES
    committed,    \* the store's published state: head commit number and cells
    writer,       \* holder of the store's writer lock
    nextId,       \* NEXT_BRANCH_ID
    registry,     \* Inner.branches of each manager: the IDs it resolves
    registryLock, \* holder of each manager's registry mutex
    slots,        \* the Option<BranchState> behind each entry
    branchLock,   \* holder of each entry's mutex
    pc,           \* where each thread stands in its call
    call,         \* the operation and arguments of each thread's call
    snap,         \* the read snapshot of each thread's call
    tx,           \* the write transaction of each thread's call
    published     \* history: branches whose rows have become the head

vars == <<committed, writer, nextId, registry, registryLock, slots, branchLock,
          pc, call, snap, tx, published>>

Ids == 0..(MaxBranch - 1)

Heads == 0..MaxCommit

Cells == [Keys -> Values \cup {Missing}]

Overlays == [Keys -> Values \cup {Tombstone, Missing}]

State == [head : Heads, cells : Cells]

(* SealedCommit: Missing marks a key without a row, Tombstone a row deletion. *)
Sealed == [commit_id : Heads, writes : Overlays]

(* BranchState.  base is history: the cells of the commit it starts from. *)
BranchState ==
    [commit_id : Heads, overlay : Overlays, sealed : Sealed \cup {None}, base : Cells]

ASSUME BranchesAssumption ==
    /\ Missing # Tombstone
    /\ Missing \notin Values /\ Tombstone \notin Values
    /\ None \notin Threads
    /\ Absent # Gone
    /\ {Absent, Gone} \cap BranchState = {}
    /\ None \notin Sealed
    /\ MaxBranch \in Nat
    /\ MaxCommit \in Nat

Operations == {"read", "edit", "seal", "commit", "discard"}

Calls == [op : Operations \cup {"begin"}, mgr : Managers, id : Ids \cup {None}]

Steps ==
    {"idle", "head", "allocate", "insert", "find", "get", "lock", "validate", "run",
     "begin write", "stage", "publish", "consume", "evict", "remove"}

(* The steps that run under the branch lock, and those under the writer. *)
Holding ==
    {"validate", "run", "begin write", "stage", "publish", "consume", "evict"}

Writing == {"stage", "publish"}

TypeOK ==
    /\ committed \in State
    /\ writer \in Threads \cup {None}
    /\ nextId \in 0..MaxBranch
    /\ registry \in [Managers -> SUBSET Ids]
    /\ registryLock \in [Managers -> Threads \cup {None}]
    /\ slots \in [Ids -> BranchState \cup {Absent, Gone}]
    /\ branchLock \in [Ids -> Threads \cup {None}]
    /\ pc \in [Threads -> Steps]
    /\ call \in [Threads -> Calls \cup {None}]
    /\ snap \in [Threads -> State \cup {None}]
    /\ tx \in [Threads -> State \cup {None}]
    /\ published \in SUBSET Ids

(* A manager opened over a store whose head exists (Branches::new). *)
Init ==
    /\ committed = [head |-> 0, cells |-> [k \in Keys |-> Missing]]
    /\ writer = None
    /\ nextId = 0
    /\ registry = [m \in Managers |-> {}]
    /\ registryLock = [m \in Managers |-> None]
    /\ slots = [b \in Ids |-> Absent]
    /\ branchLock = [b \in Ids |-> None]
    /\ pc = [t \in Threads |-> "idle"]
    /\ call = [t \in Threads |-> None]
    /\ snap = [t \in Threads |-> None]
    /\ tx = [t \in Threads |-> None]
    /\ published = {}

-----------------------------------------------------------------------------
(* Overlays and rows. *)

(* The cells a reader sees when overlay (or row set) o is laid over c. *)
ApplyKeepsTombstones(o, c) ==                               \* faulty variant
    [k \in Keys |-> IF o[k] = Missing THEN c[k] ELSE o[k]]

Apply(o, c) ==
    [k \in Keys |-> IF o[k] = Missing THEN c[k]
                    ELSE IF o[k] = Tombstone THEN Missing ELSE o[k]]

(* seal::compute over the snapshot s: rows only for the cells that change
   (Cells::apply drops writes of equal values), numbered after its head.  The
   roots, the #roots cell and the index rows it adds are module Seal's. *)
ComputeSameNumber(o, s) ==                                  \* faulty variant
    [commit_id |-> s.head,
     writes |-> [k \in Keys |-> IF Apply(o, s.cells)[k] = s.cells[k] THEN Missing ELSE o[k]]]

Compute(o, s) ==
    [commit_id |-> s.head + 1,
     writes |-> [k \in Keys |-> IF Apply(o, s.cells)[k] = s.cells[k] THEN Missing ELSE o[k]]]

-----------------------------------------------------------------------------
(* Calls. *)

Me(t) == call[t].id

(* The call returns; its locals are dropped. *)
Return(t) ==
    /\ pc' = [pc EXCEPT ![t] = "idle"]
    /\ call' = [call EXCEPT ![t] = None]
    /\ snap' = [snap EXCEPT ![t] = None]
    /\ tx' = [tx EXCEPT ![t] = None]

Goto(t, step) == pc' = [pc EXCEPT ![t] = step]

UnlockNever(t) == UNCHANGED branchLock                      \* faulty variant

Unlock(t) == branchLock' = [branchLock EXCEPT ![Me(t)] = None]

CallBegin(t, m) ==
    /\ pc[t] = "idle"
    /\ Goto(t, "head")
    /\ call' = [call EXCEPT ![t] = [op |-> "begin", mgr |-> m, id |-> None]]
    /\ UNCHANGED <<committed, writer, nextId, registry, registryLock, slots,
                   branchLock, snap, tx, published>>

CallBranch(t, op, m, b) ==
    /\ pc[t] = "idle"
    /\ Goto(t, "find")
    /\ call' = [call EXCEPT ![t] = [op |-> op, mgr |-> m, id |-> b]]
    /\ UNCHANGED <<committed, writer, nextId, registry, registryLock, slots,
                   branchLock, snap, tx, published>>

-----------------------------------------------------------------------------
(* Branches::begin reads the head, takes an ID and registers the branch, in
   three steps under no common lock. *)

ReadHead(t) ==
    /\ pc[t] = "head"
    /\ snap' = [snap EXCEPT ![t] = committed]
    /\ Goto(t, "allocate")
    /\ UNCHANGED <<committed, writer, nextId, registry, registryLock, slots,
                   branchLock, call, tx, published>>

(* allocate_branch_id: a checked increment that never wraps. *)
Allocate(t) ==
    /\ pc[t] = "allocate"
    /\ nextId < MaxBranch
    /\ nextId' = nextId + 1
    /\ call' = [call EXCEPT ![t].id = nextId]
    /\ Goto(t, "insert")
    /\ UNCHANGED <<committed, writer, registry, registryLock, slots, branchLock,
                   snap, tx, published>>

AllocateExhausted(t) ==
    /\ pc[t] = "allocate"
    /\ nextId = MaxBranch
    /\ Return(t)
    /\ UNCHANGED <<committed, writer, nextId, registry, registryLock, slots,
                   branchLock, published>>

Insert(t) ==
    /\ pc[t] = "insert"
    /\ registryLock[call[t].mgr] = None
    /\ registry' = [registry EXCEPT ![call[t].mgr] = @ \cup {Me(t)}]
    /\ slots' = [slots EXCEPT ![Me(t)] =
          [commit_id |-> snap[t].head, overlay |-> [k \in Keys |-> Missing],
           sealed |-> None, base |-> snap[t].cells]]
    /\ Return(t)
    /\ UNCHANGED <<committed, writer, nextId, registryLock, branchLock, published>>

-----------------------------------------------------------------------------
(* Branches::with_slot, which every other operation goes through. *)

Find(t) ==
    /\ pc[t] = "find"
    /\ registryLock[call[t].mgr] = None
    /\ registryLock' = [registryLock EXCEPT ![call[t].mgr] = t]
    /\ Goto(t, "get")
    /\ UNCHANGED <<committed, writer, nextId, registry, slots, branchLock, call,
                   snap, tx, published>>

ReleaseRegistry(t) == registryLock' = [registryLock EXCEPT ![call[t].mgr] = None]

(* The entry is cloned and the registry released before the branch is locked. *)
Get(t) ==
    /\ pc[t] = "get"
    /\ ReleaseRegistry(t)
    /\ \/ /\ Me(t) \in registry[call[t].mgr]
          /\ Goto(t, "lock")
          /\ UNCHANGED <<call, snap, tx>>
       \/ /\ Me(t) \notin registry[call[t].mgr]
          /\ Return(t)
    /\ UNCHANGED <<committed, writer, nextId, registry, slots, branchLock, published>>

Lock(t) ==
    /\ pc[t] = "lock"
    /\ branchLock[Me(t)] = None
    /\ branchLock' = [branchLock EXCEPT ![Me(t)] = t]
    /\ Goto(t, "validate")
    /\ UNCHANGED <<committed, writer, nextId, registry, registryLock, slots, call,
                   snap, tx, published>>

AtHeadUnchecked(t) == TRUE                                  \* faulty variant

AtHead(t) == slots[Me(t)].commit_id = committed.head

(* The head is checked in a snapshot taken after the branch was locked.  A
   stale branch loses its state here and its entry in Evict. *)
Validate(t) ==
    /\ pc[t] = "validate"
    /\ \/ /\ slots[Me(t)] = Gone
          /\ Return(t)
          /\ Unlock(t)
          /\ UNCHANGED slots
       \/ /\ slots[Me(t)] # Gone
          /\ AtHead(t)
          /\ snap' = [snap EXCEPT ![t] = committed]
          /\ Goto(t, "run")
          /\ UNCHANGED <<slots, branchLock, call, tx>>
       \/ /\ slots[Me(t)] # Gone
          /\ ~AtHead(t)
          /\ slots' = [slots EXCEPT ![Me(t)] = Gone]
          /\ Goto(t, "evict")
          /\ UNCHANGED <<branchLock, call, snap, tx>>
    /\ UNCHANGED <<committed, writer, nextId, registry, registryLock, published>>

(* Branches::remove. *)
DeregisterNever(t) == UNCHANGED registry                    \* faulty variant

Deregister(t) == registry' = [registry EXCEPT ![call[t].mgr] = @ \ {Me(t)}]

(* Registry removal under the branch lock, then the call returns. *)
Evict(t) ==
    /\ pc[t] = "evict"
    /\ registryLock[call[t].mgr] = None
    /\ Deregister(t)
    /\ Unlock(t)
    /\ Return(t)
    /\ UNCHANGED <<committed, writer, nextId, registryLock, slots, published>>

-----------------------------------------------------------------------------
(* The operations with_slot runs. *)

RequireOpenNever(t) == TRUE                                 \* faulty variant

RequireOpen(t) == slots[Me(t)].sealed = None

(* read and branch_info, and an edit of a sealed branch (require_open). *)
Observe(t) ==
    /\ pc[t] = "run"
    /\ \/ call[t].op = "read"
       \/ call[t].op = "edit" /\ ~RequireOpen(t)
    /\ Unlock(t)
    /\ Return(t)
    /\ UNCHANGED <<committed, writer, nextId, registry, registryLock, slots, published>>

(* write, checkpoint and rollback of an open branch.  A group that fails or
   panics leaves the overlay as it was. *)
Edit(t) ==
    /\ pc[t] = "run"
    /\ call[t].op = "edit"
    /\ RequireOpen(t)
    /\ \E o \in Overlays : slots' = [slots EXCEPT ![Me(t)].overlay = o]
    /\ Unlock(t)
    /\ Return(t)
    /\ UNCHANGED <<committed, writer, nextId, registry, registryLock, published>>

(* BranchState::seal, for seal and as the first step of commit. *)
Seal(t) ==
    /\ pc[t] = "run"
    /\ call[t].op \in {"seal", "commit"}
    /\ \/ slots[Me(t)].sealed # None /\ UNCHANGED slots
       \/ /\ slots[Me(t)].sealed = None
          /\ snap[t].head < MaxCommit
          /\ slots' = [slots EXCEPT ![Me(t)].sealed = Compute(slots[Me(t)].overlay, snap[t])]
    /\ \/ /\ call[t].op = "seal"
          /\ Unlock(t)
          /\ Return(t)
       \/ /\ call[t].op = "commit"
          /\ Goto(t, "begin write")
          /\ UNCHANGED <<branchLock, call, snap, tx>>
    /\ UNCHANGED <<committed, writer, nextId, registry, registryLock, published>>

(* CommitError::CommitNumberExhausted: there is no number for a new commit. *)
SealExhausted(t) ==
    /\ pc[t] = "run"
    /\ call[t].op \in {"seal", "commit"}
    /\ slots[Me(t)].sealed = None
    /\ snap[t].head = MaxCommit
    /\ Unlock(t)
    /\ Return(t)
    /\ UNCHANGED <<committed, writer, nextId, registry, registryLock, slots, published>>

(* discard takes the state under the branch lock and removes the entry after
   releasing it. *)
Discard(t) ==
    /\ pc[t] = "run"
    /\ call[t].op = "discard"
    /\ slots' = [slots EXCEPT ![Me(t)] = Gone]
    /\ Unlock(t)
    /\ Goto(t, "remove")
    /\ UNCHANGED <<committed, writer, nextId, registry, registryLock, call, snap,
                   tx, published>>

Remove(t) ==
    /\ pc[t] = "remove"
    /\ registryLock[call[t].mgr] = None
    /\ Deregister(t)
    /\ Return(t)
    /\ UNCHANGED <<committed, writer, nextId, registryLock, slots, branchLock, published>>

-----------------------------------------------------------------------------
(* Branches::commit after sealing, and commit::persist. *)

(* begin_write: the writer is owned before the state it copies is read. *)
BeginWrite(t) ==
    /\ pc[t] = "begin write"
    /\ writer = None
    /\ writer' = t
    /\ tx' = [tx EXCEPT ![t] = committed]
    /\ Goto(t, "stage")
    /\ UNCHANGED <<committed, nextId, registry, registryLock, slots, branchLock,
                   call, snap, published>>

OriginIsHeadUnchecked(t) == TRUE                            \* faulty variant

OriginIsHead(t) == tx[t].head = slots[Me(t)].commit_id

(* stage: the origin must still be the head; then rows and head are replayed
   into the transaction.  A conflict drops it and consumes the branch. *)
Stage(t) ==
    /\ pc[t] = "stage"
    /\ \/ /\ OriginIsHead(t)
          /\ tx' = [tx EXCEPT ![t] =
                [head |-> slots[Me(t)].sealed.commit_id,
                 cells |-> Apply(slots[Me(t)].sealed.writes, tx[t].cells)]]
          /\ Goto(t, "publish")
          /\ UNCHANGED <<writer, slots>>
       \/ /\ ~OriginIsHead(t)
          /\ writer' = None
          /\ slots' = [slots EXCEPT ![Me(t)] = Gone]
          /\ tx' = [tx EXCEPT ![t] = None]
          /\ Goto(t, "evict")
    /\ UNCHANGED <<committed, nextId, registry, registryLock, branchLock, call,
                   snap, published>>

Publish(t) ==
    /\ pc[t] = "publish"
    /\ committed' = tx[t]
    /\ published' = published \cup {Me(t)}
    /\ writer' = None
    /\ tx' = [tx EXCEPT ![t] = None]
    /\ Goto(t, "consume")
    /\ UNCHANGED <<nextId, registry, registryLock, slots, branchLock, call, snap>>

(* tx.commit() published the state and yet returned an error: the branch keeps
   its sealed result, and the caller may retry. *)
PublishInDoubt(t) ==
    /\ pc[t] = "publish"
    /\ committed' = tx[t]
    /\ published' = published \cup {Me(t)}
    /\ writer' = None
    /\ Unlock(t)
    /\ Return(t)
    /\ UNCHANGED <<nextId, registry, registryLock, slots>>

Consume(t) ==
    /\ pc[t] = "consume"
    /\ slots' = [slots EXCEPT ![Me(t)] = Gone]
    /\ Goto(t, "evict")
    /\ UNCHANGED <<committed, writer, nextId, registry, registryLock, branchLock,
                   call, snap, tx, published>>

-----------------------------------------------------------------------------
(* The store or seal::compute returns an error, or the operation under
   with_slot's catch_unwind panics: locks are released, the uncommitted transaction is dropped,
   the branch keeps its state.  (A store that panics in head() unwinds through
   the guard instead and poisons the mutex; that is not modelled.) *)
FailKeepsWriter(t) ==                                       \* faulty variant
    /\ \/ pc[t] \in {"head", "validate", "begin write", "stage", "publish"}
       \/ pc[t] = "run" /\ call[t].op \in {"seal", "commit"} /\ slots[Me(t)].sealed = None
    /\ IF pc[t] = "head" THEN UNCHANGED branchLock ELSE Unlock(t)
    /\ Return(t)
    /\ UNCHANGED <<committed, writer, nextId, registry, registryLock, slots, published>>

Fail(t) ==
    /\ \/ pc[t] \in {"head", "validate", "begin write", "stage", "publish"}
       \/ pc[t] = "run" /\ call[t].op \in {"seal", "commit"} /\ slots[Me(t)].sealed = None
    /\ IF pc[t] = "head" THEN UNCHANGED branchLock ELSE Unlock(t)
    /\ writer' = IF pc[t] \in Writing THEN None ELSE writer
    /\ Return(t)
    /\ UNCHANGED <<committed, nextId, registry, registryLock, slots, published>>

(* A writer that is not a branch of this process publishes: it takes the
   writer lock, and by contract its head is strictly greater. *)
ForeignPublish ==
    /\ writer = None
    /\ \E h \in (committed.head + 1)..MaxCommit, c \in Cells :
          committed' = [head |-> h, cells |-> c]
    /\ UNCHANGED <<writer, nextId, registry, registryLock, slots, branchLock, pc,
                   call, snap, tx, published>>

(* The process dies and the store is opened again. *)
Crash ==
    /\ writer' = None
    /\ nextId' = 0
    /\ registry' = [m \in Managers |-> {}]
    /\ registryLock' = [m \in Managers |-> None]
    /\ slots' = [b \in Ids |-> Absent]
    /\ branchLock' = [b \in Ids |-> None]
    /\ pc' = [t \in Threads |-> "idle"]
    /\ call' = [t \in Threads |-> None]
    /\ snap' = [t \in Threads |-> None]
    /\ tx' = [t \in Threads |-> None]
    /\ published' = {}
    /\ UNCHANGED committed

(* The steps a running thread takes when nothing goes wrong. *)
Progress(t) ==
    \/ ReadHead(t) \/ Allocate(t) \/ AllocateExhausted(t) \/ Insert(t)
    \/ Find(t) \/ Get(t) \/ Lock(t) \/ Validate(t) \/ Evict(t)
    \/ Observe(t) \/ Edit(t) \/ Seal(t) \/ SealExhausted(t) \/ Discard(t)
    \/ Remove(t) \/ BeginWrite(t) \/ Stage(t) \/ Publish(t) \/ Consume(t)

Invoke(t) ==
    \E m \in Managers :
        CallBegin(t, m) \/ \E op \in Operations, b \in Ids : CallBranch(t, op, m, b)

Next ==
    \/ \E t \in Threads : Invoke(t) \/ Progress(t) \/ PublishInDoubt(t) \/ Fail(t)
    \/ ForeignPublish
    \/ Crash

Spec == Init /\ [][Next]_vars

(* A running thread keeps running.  Locks are not assumed to be fair, and no
   failure is ever assumed to happen: a thread that waits for a lock stays
   there until the lock is free. *)
FairSpec == Spec /\ \A t \in Threads : WF_vars(Progress(t))

-----------------------------------------------------------------------------
(* Properties. *)

Open(b) == slots[b] \notin {Absent, Gone}

(* Each mutex is held exactly while the code that took it needs it, on every
   path: with_slot drops its guard on success, error, staleness and panic, and
   persist drops the writer before the branch is unlocked. *)
LockDiscipline ==
    /\ \A b \in Ids, t \in Threads :
          branchLock[b] = t <=> pc[t] \in Holding /\ Me(t) = b
    /\ \A t \in Threads : writer = t <=> pc[t] \in Writing
    /\ \A m \in Managers, t \in Threads :
          registryLock[m] = t <=> pc[t] = "get" /\ call[t].mgr = m

(* Every operation on a branch sees the very cells the branch was begun over,
   however much time and however many publications lie between (manager.rs:
   "No storage snapshot is kept between calls"). *)
SnapshotIsOrigin ==
    \A t \in Threads :
        pc[t] \in {"run", "begin write", "stage", "publish", "consume"} =>
            /\ Open(Me(t))
            /\ slots[Me(t)].commit_id = snap[t].head
            /\ slots[Me(t)].base = snap[t].cells

(* The rows a sealed branch keeps for commit or a retry still say what its
   overlay says, as long as the branch can be committed at all. *)
SealedIsCurrent ==
    \A b \in Ids :
        Open(b) /\ slots[b].sealed # None /\ slots[b].commit_id = committed.head =>
            /\ slots[b].sealed.commit_id = committed.head + 1
            /\ Apply(slots[b].sealed.writes, committed.cells) =
               Apply(slots[b].overlay, committed.cells)

(* The registry resolves every branch that has state, through one manager, and
   an entry without state is about to be removed by the call that emptied it:
   no branch leaks and none becomes unreachable. *)
RegistryAgrees ==
    \A b \in Ids :
        /\ Open(b) => \E m \in Managers : b \in registry[m]
        /\ \A m, n \in Managers : b \in registry[m] \cap registry[n] => m = n
        /\ \A m \in Managers : b \in registry[m] =>
              \/ Open(b)
              \/ /\ slots[b] = Gone
                 /\ \E t \in Threads : /\ pc[t] \in {"evict", "remove"}
                                       /\ Me(t) = b
                                       /\ call[t].mgr = m

(* Commit publishes a branch at most once, also when the store published it
   and reported an error, so that the caller retries. *)
PublishedOnce ==
    \A t \in Threads : pc[t] = "publish" => Me(t) \notin published

(* Once callers stop issuing calls, every call in flight returns: no path
   keeps a lock or the writer, also when calls fail, and no two calls wait for
   each other (manager.rs: "Never wait for a branch while holding the registry
   lock"). *)
EveryCallReturns ==
    <>[][\A t \in Threads : ~Invoke(t)]_vars => <>[](\A t \in Threads : pc[t] = "idle")

(* For Versions a branch is gone as soon as its publication has happened, also
   when the store reported an error and the manager still keeps its state. *)
AbstractBranch(b) ==
    IF ~Open(b) THEN slots[b]
    ELSE IF b \in published THEN Gone
    ELSE [origin |-> slots[b].commit_id,
          overlay |-> slots[b].overlay,
          frozen |-> slots[b].sealed # None]

Abstract == INSTANCE Versions WITH
    branches <- [b \in Ids |-> AbstractBranch(b)]

ASSUME VersionsAssumption == {Absent, Gone} \cap Abstract!Branch = {}

(* Whatever the interleaving, publications form a chain in which each branch
   is applied in full, to the version it started from, and no handle comes back
   to life. *)
ImplementsVersions == Abstract!Spec
=============================================================================
