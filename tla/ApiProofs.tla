----------------------------- MODULE ApiProofs ------------------------------
(***************************************************************************)
(* Proofs about Genesis, for any processes, parameters and bounds, and     *)
(* about Errors, for any chain of conversions.                             *)
(*                                                                         *)
(* A complete store is not preserved by an arbitrary publication: one has  *)
(* to know that the transaction of an opener that initialises was taken    *)
(* from an empty store which is still empty (Staged), because the opener   *)
(* has held the writer ever since (Owner).                                 *)
(*                                                                         *)
(* What the facade answers depends on the whole chain of wrappers: each    *)
(* wraps the next as its type allows, none of a crate below the cause's,   *)
(* and the chain ends with the error first raised (Chained).               *)
(***************************************************************************)
EXTENDS MCApi, Sequences, TLAPS

Holding == {"prepare", "cells", "head", "publish", "abort"}

(* The writer lock belongs to the process whose step needs it. *)
Owner ==
    \A p \in Processes :
        /\ writer = p <=> pc[p] \in Holding
        /\ pc[p] \in Holding => tx[p] # None
        /\ pc[p] # "closed" => config[p] # None
        /\ pc[p] \in Holding \cup {"open"} => config[p].genesis \notin Unfit

(* What the transaction of an opener holds at each step, and over which store. *)
StagedAt(p) ==
    /\ pc[p] \in {"prepare", "abort"} => tx[p] = store
    /\ pc[p] = "abort" => store # Empty /\ store.genesis_id = config[p].genesis
    /\ pc[p] \in {"cells", "head", "publish"} =>
          /\ store = Empty
          /\ MetadataOK(tx[p], config[p].genesis)
          /\ tx[p].records = {} /\ tx[p].roots = {} /\ ~tx[p].indexed
    /\ pc[p] \in {"head", "publish"} =>
          tx[p].next = FirstUserId /\ tx[p].reserved = config[p].genesis
    /\ pc[p] = "publish" => tx[p].head = 0

Staged == \A p \in Processes : StagedAt(p)

(* Every record ID in use is below the allocator. *)
Allocated == \A r \in store.records : r < store.next

IInv == TypeOK /\ Owner /\ Staged /\ EmptyOrComplete /\ Allocated /\ OpenedMatches

-----------------------------------------------------------------------------
(* States. *)

LEMMA EmptyState == Empty \in State /\ Empty.head = None /\ Empty.records = {}
BY DEF Empty, State

(* What a typed state says of its fields. *)
LEMMA StateFields ==
    ASSUME NEW s \in State
    PROVE  /\ s.head \in 0..MaxCommit \cup {None}
           /\ s.genesis_id \in Params \cup {None}
           /\ s.next \in Ids \cup {None}
           /\ s.records \in SUBSET Ids
           /\ s.roots \in SUBSET (0..MaxCommit)
BY DEF State

LEMMA SuperblockState ==
    ASSUME NEW s \in State, NEW g \in Params
    PROVE  [s EXCEPT !.format = 1, !.hash_fn = HashOf[g], !.roaring = 1,
                     !.genesis_id = Identity(g)] \in State
BY Zenon, GenesisAssumption DEF State, Identity

LEMMA InitialCellsState ==
    ASSUME NEW s \in State, NEW g \in Params
    PROVE  InitialCells(s, g) \in State
<1>1. FirstUserId \in Ids
  BY GenesisAssumption DEF Ids
<1> QED  BY Zenon, <1>1 DEF State, InitialCells

LEMMA HeadState ==
    ASSUME NEW s \in State
    PROVE  [s EXCEPT !.head = 0] \in State
BY GenesisAssumption DEF State

(* What is committed over an opened database is a state again. *)
LEMMA CommitState ==
    ASSUME NEW s \in State, s.head \in Nat, s.head < MaxCommit, s.next \in Ids,
           NEW next \in s.next..MaxId, NEW indexed \in BOOLEAN,
           NEW kept \in SUBSET (s.records \cup s.next..(next - 1))
    PROVE  [s EXCEPT !.head = @ + 1, !.next = next, !.records = kept,
                     !.roots = @ \cup {s.head}, !.indexed = indexed] \in State
<1>1. s.head + 1 \in 0..MaxCommit /\ s.head \in 0..MaxCommit
  BY GenesisAssumption
<1>2. next \in Ids
  BY GenesisAssumption DEF Ids
<1>3. kept \in SUBSET Ids
  BY GenesisAssumption, StateFields DEF Ids
<1>4. s.roots \cup {s.head} \in SUBSET (0..MaxCommit)
  BY <1>1, StateFields
<1> QED  BY Zenon, <1>1, <1>2, <1>3, <1>4 DEF State

-----------------------------------------------------------------------------
(* What the invariant says where a step needs it. *)

LEMMA ProcessFacts ==
    ASSUME IInv, NEW p \in Processes
    PROVE  /\ pc[p] # "closed" =>
                  config[p] \in [genesis : Params, mode : Modes] /\ config[p].genesis \in Params
           /\ pc[p] \in Holding => tx[p] \in State
           /\ pc[p] = "open" => store # Empty
<1>1. pc[p] # "closed" => config[p] \in [genesis : Params, mode : Modes]
  BY DEF IInv, TypeOK, Owner
<1>2. pc[p] # "closed" => config[p].genesis \in Params
  BY <1>1
<1>3. pc[p] \in Holding => tx[p] \in State
  BY DEF IInv, TypeOK, Owner
<1>4. ASSUME pc[p] = "open"  PROVE store # Empty
  <2>1. store.genesis_id = config[p].genesis
    BY <1>4 DEF IInv, OpenedMatches
  <2>2. Empty.genesis_id = None
    BY DEF Empty
  <2> QED  BY <1>2, <1>4, <2>1, <2>2, GenesisAssumption
<1> QED  BY <1>1, <1>2, <1>3, <1>4

LEMMA StoreFacts ==
    ASSUME IInv, store # Empty
    PROVE  /\ store.head \in Nat /\ store.head \in 0..MaxCommit /\ store.next \in Ids
           /\ store.genesis_id \in Params
           /\ MetadataOK(store, store.genesis_id) /\ StateOK(store, store.genesis_id)
<1>1. store \in State
  BY DEF IInv, TypeOK
<1>2. /\ store.head # None /\ store.genesis_id # None
      /\ MetadataOK(store, store.genesis_id) /\ StateOK(store, store.genesis_id)
  BY DEF IInv, EmptyOrComplete
<1>3. store.next # None
  BY <1>2 DEF StateOK
<1> QED  BY <1>1, <1>2, <1>3, StateFields

(* A process that holds no lock does not see the store change under it: only the
   holder publishes genesis, and commits wait for the writer. *)
LEMMA OneHolder ==
    ASSUME IInv, NEW p \in Processes, NEW q \in Processes, p # q, writer \in {p, None}
    PROVE  pc[q] \notin Holding
BY GenesisAssumption DEF IInv, Owner

-----------------------------------------------------------------------------
(* What the steps of initialisation and a commit do to the state they change. *)

TxOnly(p, s) == s \in State /\ tx' = [tx EXCEPT ![p] = s]

LEMMA SuperblockEffect ==
    ASSUME IInv, NEW p \in Processes, PutSuperblock(p)
    PROVE  \E s : /\ TxOnly(p, s) /\ MetadataOK(s, config[p].genesis)
                  /\ s.records = {} /\ s.roots = {} /\ ~s.indexed
<1> DEFINE g == config[p].genesis
           s == [tx[p] EXCEPT !.format = 1, !.hash_fn = HashOf[g], !.roaring = 1,
                              !.genesis_id = Identity(g)]
<1>1. tx[p] \in State /\ g \in Params /\ tx[p] = Empty
  BY ProcessFacts DEF PutSuperblock, Holding, IsEmpty
<1>2. s \in State
  BY Zenon, <1>1, SuperblockState
<1>3. tx' = [tx EXCEPT ![p] = s]
  BY Zenon DEF IInv, TypeOK, PutSuperblock
<1>4. MetadataOK(s, g)
  BY <1>1 DEF MetadataOK, State
<1>5. s.records = {} /\ s.roots = {} /\ ~s.indexed
  BY <1>1 DEF Empty
<1> QED  BY Zenon, <1>2, <1>3, <1>4, <1>5 DEF TxOnly

LEMMA CellsEffect ==
    ASSUME IInv, NEW p \in Processes, ApplyInitialCells(p)
    PROVE  \E s : /\ TxOnly(p, s) /\ MetadataOK(s, config[p].genesis)
                  /\ s.records = {} /\ s.roots = {} /\ ~s.indexed
                  /\ s.next = FirstUserId /\ s.reserved = config[p].genesis
<1> DEFINE g == config[p].genesis
           s == InitialCells(tx[p], g)
<1>1. tx[p] \in State /\ g \in Params
  BY ProcessFacts DEF ApplyInitialCells, Holding
<1>2. s \in State
  BY <1>1, InitialCellsState
<1>3. tx' = [tx EXCEPT ![p] = s]
  BY DEF ApplyInitialCells
<1>4. MetadataOK(tx[p], g) /\ tx[p].records = {} /\ tx[p].roots = {} /\ ~tx[p].indexed
  BY DEF IInv, Staged, StagedAt, ApplyInitialCells
<1>5. /\ s.format = tx[p].format /\ s.roaring = tx[p].roaring
      /\ s.hash_fn = tx[p].hash_fn /\ s.genesis_id = tx[p].genesis_id
      /\ s.records = tx[p].records /\ s.roots = tx[p].roots /\ s.indexed = tx[p].indexed
      /\ s.next = FirstUserId /\ s.reserved = g
  BY <1>1 DEF InitialCells, State
<1> HIDE DEF s
<1> QED  BY Zenon, <1>2, <1>3, <1>4, <1>5 DEF TxOnly, MetadataOK

LEMMA HeadEffect ==
    ASSUME IInv, NEW p \in Processes, WriteHead(p)
    PROVE  \E s : /\ TxOnly(p, s) /\ MetadataOK(s, config[p].genesis)
                  /\ s.records = {} /\ s.roots = {} /\ ~s.indexed
                  /\ s.next = FirstUserId /\ s.reserved = config[p].genesis
                  /\ s.head = 0
<1> DEFINE g == config[p].genesis
           s == [tx[p] EXCEPT !.head = 0]
<1>1. tx[p] \in State /\ g \in Params
  BY ProcessFacts DEF WriteHead, Holding
<1>2. s \in State
  BY <1>1, HeadState
<1>3. tx' = [tx EXCEPT ![p] = s]
  BY DEF IInv, TypeOK, WriteHead
<1>4. /\ MetadataOK(tx[p], g) /\ tx[p].records = {} /\ tx[p].roots = {} /\ ~tx[p].indexed
      /\ tx[p].next = FirstUserId /\ tx[p].reserved = g
  BY DEF IInv, Staged, StagedAt, WriteHead
<1>5. /\ s.format = tx[p].format /\ s.roaring = tx[p].roaring
      /\ s.hash_fn = tx[p].hash_fn /\ s.genesis_id = tx[p].genesis_id
      /\ s.records = tx[p].records /\ s.roots = tx[p].roots /\ s.indexed = tx[p].indexed
      /\ s.next = tx[p].next /\ s.reserved = tx[p].reserved /\ s.head = 0
  BY <1>1 DEF State
<1> HIDE DEF s
<1> QED  BY Zenon, <1>2, <1>3, <1>4, <1>5 DEF TxOnly, MetadataOK

LEMMA CommitEffect ==
    ASSUME IInv, NEW p \in Processes, CommitBranch(p)
    PROVE  /\ store # Empty /\ store' \in State
           /\ store'.head = store.head + 1 /\ store'.roots = store.roots \cup {store.head}
           /\ store'.format = store.format /\ store'.roaring = store.roaring
           /\ store'.hash_fn = store.hash_fn /\ store'.genesis_id = store.genesis_id
           /\ store'.reserved = store.reserved
           /\ store'.next \in Ids /\ store.next <= store'.next
           /\ \A r \in store'.records : r < store'.next
<1>1. /\ store \in State /\ store.head \in Nat /\ store.head < MaxCommit
      /\ store.next \in Ids /\ store # Empty
  BY ProcessFacts, StoreFacts DEF CommitBranch, IInv, TypeOK
<1>2. PICK next \in store.next..MaxId, indexed \in BOOLEAN :
      \E kept \in SUBSET (store.records \cup store.next..(next - 1)) :
         store' = [store EXCEPT !.head = @ + 1, !.next = next, !.records = kept,
                                !.roots = @ \cup {store.head}, !.indexed = indexed]
  BY Zenon DEF CommitBranch
<1>3. PICK kept \in SUBSET (store.records \cup store.next..(next - 1)) :
         store' = [store EXCEPT !.head = @ + 1, !.next = next, !.records = kept,
                                !.roots = @ \cup {store.head}, !.indexed = indexed]
  BY Zenon, <1>2
<1> DEFINE s == [store EXCEPT !.head = @ + 1, !.next = next, !.records = kept,
                              !.roots = @ \cup {store.head}, !.indexed = indexed]
<1>4. s \in State
  BY Zenon, <1>1, CommitState
<1>5. /\ s.head = store.head + 1 /\ s.roots = store.roots \cup {store.head}
      /\ s.format = store.format /\ s.roaring = store.roaring
      /\ s.hash_fn = store.hash_fn /\ s.genesis_id = store.genesis_id
      /\ s.reserved = store.reserved /\ s.next = next /\ s.records = kept
  BY <1>1 DEF State
<1>6. next \in Ids /\ store.next <= next
  BY <1>1, GenesisAssumption DEF Ids
<1>7. \A r \in kept : r < next
  <2>1. \A r \in store.records : r \in Ids /\ r < store.next
    BY <1>1, StateFields DEF IInv, Allocated
  <2> QED  BY <1>1, <1>6, <2>1, GenesisAssumption DEF Ids
<1> HIDE DEF s
<1>8. store' = s
  BY <1>3 DEF s
<1> QED  BY <1>1, <1>4, <1>5, <1>6, <1>7, <1>8

-----------------------------------------------------------------------------
(* Types. *)

LEMMA ReturnTyped ==
    ASSUME TypeOK, NEW p \in Processes, NEW to \in {"closed", "open"}, Return(p, to)
    PROVE  /\ pc' \in [Processes -> {"closed", "path", "begin", "prepare", "cells", "head",
                                      "publish", "abort", "open"}]
           /\ writer' \in Processes \cup {None}
           /\ config' \in [Processes -> [genesis : Params, mode : Modes] \cup {None}]
           /\ tx' \in [Processes -> State \cup {None}]
BY DEF TypeOK, Return

LEMMA TypePreserved == IInv /\ [Next]_vars => TypeOK'
<1> SUFFICES ASSUME IInv, [Next]_vars  PROVE TypeOK'
  OBVIOUS
<1>0. TypeOK
  BY DEF IInv
<1>1. CASE UNCHANGED vars
  BY <1>0, <1>1 DEF TypeOK, vars
<1>2. ASSUME NEW p \in Processes, Open(p)  PROVE TypeOK'
  BY <1>0, <1>2 DEF TypeOK, Open
<1>3. ASSUME NEW p \in Processes,
             \/ OpenPath(p) \/ RefuseParams(p) \/ RefuseEmpty(p) \/ RefuseExisting(p)
             \/ Abort(p) \/ Fail(p)
      PROVE  TypeOK'
  <2>1. CASE /\ exists' = TRUE /\ pc' = [pc EXCEPT ![p] = "begin"]
             /\ UNCHANGED <<store, writer, config, tx>>
    BY <1>0, <2>1 DEF TypeOK
  <2>2. CASE (Return(p, "closed") \/ Return(p, "open")) /\ UNCHANGED <<exists, store>>
    BY <1>0, <2>2, ReturnTyped DEF TypeOK
  <2> QED  BY Zenon, <1>3, <2>1, <2>2 DEF OpenPath, RefuseParams, RefuseEmpty, RefuseExisting, Abort, Fail
<1>4. ASSUME NEW p \in Processes, BeginWrite(p) \/ AcceptExisting(p)  PROVE TypeOK'
  BY <1>0, <1>4 DEF TypeOK, BeginWrite, AcceptExisting
<1>5. ASSUME NEW p \in Processes, PutSuperblock(p)  PROVE TypeOK'
  <2>1. PICK s : TxOnly(p, s)
    BY <1>5, SuperblockEffect
  <2>2. pc' = [pc EXCEPT ![p] = "cells"] /\ UNCHANGED <<exists, store, writer, config>>
    BY <1>5 DEF PutSuperblock
  <2> QED  BY <1>0, <2>1, <2>2 DEF TypeOK, TxOnly
<1>6. ASSUME NEW p \in Processes, ApplyInitialCells(p)  PROVE TypeOK'
  <2>1. PICK s : TxOnly(p, s)
    BY <1>6, CellsEffect
  <2>2. pc' = [pc EXCEPT ![p] = "head"] /\ UNCHANGED <<exists, store, writer, config>>
    BY <1>6 DEF ApplyInitialCells
  <2> QED  BY <1>0, <2>1, <2>2 DEF TypeOK, TxOnly
<1>7. ASSUME NEW p \in Processes, WriteHead(p)  PROVE TypeOK'
  <2>1. PICK s : TxOnly(p, s)
    BY <1>7, HeadEffect
  <2>2. pc' = [pc EXCEPT ![p] = "publish"] /\ UNCHANGED <<exists, store, writer, config>>
    BY <1>7 DEF WriteHead
  <2> QED  BY <1>0, <2>1, <2>2 DEF TypeOK, TxOnly
<1>8. ASSUME NEW p \in Processes, Publish(p) \/ PublishInDoubt(p)  PROVE TypeOK'
  <2>1. store' \in State
    BY <1>8, ProcessFacts DEF Publish, PublishInDoubt, Holding
  <2> QED  BY <1>0, <1>8, <2>1, ReturnTyped DEF TypeOK, Publish, PublishInDoubt
<1>9. ASSUME NEW p \in Processes, CommitBranch(p)  PROVE TypeOK'
  BY Zenon, <1>0, <1>9, CommitEffect DEF TypeOK, CommitBranch
<1> QED  BY <1>1, <1>2, <1>3, <1>4, <1>5, <1>6, <1>7, <1>8, <1>9 DEF Next, Step

-----------------------------------------------------------------------------
(* The holder of the writer. *)

LEMMA OwnerPreserved == IInv /\ [Next]_vars => Owner'
<1> SUFFICES ASSUME IInv, [Next]_vars, NEW q \in Processes
             PROVE  (/\ writer = q <=> pc[q] \in Holding
                     /\ pc[q] \in Holding => tx[q] # None
                     /\ pc[q] # "closed" => config[q] # None
                     /\ pc[q] \in Holding \cup {"open"} => config[q].genesis \notin Unfit)'
  BY DEF Owner
<1> DEFINE Goal == (/\ writer = q <=> pc[q] \in Holding
                    /\ pc[q] \in Holding => tx[q] # None
                    /\ pc[q] # "closed" => config[q] # None
                    /\ pc[q] \in Holding \cup {"open"} => config[q].genesis \notin Unfit)'
<1>0. TypeOK /\ Owner /\ None \notin Processes /\ None \notin State
  BY GenesisAssumption DEF IInv
<1>1. CASE UNCHANGED vars
  BY <1>0, <1>1 DEF Owner, vars
<1>2. ASSUME NEW p \in Processes, Open(p)  PROVE Goal
  <2>1. PICK g \in Params, m \in Modes : config' = [config EXCEPT ![p] = [genesis |-> g, mode |-> m]]
    BY <1>2 DEF Open
  <2>2. [genesis |-> g, mode |-> m] # None
    BY GenesisAssumption
  <2> QED  BY <1>0, <1>2, <2>1, <2>2 DEF TypeOK, Owner, Open, Holding
<1>3. ASSUME NEW p \in Processes, NEW to \in {"closed", "open"}, Return(p, to),
             to = "open" => pc[p] \in Holding
      PROVE  Goal
  BY <1>0, <1>3 DEF TypeOK, Owner, Return, Holding
<1>4. ASSUME NEW p \in Processes, OpenPath(p)  PROVE Goal
  BY <1>0, <1>3, <1>4 DEF TypeOK, Owner, OpenPath, Holding
<1>5. ASSUME NEW p \in Processes, BeginWrite(p)  PROVE Goal
  <2>1. store # None
    BY <1>0 DEF TypeOK
  <2> QED  BY <1>0, <1>5, <2>1 DEF TypeOK, Owner, BeginWrite, Holding
<1>6. ASSUME NEW p \in Processes, PutSuperblock(p)  PROVE Goal
  <2>1. PICK s : TxOnly(p, s)
    BY <1>6, SuperblockEffect
  <2>2. pc[p] = "prepare" /\ pc' = [pc EXCEPT ![p] = "cells"] /\ UNCHANGED <<writer, config>>
    BY <1>6 DEF PutSuperblock
  <2> QED  BY <1>0, <2>1, <2>2 DEF TypeOK, Owner, TxOnly, Holding
<1>7. ASSUME NEW p \in Processes, ApplyInitialCells(p)  PROVE Goal
  <2>1. PICK s : TxOnly(p, s)
    BY <1>7, CellsEffect
  <2>2. pc[p] = "cells" /\ pc' = [pc EXCEPT ![p] = "head"] /\ UNCHANGED <<writer, config>>
    BY <1>7 DEF ApplyInitialCells
  <2> QED  BY <1>0, <2>1, <2>2 DEF TypeOK, Owner, TxOnly, Holding
<1>8. ASSUME NEW p \in Processes, WriteHead(p)  PROVE Goal
  <2>1. PICK s : TxOnly(p, s)
    BY <1>8, HeadEffect
  <2>2. pc[p] = "head" /\ pc' = [pc EXCEPT ![p] = "publish"] /\ UNCHANGED <<writer, config>>
    BY <1>8 DEF WriteHead
  <2> QED  BY <1>0, <2>1, <2>2 DEF TypeOK, Owner, TxOnly, Holding
<1>9. ASSUME NEW p \in Processes, AcceptExisting(p) \/ CommitBranch(p)  PROVE Goal
  BY Zenon, <1>0, <1>9 DEF TypeOK, Owner, AcceptExisting, CommitBranch, Holding
<1>10. ASSUME NEW p \in Processes,
              \/ RefuseParams(p) \/ RefuseEmpty(p) \/ RefuseExisting(p) \/ Publish(p)
              \/ PublishInDoubt(p) \/ Abort(p) \/ Fail(p)
       PROVE  Goal
  BY Zenon, <1>3, <1>10 DEF RefuseParams, RefuseEmpty, RefuseExisting, Publish, PublishInDoubt,
                     Abort, Fail, Holding
<1> QED  BY Zenon, <1>1, <1>2, <1>4, <1>5, <1>6, <1>7, <1>8, <1>9, <1>10 DEF Next, Step

-----------------------------------------------------------------------------
(* What transactions hold. *)

(* The obligations of a process that is not initialising. *)
LEMMA StagedElsewhere ==
    ASSUME NEW q \in Processes, pc'[q] \notin Holding
    PROVE  StagedAt(q)'
BY DEF StagedAt, Holding

(* A process keeps its own when neither it nor the store changes. *)
LEMMA StagedKept ==
    ASSUME IInv, NEW q \in Processes, pc'[q] = pc[q], tx'[q] = tx[q], config'[q] = config[q],
           store' = store
    PROVE  StagedAt(q)'
<1>1. StagedAt(q)
  BY DEF IInv, Staged
<1> QED  BY <1>1 DEF StagedAt, MetadataOK

LEMMA StagedPreserved == IInv /\ [Next]_vars => Staged'
<1> SUFFICES ASSUME IInv, [Next]_vars, NEW q \in Processes  PROVE StagedAt(q)'
  BY DEF Staged
<1>0. TypeOK
  BY DEF IInv
<1>1. CASE UNCHANGED vars
  BY <1>1, StagedKept DEF vars
<1>2. ASSUME NEW p \in Processes, Open(p) \/ (OpenPath(p) /\ pc'[p] # "closed")
      PROVE  StagedAt(q)'
  <2>1. CASE q = p
    BY <1>0, <1>2, <2>1, StagedElsewhere DEF TypeOK, Open, OpenPath, Return, Holding
  <2>2. CASE q # p
    <3>1. pc'[q] = pc[q] /\ tx'[q] = tx[q] /\ config'[q] = config[q] /\ store' = store
      BY <1>0, <1>2, <2>2 DEF TypeOK, Open, OpenPath, Return
    <3> QED  BY <3>1, StagedKept
  <2> QED  BY <2>1, <2>2
<1>3. ASSUME NEW p \in Processes, NEW to \in {"closed", "open"}, Return(p, to), store' = store
      PROVE  StagedAt(q)'
  <2>1. CASE q = p
    BY <1>0, <1>3, <2>1, StagedElsewhere DEF TypeOK, Return, Holding
  <2>2. CASE q # p
    BY <1>0, <1>3, <2>2, StagedKept DEF TypeOK, Return
  <2> QED  BY <2>1, <2>2
<1>4. ASSUME NEW p \in Processes, BeginWrite(p)  PROVE StagedAt(q)'
  <2>1. CASE q = p
    <3>1. pc'[q] = "prepare" /\ tx'[q] = store /\ store' = store
      BY <1>0, <1>4, <2>1 DEF TypeOK, BeginWrite
    <3> QED  BY Zenon, <3>1 DEF StagedAt
  <2>2. CASE q # p
    BY Zenon, <1>0, <1>4, <2>2, StagedKept DEF TypeOK, BeginWrite
  <2> QED  BY <2>1, <2>2
<1>5. ASSUME NEW p \in Processes, PutSuperblock(p)  PROVE StagedAt(q)'
  <2>1. PICK s : /\ TxOnly(p, s) /\ MetadataOK(s, config[p].genesis)
                 /\ s.records = {} /\ s.roots = {} /\ ~s.indexed
    BY <1>5, SuperblockEffect
  <2>2. pc' = [pc EXCEPT ![p] = "cells"] /\ config' = config /\ store' = store
    BY <1>5 DEF PutSuperblock
  <2>3. CASE q = p
    <3>1. store = Empty
      BY <1>5 DEF PutSuperblock, IsEmpty, IInv, Staged, StagedAt
    <3>2. pc'[q] = "cells" /\ tx'[q] = s /\ config'[q] = config[p]
      BY <1>0, <2>1, <2>2, <2>3 DEF TypeOK, TxOnly
    <3> QED  BY Zenon, <2>1, <2>2, <3>1, <3>2 DEF StagedAt, MetadataOK
  <2>4. CASE q # p
    BY Zenon, <1>0, <2>1, <2>2, <2>4, StagedKept DEF TypeOK, TxOnly
  <2> QED  BY <2>3, <2>4
<1>6. ASSUME NEW p \in Processes, ApplyInitialCells(p) \/ WriteHead(p)  PROVE StagedAt(q)'
  <2>1. PICK s : /\ TxOnly(p, s) /\ MetadataOK(s, config[p].genesis)
                 /\ s.records = {} /\ s.roots = {} /\ ~s.indexed
                 /\ s.next = FirstUserId /\ s.reserved = config[p].genesis
                 /\ WriteHead(p) => s.head = 0
    <3>1. CASE WriteHead(p)
      BY Zenon, <3>1, HeadEffect
    <3>2. CASE ApplyInitialCells(p)
      <4>1. ~WriteHead(p)
        BY <3>2 DEF ApplyInitialCells, WriteHead
      <4> QED  BY Zenon, <3>2, <4>1, CellsEffect
    <3> QED  BY Zenon, <1>6, <3>1, <3>2
  <2>2. /\ \/ pc' = [pc EXCEPT ![p] = "head"]
           \/ WriteHead(p) /\ pc' = [pc EXCEPT ![p] = "publish"]
        /\ config' = config /\ store' = store
    BY <1>6 DEF ApplyInitialCells, WriteHead
  <2>3. CASE q = p
    <3>1. store = Empty
      BY <1>6 DEF ApplyInitialCells, WriteHead, IInv, Staged, StagedAt
    <3>2. /\ pc'[q] = "head" \/ (WriteHead(p) /\ pc'[q] = "publish")
          /\ tx'[q] = s /\ config'[q] = config[p]
      BY Zenon, <1>0, <2>1, <2>2, <2>3 DEF TypeOK, TxOnly
    <3> QED  BY Zenon, <2>1, <2>2, <3>1, <3>2 DEF StagedAt, MetadataOK
  <2>4. CASE q # p
    BY Zenon, <1>0, <2>1, <2>2, <2>4, StagedKept DEF TypeOK, TxOnly
  <2> QED  BY <2>3, <2>4
<1>7. ASSUME NEW p \in Processes, AcceptExisting(p)  PROVE StagedAt(q)'
  <2>1. /\ pc' = [pc EXCEPT ![p] = "abort"] /\ config' = config /\ store' = store /\ tx' = tx
        /\ pc[p] = "prepare" /\ tx[p].head # None
        /\ MetadataOK(tx[p], config[p].genesis)
    BY Zenon, <1>7 DEF AcceptExisting
  <2>2. CASE q = p
    <3>1. tx[p] = store
      BY Zenon, <2>1 DEF IInv, Staged, StagedAt
    <3>2. store # Empty
      BY Zenon, <2>1, <3>1, EmptyState
    <3>3. store.genesis_id = config[p].genesis
      BY Zenon, <2>1, <3>1 DEF MetadataOK, Identity
    <3>4. pc'[q] = "abort"
      BY Zenon, <1>0, <2>1, <2>2 DEF TypeOK
    <3> QED  BY Zenon, <2>1, <2>2, <3>1, <3>2, <3>3, <3>4 DEF StagedAt
  <2>3. CASE q # p
    BY Zenon, <1>0, <2>1, <2>3, StagedKept DEF TypeOK
  <2> QED  BY <2>2, <2>3
<1>8. ASSUME NEW p \in Processes, Publish(p) \/ PublishInDoubt(p)  PROVE StagedAt(q)'
  <2>1. pc'[q] \notin Holding
    <3>1. CASE q = p
      BY Zenon, <1>0, <1>8, <3>1 DEF TypeOK, Publish, PublishInDoubt, Return, Holding
    <3>2. CASE q # p
      <4>1. writer = p
        BY Zenon, <1>8 DEF Publish, PublishInDoubt, IInv, Owner, Holding
      <4>2. pc'[q] = pc[q]
        BY Zenon, <1>0, <1>8, <3>2 DEF TypeOK, Publish, PublishInDoubt, Return
      <4> QED  BY <3>2, <4>1, <4>2, OneHolder
    <3> QED  BY <3>1, <3>2
  <2> QED  BY <2>1, StagedElsewhere
<1>9. ASSUME NEW p \in Processes, CommitBranch(p)  PROVE StagedAt(q)'
  <2>1. pc'[q] = pc[q] /\ pc[q] \notin Holding
    BY <1>9, GenesisAssumption DEF CommitBranch, IInv, Owner
  <2> QED  BY <2>1, StagedElsewhere
<1>10. ASSUME NEW p \in Processes,
              \/ (OpenPath(p) /\ pc'[p] = "closed") \/ RefuseParams(p) \/ RefuseEmpty(p)
              \/ RefuseExisting(p) \/ Abort(p) \/ Fail(p)
       PROVE  StagedAt(q)'
  <2>1. CASE OpenPath(p) /\ pc'[p] = "closed"
    BY Zenon, <1>0, <1>3, <2>1 DEF TypeOK, OpenPath
  <2> QED  BY Zenon, <1>3, <1>10, <2>1 DEF RefuseParams, RefuseEmpty, RefuseExisting, Abort, Fail
<1> QED  BY <1>1, <1>2, <1>4, <1>5, <1>6, <1>7, <1>8, <1>9, <1>10 DEF Next, Step

-----------------------------------------------------------------------------
(* The store. *)

(* Who changes the store, and how. *)
LEMMA StoreChanges ==
    ASSUME IInv, [Next]_vars
    PROVE  \/ store' = store
           \/ \E p \in Processes : CommitBranch(p)
           \/ \E p \in Processes : Publish(p) \/ PublishInDoubt(p)
<1>1. ASSUME NEW p \in Processes,
             \/ Open(p) \/ OpenPath(p) \/ RefuseParams(p) \/ BeginWrite(p) \/ RefuseEmpty(p)
             \/ PutSuperblock(p)
      PROVE  store' = store
  BY <1>1 DEF Open, OpenPath, RefuseParams, BeginWrite, RefuseEmpty, PutSuperblock
<1>2. ASSUME NEW p \in Processes,
             \/ ApplyInitialCells(p) \/ WriteHead(p) \/ RefuseExisting(p) \/ AcceptExisting(p)
             \/ Abort(p) \/ Fail(p)
      PROVE  store' = store
  BY <1>2 DEF ApplyInitialCells, WriteHead, RefuseExisting, AcceptExisting, Abort, Fail
<1> QED  BY Zenon, <1>1, <1>2 DEF Next, Step, vars

(* Genesis is published over an empty store, complete and for its parameters. *)
LEMMA PublishEffect ==
    ASSUME IInv, NEW p \in Processes, Publish(p) \/ PublishInDoubt(p)
    PROVE  /\ store = Empty /\ store' \in State
           /\ store'.head = 0 /\ store'.genesis_id = config[p].genesis
           /\ store'.genesis_id \in Params /\ store'.reserved = config[p].genesis
           /\ store'.next = FirstUserId /\ store'.records = {}
           /\ MetadataOK(store', store'.genesis_id) /\ StateOK(store', store'.genesis_id)
<1>1. pc[p] = "publish" /\ store' = tx[p]
  BY DEF Publish, PublishInDoubt
<1>2. /\ store = Empty /\ MetadataOK(tx[p], config[p].genesis)
      /\ tx[p].records = {} /\ tx[p].roots = {} /\ ~tx[p].indexed /\ tx[p].head = 0
      /\ tx[p].next = FirstUserId /\ tx[p].reserved = config[p].genesis
  BY Zenon, <1>1 DEF IInv, Staged, StagedAt
<1>3. tx[p] \in State /\ config[p].genesis \in Params
  BY Zenon, <1>1, ProcessFacts DEF Holding
<1>4. tx[p].genesis_id = config[p].genesis
  BY Zenon, <1>2 DEF MetadataOK, Identity
<1>5. FirstUserId # None /\ FirstUserId \in Nat
  BY GenesisAssumption
<1>6. StateOK(tx[p], tx[p].genesis_id)
  <2>1. tx[p].next # None /\ tx[p].next >= FirstUserId /\ tx[p].next \notin tx[p].records
    BY <1>2, <1>5
  <2> QED  BY Zenon, <1>2, <1>4, <2>1 DEF StateOK
<1> QED  BY Zenon, <1>1, <1>2, <1>3, <1>4, <1>6

LEMMA CompletePreserved == IInv /\ [Next]_vars => (EmptyOrComplete /\ Allocated)'
<1> SUFFICES ASSUME IInv, [Next]_vars  PROVE (EmptyOrComplete /\ Allocated)'
  OBVIOUS
<1>1. CASE store' = store
  <2>1. EmptyOrComplete /\ Allocated
    BY DEF IInv
  <2>2. EmptyOrComplete'
    BY Zenon, <1>1, <2>1 DEF EmptyOrComplete, MetadataOK, StateOK
  <2>3. Allocated'
    BY <1>1, <2>1 DEF Allocated
  <2> QED  BY <2>2, <2>3
<1>2. ASSUME NEW p \in Processes, Publish(p) \/ PublishInDoubt(p)
      PROVE  (EmptyOrComplete /\ Allocated)'
  <2>1. store'.head # None /\ store'.genesis_id # None /\ store'.records = {}
    BY <1>2, PublishEffect, GenesisAssumption
  <2> QED  BY Zenon, <1>2, <2>1, PublishEffect DEF EmptyOrComplete, Allocated, MetadataOK, StateOK
<1>3. ASSUME NEW p \in Processes, CommitBranch(p)  PROVE (EmptyOrComplete /\ Allocated)'
  <2>1. /\ store # Empty
        /\ store'.head = store.head + 1 /\ store'.roots = store.roots \cup {store.head}
        /\ store'.format = store.format /\ store'.roaring = store.roaring
        /\ store'.hash_fn = store.hash_fn /\ store'.genesis_id = store.genesis_id
        /\ store'.reserved = store.reserved
        /\ store'.next \in Ids /\ \A r \in store'.records : r < store'.next
    BY Zenon, <1>3, CommitEffect
  <2>2. /\ store.head \in Nat /\ store.genesis_id \in Params
        /\ MetadataOK(store, store.genesis_id) /\ StateOK(store, store.genesis_id)
    BY Zenon, <2>1, StoreFacts
  <2>3. store'.next \in Nat /\ FirstUserId <= store'.next /\ store'.next # None
    BY <2>1, GenesisAssumption DEF Ids
  <2>4. store'.next \notin store'.records
    BY <2>1, <2>3
  <2>5. store'.head # None /\ store'.head # 0 /\ store'.head - 1 = store.head
    <3>1. None \notin Nat
      BY GenesisAssumption
    <3>2. store'.head = store.head + 1 /\ store.head \in Nat
      BY Zenon, <2>1, <2>2
    <3> QED  BY <3>1, <3>2
  <2>6. FirstUserId \in Nat /\ None \notin Params
    BY GenesisAssumption
  <2>7. StateOK(store', store'.genesis_id)
    BY Zenon, <2>1, <2>2, <2>3, <2>4, <2>5, <2>6 DEF StateOK
  <2>8. MetadataOK(store', store'.genesis_id)
    BY Zenon, <2>1, <2>2 DEF MetadataOK
  <2>9. store'.genesis_id # None
    BY Zenon, <2>1, <2>2, <2>6
  <2>10. EmptyOrComplete'
    BY Zenon, <2>5, <2>7, <2>8, <2>9 DEF EmptyOrComplete, MetadataOK, StateOK
  <2>11. Allocated'
    BY Zenon, <2>1 DEF Allocated
  <2> QED  BY <2>10, <2>11
<1> QED  BY Zenon, <1>1, <1>2, <1>3, StoreChanges

LEMMA OpenedPreserved == IInv /\ [Next]_vars => OpenedMatches'
<1> SUFFICES ASSUME IInv, [Next]_vars, NEW q \in Processes, pc'[q] = "open"
             PROVE  /\ store'.genesis_id = config'[q].genesis
                    /\ store'.reserved = config'[q].genesis
                    /\ config'[q].genesis \notin Unfit
  BY Zenon DEF OpenedMatches
<1>1. config'[q].genesis \notin Unfit
  BY Zenon, OwnerPreserved DEF Owner
<1>2. CASE pc[q] = "open" /\ config'[q] = config[q]
  <2>1. store # Empty /\ store.genesis_id = config[q].genesis /\ store.reserved = config[q].genesis
    BY Zenon, <1>2, ProcessFacts DEF IInv, OpenedMatches
  <2>2. store'.genesis_id = store.genesis_id /\ store'.reserved = store.reserved
    BY Zenon, <2>1, StoreChanges, PublishEffect, CommitEffect
  <2> QED  BY Zenon, <1>1, <1>2, <2>1, <2>2
<1>3. CASE pc[q] = "abort" /\ config'[q] = config[q] /\ store' = store
  <2>1. store # Empty /\ store.genesis_id = config[q].genesis
    BY Zenon, <1>3 DEF IInv, Staged, StagedAt
  <2>2. store.reserved = store.genesis_id
    BY Zenon, <2>1, StoreFacts DEF StateOK
  <2> QED  BY Zenon, <1>1, <1>3, <2>1, <2>2
<1>4. CASE Publish(q) /\ config'[q] = config[q]
  BY Zenon, <1>1, <1>4, PublishEffect
<1>5. \/ pc[q] = "open" /\ config'[q] = config[q]
      \/ pc[q] = "abort" /\ config'[q] = config[q] /\ store' = store
      \/ Publish(q) /\ config'[q] = config[q]
  <2>0. TypeOK
    BY DEF IInv
  <2>1. ASSUME NEW p \in Processes, NEW to \in {"closed", "open"}, Return(p, to), q # p
        PROVE  pc[q] = "open" /\ config'[q] = config[q]
    BY Zenon, <2>0, <2>1 DEF TypeOK, Return
  <2>2. ASSUME NEW p \in Processes, Return(p, "closed")
        PROVE  pc[q] = "open" /\ config'[q] = config[q]
    BY Zenon, <2>0, <2>2 DEF TypeOK, Return
  <2>3. CASE UNCHANGED vars
    BY Zenon, <2>3 DEF vars
  <2>4. ASSUME NEW p \in Processes, Open(p) \/ BeginWrite(p) \/ AcceptExisting(p) \/ CommitBranch(p)
        PROVE  pc[q] = "open" /\ config'[q] = config[q]
    <3>1. CASE Open(p)
      <4>1. PICK c : config' = [config EXCEPT ![p] = c]
        BY <3>1 DEF Open
      <4>2. q # p /\ pc'[q] = pc[q]
        BY Zenon, <2>0, <3>1 DEF TypeOK, Open
      <4> QED  BY Zenon, <2>0, <4>1, <4>2 DEF TypeOK
    <3>2. CASE BeginWrite(p) \/ AcceptExisting(p) \/ CommitBranch(p)
      BY Zenon, <2>0, <3>2 DEF TypeOK, BeginWrite, AcceptExisting, CommitBranch
    <3> QED  BY Zenon, <2>4, <3>1, <3>2
  <2>5. ASSUME NEW p \in Processes, PutSuperblock(p) \/ ApplyInitialCells(p) \/ WriteHead(p)
        PROVE  pc[q] = "open" /\ config'[q] = config[q]
    BY <2>0, <2>5 DEF TypeOK, PutSuperblock, ApplyInitialCells, WriteHead
  <2>6. ASSUME NEW p \in Processes,
               \/ RefuseParams(p) \/ RefuseEmpty(p) \/ RefuseExisting(p)
               \/ PublishInDoubt(p) \/ Fail(p)
        PROVE  pc[q] = "open" /\ config'[q] = config[q]
    BY Zenon, <2>2, <2>6 DEF RefuseParams, RefuseEmpty, RefuseExisting, PublishInDoubt, Fail
  <2>7. ASSUME NEW p \in Processes, OpenPath(p)
        PROVE  pc[q] = "open" /\ config'[q] = config[q]
    BY Zenon, <2>0, <2>2, <2>7 DEF TypeOK, OpenPath
  <2>8. ASSUME NEW p \in Processes, Publish(p) \/ Abort(p), q = p
        PROVE  \/ pc[q] = "abort" /\ config'[q] = config[q] /\ store' = store
               \/ Publish(q) /\ config'[q] = config[q]
    BY Zenon, <2>8 DEF Publish, Abort, Return
  <2>9. ASSUME NEW p \in Processes, Publish(p) \/ Abort(p), q # p
        PROVE  pc[q] = "open" /\ config'[q] = config[q]
    BY Zenon, <2>1, <2>9 DEF Publish, Abort
  <2> QED  BY Zenon, <2>3, <2>4, <2>5, <2>6, <2>7, <2>8, <2>9 DEF Next, Step
<1> QED  BY Zenon, <1>2, <1>3, <1>4, <1>5

-----------------------------------------------------------------------------
(* Theorems. *)

LEMMA InitIInv == Init => IInv
<1> SUFFICES ASSUME Init  PROVE IInv
  OBVIOUS
<1>1. TypeOK
  BY Zenon, EmptyState DEF Init, TypeOK
<1>2. Owner
  BY Zenon, GenesisAssumption DEF Init, Owner, Holding
<1>3. Staged
  BY Zenon DEF Init, Staged, StagedAt
<1>4. EmptyOrComplete /\ Allocated /\ OpenedMatches
  BY Zenon, EmptyState DEF Init, EmptyOrComplete, Allocated, OpenedMatches
<1> QED  BY <1>1, <1>2, <1>3, <1>4 DEF IInv

LEMMA Inductive == IInv /\ [Next]_vars => IInv'
BY TypePreserved, OwnerPreserved, StagedPreserved, CompletePreserved, OpenedPreserved DEF IInv

LEMMA Invariance == Spec => []IInv
BY InitIInv, Inductive, PTL DEF Spec

(* The state of openers and store keeps its types, for any processes, genesis
   parameters and bounds. *)
THEOREM TypeCorrect == Spec => []TypeOK
<1>1. IInv => TypeOK
  BY DEF IInv
<1> QED  BY <1>1, Invariance, PTL

(* Whatever interrupts initialisation, and whoever races for it, the published
   store is empty or a complete database that prepare accepts. *)
THEOREM CompleteCorrect == Spec => []EmptyOrComplete
<1>1. IInv => EmptyOrComplete
  BY DEF IInv
<1> QED  BY <1>1, Invariance, PTL

(* An opened database has the parameters its opener asked for. *)
THEOREM OpenedCorrect == Spec => []OpenedMatches
<1>1. IInv => OpenedMatches
  BY DEF IInv
<1> QED  BY <1>1, Invariance, PTL

(* No opener re-initialises a database, and commits never go back. *)
THEOREM OnceCorrect == Spec => InitialisedOnce
<1>1. ASSUME IInv, [Next]_vars, store # Empty
      PROVE  /\ store'.genesis_id = store.genesis_id /\ store'.hash_fn = store.hash_fn
             /\ store'.head >= store.head
  <2>1. store.head \in Nat
    BY <1>1, StoreFacts
  <2>2. CASE store' = store
    BY <2>1, <2>2
  <2>3. ASSUME NEW p \in Processes, CommitBranch(p)
        PROVE  /\ store'.genesis_id = store.genesis_id /\ store'.hash_fn = store.hash_fn
               /\ store'.head = store.head + 1
    BY Zenon, <1>1, <2>3, CommitEffect
  <2>4. ASSUME NEW p \in Processes, Publish(p) \/ PublishInDoubt(p)  PROVE FALSE
    BY Zenon, <1>1, <2>4, PublishEffect
  <2> QED  BY <1>1, <2>1, <2>2, <2>3, <2>4, StoreChanges
<1>2. IInv /\ [Next]_vars =>
         [store # Empty => /\ store'.genesis_id = store.genesis_id
                           /\ store'.hash_fn = store.hash_fn
                           /\ store'.head >= store.head]_vars
  BY Zenon, <1>1
<1> QED  BY <1>2, Invariance, PTL DEF Spec, InitialisedOnce

-----------------------------------------------------------------------------
(* Errors. *)

(* The error a chain of wrappers ends with. *)
Base(e) == IF e[1] = "Mdbx" THEN <<"Storage", E!Backend(e[2])>> ELSE e

(* How many crates an error type is above those of storage and encodings. *)
Rank(type) ==
    IF type = "Merkle" THEN 1
    ELSE IF type \in {"Cells", "Index"} THEN 2
    ELSE IF type = "Branch" THEN 3
    ELSE IF type = "Record" THEN 4
    ELSE IF type = "Query" THEN 5 ELSE 0

Wrappers == {"Merkle", "Cells", "Index", "Branch", "Record", "Query"}

Wrapper(outer, inner, base) ==
    /\ outer[1] \in Wrappers
    /\ <<inner[1], outer[2]>> \in E!Wraps(outer[1])
    /\ Rank(outer[1]) > Rank(base[1])

(* A chain: each error wraps the next as its type allows, down to the base. *)
Chained(e, base) ==
    /\ \E S : e \in Seq(S)
    /\ Len(e) >= 1 /\ e[Len(e)] = base
    /\ \A i \in 1..Len(e) : e[i] = <<e[i][1], e[i][2]>>
    /\ \A i \in 1..(Len(e) - 1) : Wrapper(e[i], e[i + 1], base)

Unavailable == <<"Record", "CommitUnavailable">>
Unindexable == <<"Term", "request">>

Carried ==
    \/ /\ Chained(error, Base(raised))
       /\ Base(raised) \in E!Request \/ (call = "query" /\ raised = Unavailable) => Len(error) = 1
    \/ call = "query" /\ raised = Unavailable /\ error = <<<<"Query", "CommitUnavailable">>>>
    \/ call = "query" /\ raised = Unindexable
       /\ error = <<<<"Query", "InvalidArgument">>, Unindexable>>

Calls == {"build", "branch", "record", "query"}

EInv ==
    /\ E!MeaningsKept
    /\ \/ call = None /\ error = <<>> /\ answer = None
       \/ call \in Calls /\ raised \in E!Raises(call) /\ Carried

(* Which type wraps which, and in which variant. *)
LEMMA WrapsAre ==
    ASSUME NEW o \in Wrappers, NEW i, NEW v, <<i, v>> \in E!Wraps(o)
    PROVE  \/ o = "Merkle" /\ i = "Storage" /\ v = "Storage"
           \/ o = "Cells" /\ i \in {"Storage", "Merkle"} /\ v = i
           \/ o = "Cells" /\ i \in {"CellKey", "CellValue"} /\ v \in {"Key", "Value"}
           \/ o = "Index" /\ i \in {"Storage", "Merkle", "Bitmap", "Term"} /\ v = i
           \/ o = "Branch" /\ i \in {"Storage", "Cells", "Index", "Term"} /\ v = i
           \/ o = "Branch" /\ i \in {"CellKey", "CellValue"} /\ v \in {"Key", "Value"}
           \/ o = "Record" /\ i \in {"Storage", "Cells", "Branch"} /\ v = i
           \/ o = "Query" /\ i \in {"Index", "Record"} /\ v = "Internal"
  <1>1. CASE o = "Merkle"
    <2>1. E!Wraps(o) = {<<"Storage", "Storage">>}
      BY <1>1 DEF E!Wraps, E!MerkleError
    <2> QED BY <1>1, <2>1
  <1>2. CASE o = "Cells"
    <2>1. E!Wraps(o) = {<<"Storage", "Storage">>, <<"Merkle", "Merkle">>,
                        <<"CellKey", "Key">>, <<"CellValue", "Value">>}
      BY <1>2 DEF E!Wraps, E!CellError
    <2> QED BY <1>2, <2>1
  <1>3. CASE o = "Index"
    <2>1. E!Wraps(o) = {<<"Storage", "Storage">>, <<"Merkle", "Merkle">>,
                        <<"Bitmap", "Bitmap">>, <<"Term", "Term">>}
      BY <1>3 DEF E!Wraps, E!IndexError
    <2> QED BY <1>3, <2>1
  <1>4. CASE o = "Branch"
    <2>1. E!Wraps(o) = {<<"Storage", "Storage">>, <<"Cells", "Cells">>, <<"Index", "Index">>,
                        <<"Term", "Term">>, <<"CellKey", "Key">>, <<"CellValue", "Value">>}
      BY <1>4 DEF E!Wraps, E!BranchError
    <2> QED BY Zenon, <1>4, <2>1
  <1>5. CASE o = "Record"
    <2>1. E!Wraps(o) = {<<"Storage", "Storage">>, <<"Cells", "Cells">>, <<"Branch", "Branch">>}
      BY <1>5 DEF E!Wraps, E!RecordError
    <2> QED BY Zenon, <1>5, <2>1
  <1>6. CASE o = "Query"
    <2>1. E!Wraps(o) = {<<"Index", "Internal">>, <<"Record", "Internal">>}
      BY <1>6 DEF E!Wraps, E!QueryError
    <2> QED BY <1>6, <2>1
  <1> QED BY Zenon, <1>1, <1>2, <1>3, <1>4, <1>5, <1>6 DEF Wrappers

LEMMA RanksRise ==
    ASSUME NEW o \in Wrappers, NEW i, NEW v, <<i, v>> \in E!Wraps(o)
    PROVE  Rank(o) > Rank(i)
  BY WrapsAre DEF Rank

LEMMA AboveOne == \A n \in Nat : n >= 1 /\ n # 1 => n >= 2 /\ 1 \in 1..(n - 1)
  OBVIOUS

LEMMA RankNat == \A type : Rank(type) \in Nat
  BY DEF Rank

LEMMA ChainFacts ==
    ASSUME NEW e, NEW base, Chained(e, base)
    PROVE  /\ Len(e) \in Nat /\ Len(e) >= 1 /\ DOMAIN e = 1..Len(e)
           /\ e[Len(e)] = base /\ \A i \in 1..Len(e) : e[i] = <<e[i][1], e[i][2]>>
           /\ \A i \in 1..(Len(e) - 1) : /\ e[i][1] \in Wrappers
                                         /\ <<e[i + 1][1], e[i][2]>> \in E!Wraps(e[i][1])
                                         /\ Rank(e[i][1]) > Rank(base[1])
  <1>1. PICK S : e \in Seq(S)
    BY DEF Chained
  <1>2. Len(e) \in Nat /\ DOMAIN e = 1..Len(e)
    BY <1>1
  <1> QED BY Zenon, <1>2 DEF Chained, Wrapper

(* In a chain that is no query's, store_full finds the base, whatever is between. *)
LEMMA StoreFullFindsBase ==
    ASSUME NEW e, NEW base, Chained(e, base), e[1][1] # "Query"
    PROVE  E!StoreFull(e) <=> base = <<"Storage", "Full">>
  <1> DEFINE n == Len(e)
  <1>1. n \in Nat /\ n >= 1 /\ DOMAIN e = 1..n /\ e[n] = base
    BY Zenon, ChainFacts
  <1>2. \A i \in 1..n : e[i] = <<e[i][1], e[i][2]>>
    BY Zenon, ChainFacts
  <1>3. \A j \in 1..(n - 1) : /\ e[j][1] \in Wrappers
                              /\ <<e[j + 1][1], e[j][2]>> \in E!Wraps(e[j][1])
    BY Zenon, ChainFacts
  <1> HIDE DEF n
  <1>4. ASSUME NEW i \in 1..(n - 1)
        PROVE  e[i][1] # "Query"
    <2>1. CASE i = 1
      BY <2>1
    <2>2. CASE i # 1
      <3>1. i - 1 \in 1..(n - 1) /\ (i - 1) + 1 = i
        BY <2>2, <1>1
      <3>2. e[i - 1][1] \in Wrappers /\ <<e[i][1], e[i - 1][2]>> \in E!Wraps(e[i - 1][1])
        BY Zenon, <1>3, <3>1
      <3> QED BY Zenon, <3>2, WrapsAre
    <2> QED BY <2>1, <2>2
  <1>5. ASSUME NEW i \in 1..(n - 1)
        PROVE  e[i][1] # "Storage"
    BY Zenon, <1>3 DEF Wrappers
  <1>6. ASSUME E!StoreFull(e) PROVE base = <<"Storage", "Full">>
    <2>1. PICK i \in 1..n : e[i] = <<"Storage", "Full">>
      BY <1>1, <1>6 DEF E!StoreFull
    <2>2. e[i][1] = "Storage"
      BY <2>1
    <2>3. i \notin 1..(n - 1)
      BY <1>5, <2>2
    <2>4. i = n
      BY <1>1, <2>3
    <2> QED BY Zenon, <1>1, <2>1, <2>4
  <1>7. ASSUME base = <<"Storage", "Full">> PROVE E!StoreFull(e)
    <2>1. n \in DOMAIN e /\ e[n] = <<"Storage", "Full">>
      BY <1>1, <1>7
    <2>2. ASSUME NEW i \in 1..(n - 1)
          PROVE  e[i] \in E!Followed
      <3> DEFINE o == e[i][1]
                 v == e[i][2]
                 below == e[i + 1][1]
      <3>1. /\ o \in Wrappers /\ o # "Query" /\ <<below, v>> \in E!Wraps(o)
        BY Zenon, <1>3, <1>4
      <3>2. below \in Wrappers \cup {"Storage"}
        <4>1. CASE i + 1 = n
          BY <4>1, <1>1, <1>7
        <4>2. CASE i + 1 # n
          <5>1. i + 1 \in 1..(n - 1)
            BY <4>2, <1>1
          <5> QED BY Zenon, <5>1, <1>3
        <4> QED BY <4>1, <4>2
      <3>3. e[i] = <<o, v>>
        <4>1. i \in 1..n
          BY <1>1
        <4> QED BY <4>1, <1>2
      <3> HIDE DEF o, v, below
      <3>4. \/ o = "Record" /\ v \in {"Storage", "Cells", "Branch"}
            \/ o = "Branch" /\ v \in {"Storage", "Cells", "Index"}
            \/ o = "Cells" /\ v \in {"Storage", "Merkle"}
            \/ o = "Index" /\ v \in {"Storage", "Merkle"}
            \/ o = "Merkle" /\ v = "Storage"
        BY ZenonT(30), <3>1, <3>2, WrapsAre DEF Wrappers
      <3>5. <<o, v>> \in E!Followed
        BY <3>4 DEF E!Followed
      <3> QED BY <3>3, <3>5
    <2> QED BY <2>1, <2>2 DEF E!StoreFull
  <1> QED BY <1>6, <1>7

LEMMA RaisedAre ==
    ASSUME NEW c \in Calls, NEW e \in E!Raises(c)
    PROVE  \E t, v :
           /\ e = <<t, v>>
           /\ \/ c = "build" /\ t \in {"CellName", "CellValue"} /\ v = "request"
              \/ c = "query" /\ t = "Term" /\ v = "request"
              \/ t = "Mdbx" /\ v \in {"MapFull", "KeyExist", "Other"}
              \/ t \in {"Term", "CellKey", "CellValue", "Bitmap"} /\ v = "stored"
              \/ t \in {"Storage", "Merkle", "Cells", "Index"}
              \/ c = "query" /\ t = "Branch" /\ v \in {"MissingHead", "InvalidHead"}
              \/ c = "query" /\ t = "Record" /\ v \in {"CorruptState", "CommitUnavailable"}
              \/ c = "query" /\ t = "Query" /\ v \in {"InvalidQuery", "NotImplemented"}
              \/ c \in {"branch", "record"} /\ t = "Branch" /\ v \in E!BranchError.own
              \/ c = "record" /\ t = "Record" /\ v \in E!RecordError.own
  <1>1. \A t, V : \A x \in E!Of(t, V) : \E v \in V : x = <<t, v>>
    BY DEF E!Of
  <1>2. CASE c = "build"
    <2>1. e = <<"CellName", "request">> \/ e = <<"CellValue", "request">>
      BY Zenon, <1>2 DEF E!Raises
    <2> QED BY Zenon, <1>2, <2>1
  <1>3. CASE c # "build"
    <2>1. \/ e \in E!Of("Mdbx", E!MdbxErrors)
          \/ e \in E!Of("Storage", E!StorageErrors)
          \/ e \in E!Stored
          \/ e \in E!Of("Merkle", E!MerkleError.own)
          \/ e \in E!Of("Cells", E!CellError.own)
          \/ e \in E!Of("Index", E!IndexError.own)
          \/ c = "query" /\ e \in E!Of("Branch", {"MissingHead", "InvalidHead"})
          \/ c = "query" /\ e \in E!Of("Record", {"CorruptState", "CommitUnavailable"})
          \/ c = "query" /\ e \in E!Of("Query", E!QueryError.own)
          \/ c = "query" /\ e = <<"Term", "request">>
          \/ c # "query" /\ e \in E!Of("Branch", E!BranchError.own)
          \/ c = "record" /\ e \in E!Of("Record", E!RecordError.own)
      BY Zenon, <1>3 DEF E!Raises
    <2>2. CASE e \in E!Of("Mdbx", E!MdbxErrors)
      BY <1>1, <2>2 DEF E!MdbxErrors
    <2>3. CASE e \in E!Stored
      BY Zenon, <2>3 DEF E!Stored
    <2>4. CASE \/ e \in E!Of("Storage", E!StorageErrors) \/ e \in E!Of("Merkle", E!MerkleError.own)
               \/ e \in E!Of("Cells", E!CellError.own) \/ e \in E!Of("Index", E!IndexError.own)
      BY <1>1, <2>4
    <2>5. CASE c = "query" /\ e \in E!Of("Branch", {"MissingHead", "InvalidHead"})
      BY <1>1, <2>5
    <2>6. CASE c = "query" /\ e \in E!Of("Record", {"CorruptState", "CommitUnavailable"})
      BY <1>1, <2>6
    <2>7. CASE c = "query" /\ e \in E!Of("Query", E!QueryError.own)
      <3>1. E!QueryError.own = {"InvalidQuery", "NotImplemented"}
        BY DEF E!QueryError
      <3> QED BY <1>1, <2>7, <3>1
    <2>8. CASE c = "query" /\ e = <<"Term", "request">>
      BY Zenon, <2>8
    <2>9. CASE c # "query" /\ e \in E!Of("Branch", E!BranchError.own)
      BY <1>1, <1>3, <2>9 DEF Calls
    <2>10. CASE c = "record" /\ e \in E!Of("Record", E!RecordError.own)
      BY <1>1, <2>10
    <2> QED BY Zenon, <2>1, <2>2, <2>3, <2>4, <2>5, <2>6, <2>7, <2>8, <2>9, <2>10
  <1> QED BY Zenon, <1>2, <1>3

BranchConditions == {"HandleInvalid", "Conflict", "Sealed", "NoFrameToRollback"}
RecordConditions ==
    {"NotFound", "AlreadyExists", "Reserved", "InvalidArgument", "CommitUnavailable"}

Condition(t, v) ==
    \/ t = "Branch" /\ v \in BranchConditions
    \/ t = "Record" /\ v \in RecordConditions
    \/ t = "Query" /\ v \in {"InvalidQuery", "NotImplemented"}

IsFull(t, v) == (t = "Storage" /\ v = "Full") \/ (t = "Mdbx" /\ v = "MapFull")

Refusal(t, v) == t \in {"Term", "CellName", "CellValue"} /\ v = "request"

LEMMA MeaningIs ==
    ASSUME NEW t, NEW v
    PROVE  /\ IsFull(t, v) => E!Meaning(<<t, v>>) = "StoreFull"
           /\ Condition(t, v) => E!Meaning(<<t, v>>) = v
           /\ Refusal(t, v) => E!Meaning(<<t, v>>) = "InvalidArgument"
           /\ ~IsFull(t, v) /\ ~Condition(t, v) /\ ~Refusal(t, v) =>
                 E!Meaning(<<t, v>>) = "Internal"
  <1> DEFINE e == <<t, v>>
  <1>1. e \in E!Full <=> IsFull(t, v)
    BY DEF E!Full, IsFull
  <1>2. e \in E!Conditions <=> Condition(t, v)
    BY DEF E!Conditions, E!Of, Condition, BranchConditions, RecordConditions
  <1>3. e \in E!Request <=> Refusal(t, v)
    BY DEF E!Request, Refusal
  <1>4. e[2] = v
    OBVIOUS
  <1>5. /\ Condition(t, v) => ~IsFull(t, v) /\ ~Refusal(t, v)
        /\ IsFull(t, v) => ~Refusal(t, v)
    BY DEF IsFull, Condition, Refusal
  <1> HIDE DEF e
  <1>6. E!Meaning(e) = CASE e \in E!Full       -> "StoreFull"
                         [] e \in E!Conditions -> e[2]
                         [] e \in E!Request    -> "InvalidArgument"
                         [] OTHER              -> "Internal"
    BY DEF E!Meaning
  <1> QED BY <1>1, <1>2, <1>3, <1>4, <1>5, <1>6, Zenon DEF e

LEMMA BaseIs ==
    ASSUME NEW t, NEW v
    PROVE  /\ t # "Mdbx" => Base(<<t, v>>) = <<t, v>>
           /\ t = "Mdbx" /\ v \in {"MapFull", "KeyExist", "Other"} =>
                 /\ Base(<<t, v>>) = <<"Storage", E!Backend(v)>>
                 /\ E!Backend(v) = "Full" <=> v = "MapFull"
  <1>1. E!Backend("MapFull") = "Full" /\ E!Backend("KeyExist") # "Full" /\ E!Backend("Other") # "Full"
    BY Zenon DEF E!Backend
  <1> QED BY Zenon, <1>1 DEF Base

(* What an error becomes that is not a condition of its own. *)
Inner(base) == IF base = <<"Storage", "Full">> THEN "StoreFull" ELSE "Internal"

LEMMA TailChained ==
    ASSUME NEW e, NEW base, Chained(e, base), Len(e) # 1
    PROVE  Chained(Tail(e), base) /\ Tail(e)[1] = e[2] /\ 1 \in 1..(Len(e) - 1) /\ 2 \in 1..Len(e)
  <1>1. PICK S : e \in Seq(S)
    BY DEF Chained
  <1>2. Len(e) \in Nat /\ Len(e) >= 2
    <2>1. Len(e) \in Nat /\ Len(e) >= 1
      BY Zenon, ChainFacts
    <2> QED BY Zenon, <2>1, AboveOne
  <1> DEFINE r == Tail(e)
             n == Len(e)
  <1>3. /\ r \in Seq(S) /\ Len(r) = n - 1 /\ \A i \in 1..(n - 1) : r[i] = e[i + 1]
    BY <1>1, <1>2
  <1>4. \E T : r \in Seq(T)
    BY <1>3
  <1>5. /\ e[n] = base /\ \A i \in 1..n : e[i] = <<e[i][1], e[i][2]>>
        /\ \A i \in 1..(n - 1) : Wrapper(e[i], e[i + 1], base)
    BY Zenon DEF Chained
  <1> HIDE DEF r, n
  <1>6. n \in Nat /\ n >= 2
    BY <1>2 DEF n
  <1>7. Len(r) >= 1 /\ r[Len(r)] = base
    BY <1>3, <1>5, <1>6
  <1>8. ASSUME NEW i \in 1..Len(r) PROVE r[i] = <<r[i][1], r[i][2]>>
    <2>1. i \in 1..(n - 1) /\ i + 1 \in 1..n
      BY <1>3, <1>6
    <2>2. r[i] = e[i + 1]
      BY <1>3, <2>1
    <2> QED BY Zenon, <1>5, <2>1, <2>2
  <1>9. ASSUME NEW i \in 1..(Len(r) - 1) PROVE Wrapper(r[i], r[i + 1], base)
    <2>1. i \in 1..(n - 1) /\ i + 1 \in 1..(n - 1)
      BY <1>3, <1>6
    <2>2. r[i] = e[i + 1] /\ r[i + 1] = e[(i + 1) + 1]
      BY Zenon, <1>3, <2>1
    <2> QED BY Zenon, <1>5, <2>1, <2>2
  <1>10. r[1] = e[2] /\ 1 \in 1..(n - 1) /\ 2 \in 1..n
    BY <1>3, <1>6
  <1> QED BY Zenon, <1>4, <1>7, <1>8, <1>9, <1>10 DEF Chained, r, n

LEMMA InternalAnswer ==
    ASSUME NEW e, NEW base, Chained(e, base), e[1][1] # "Query"
    PROVE  E!Internal(e) = Inner(base)
  BY StoreFullFindsBase DEF E!Internal, Inner

(* A chain whose first type is that of its base is the base alone. *)
LEMMA Alone ==
    ASSUME NEW e, NEW base, Chained(e, base), e[1][1] = base[1]
    PROVE  Len(e) = 1 /\ e[1] = base
  <1>1. Len(e) \in Nat /\ Len(e) >= 1 /\ e[Len(e)] = base
    BY Zenon, ChainFacts
  <1>2. ASSUME Len(e) # 1 PROVE FALSE
    <2>1. 1 \in 1..(Len(e) - 1)
      BY <1>1, <1>2
    <2>2. Rank(e[1][1]) > Rank(base[1])
      BY Zenon, <2>1, ChainFacts
    <2>3. Rank(base[1]) \in Nat
      BY RankNat
    <2> QED BY <2>2, <2>3
  <1> QED BY <1>1, <1>2

LEMMA Wrapped ==
    ASSUME NEW e, NEW base, Chained(e, base), e[1][1] # base[1]
    PROVE  /\ Len(e) # 1 /\ e[1][1] \in Wrappers
           /\ <<e[2][1], e[1][2]>> \in E!Wraps(e[1][1])
  <1>1. Len(e) \in Nat /\ Len(e) >= 1 /\ e[Len(e)] = base
    BY Zenon, ChainFacts
  <1>2. Len(e) # 1
    BY <1>1
  <1>3. 1 \in 1..(Len(e) - 1) /\ 1 + 1 = 2
    BY <1>1, <1>2
  <1>4. e[1][1] \in Wrappers /\ <<e[1 + 1][1], e[1][2]>> \in E!Wraps(e[1][1])
    BY Zenon, <1>3, ChainFacts
  <1> QED BY Zenon, <1>2, <1>3, <1>4

LEMMA BranchAnswer ==
    ASSUME NEW e, NEW base, Chained(e, base), e[1][1] = "Branch"
    PROVE  E!ApiOfBranch(e) =
              IF base[1] = "Branch" /\ base[2] \in BranchConditions THEN base[2] ELSE Inner(base)
  <1>1. E!Internal(e) = Inner(base)
    BY Zenon, InternalAnswer
  <1>2. E!ApiOfBranch(e) = IF e[1][2] \in BranchConditions THEN e[1][2] ELSE E!Internal(e)
    BY DEF E!ApiOfBranch, BranchConditions
  <1>3. CASE base[1] = "Branch"
    <2>1. e[1] = base
      BY <1>3, Alone
    <2> QED BY Zenon, <1>1, <1>2, <1>3, <2>1
  <1>4. CASE base[1] # "Branch"
    <2>1. e[1][1] \in Wrappers /\ <<e[2][1], e[1][2]>> \in E!Wraps(e[1][1])
      BY Zenon, <1>4, Wrapped
    <2>2. e[1][2] \notin BranchConditions
      BY Zenon, <2>1, WrapsAre DEF BranchConditions
    <2> QED BY Zenon, <1>1, <1>2, <1>4, <2>2
  <1> QED BY Zenon, <1>3, <1>4

LEMMA RecordAnswer ==
    ASSUME NEW e, NEW base, Chained(e, base), e[1][1] = "Record",
           base[1] = "Record" => base[2] # "Branch"
    PROVE  E!ApiOfRecord(e) =
              IF \/ base[1] = "Record" /\ base[2] \in RecordConditions
                 \/ base[1] = "Branch" /\ base[2] \in BranchConditions
              THEN base[2] ELSE Inner(base)
  <1>1. E!Internal(e) = Inner(base)
    BY InternalAnswer
  <1>2. E!ApiOfRecord(e) = IF e[1][2] \in RecordConditions THEN e[1][2]
                           ELSE IF e[1][2] = "Branch" THEN E!ApiOfBranch(Tail(e))
                           ELSE E!Internal(e)
    BY Zenon DEF E!ApiOfRecord, RecordConditions
  <1>3. CASE base[1] = "Record"
    <2>1. e[1] = base
      BY <1>3, Alone
    <2> QED BY Zenon, <1>1, <1>2, <1>3, <2>1
  <1>4. CASE base[1] # "Record"
    <2>1. /\ Len(e) # 1 /\ e[1][1] \in Wrappers /\ <<e[2][1], e[1][2]>> \in E!Wraps(e[1][1])
      BY Zenon, <1>4, Wrapped
    <2>2. e[1][2] \in {"Storage", "Cells", "Branch"} /\ e[2][1] = e[1][2]
      BY Zenon, <2>1, WrapsAre
    <2>3. e[1][2] \notin RecordConditions
      BY <2>2 DEF RecordConditions
    <2>4. Chained(Tail(e), base) /\ Tail(e)[1] = e[2]
      BY Zenon, <2>1, TailChained
    <2>5. CASE e[1][2] = "Branch"
      <3>1. E!ApiOfBranch(Tail(e)) =
              IF base[1] = "Branch" /\ base[2] \in BranchConditions THEN base[2] ELSE Inner(base)
        BY Zenon, <2>2, <2>4, <2>5, BranchAnswer
      <3> QED BY Zenon, <1>2, <1>4, <2>3, <2>5, <3>1
    <2>6. CASE e[1][2] # "Branch"
      <3>1. base[1] # "Branch"
        <4>1. ASSUME base[1] = "Branch" PROVE FALSE
          <5>1. Tail(e)[1][1] # base[1] /\ Tail(e)[1][1] \in {"Storage", "Cells"}
            BY Zenon, <2>2, <2>4, <2>6, <4>1
          <5> DEFINE r == Tail(e)
          <5>2. r[1][1] \in Wrappers /\ Len(r) # 1
            BY Zenon, <2>4, <5>1, Wrapped
          <5>3. Len(r) \in Nat /\ Len(r) >= 1
            BY Zenon, <2>4, ChainFacts
          <5>4. 1 \in 1..(Len(r) - 1)
            BY Zenon, <5>2, <5>3, AboveOne
          <5>5. Rank(r[1][1]) > Rank(base[1])
            BY Zenon, <2>4, <5>4, ChainFacts
          <5>6. r[1][1] = "Cells"
            BY Zenon, <5>1, <5>2 DEF Wrappers
          <5>7. Rank("Cells") = 2 /\ Rank("Branch") = 3
            BY Zenon DEF Rank
          <5> HIDE DEF r
          <5> QED BY <4>1, <5>5, <5>6, <5>7
        <4> QED BY Zenon, <4>1
      <3> QED BY Zenon, <1>1, <1>2, <1>4, <2>3, <2>6, <3>1
    <2> QED BY Zenon, <2>5, <2>6
  <1> QED BY Zenon, <1>3, <1>4

LEMMA QueryAnswer ==
    ASSUME NEW e, NEW base, Chained(e, base), e[1][1] = "Query",
           base[1] = "Query" => base[2] # "Internal"
    PROVE  E!ApiOfQuery(e) = IF base[1] = "Query" THEN base[2] ELSE Inner(base)
  <1>1. CASE base[1] = "Query"
    <2>1. e[1] = base
      BY Zenon, <1>1, Alone
    <2> QED BY Zenon, <1>1, <2>1 DEF E!ApiOfQuery
  <1>2. CASE base[1] # "Query"
    <2>1. /\ Len(e) # 1 /\ e[1][1] \in Wrappers /\ <<e[2][1], e[1][2]>> \in E!Wraps(e[1][1])
      BY Zenon, <1>2, Wrapped
    <2>2. e[1][2] = "Internal" /\ e[2][1] # "Query"
      BY Zenon, <2>1, WrapsAre
    <2>3. Chained(Tail(e), base) /\ Tail(e)[1] = e[2]
      BY Zenon, <2>1, TailChained
    <2>4. E!Internal(Tail(e)) = Inner(base)
      BY Zenon, <2>2, <2>3, InternalAnswer
    <2> QED BY Zenon, <1>2, <2>2, <2>4 DEF E!ApiOfQuery
  <1> QED BY Zenon, <1>1, <1>2

LEMMA RaiseKeeps ==
    ASSUME NEW c \in Calls, E!Raise(c)
    PROVE  EInv'
  <1>1. PICK e \in E!Raises(c) : /\ raised' = e
                                 /\ error' = <<IF e[1] = "Mdbx" THEN <<"Storage", E!Backend(e[2])>> ELSE e>>
    BY Zenon DEF E!Raise
  <1>2. call' = c /\ answer' = None
    BY DEF E!Raise
  <1>3. error' = <<Base(e)>>
    BY <1>1 DEF Base
  <1>4. PICK t, v : e = <<t, v>>
    BY RaisedAre
  <1>5. \E a, b : Base(e) = <<a, b>>
    BY <1>4 DEF Base
  <1>6. Base(e) = <<Base(e)[1], Base(e)[2]>>
    BY <1>5
  <1> DEFINE base == Base(e)
  <1>7. base = <<base[1], base[2]>>
    BY <1>6
  <1> HIDE DEF base
  <1>8. /\ <<base>> \in Seq({base}) /\ Len(<<base>>) = 1 /\ <<base>>[1] = base
    OBVIOUS
  <1>9. Chained(<<base>>, base)
    <2>1. \E S : <<base>> \in Seq(S)
      BY Zenon, <1>8
    <2>2. \A i \in 1..1 : i = 1
      OBVIOUS
    <2>3. \A i \in 1..Len(<<base>>) : <<base>>[i] = <<<<base>>[i][1], <<base>>[i][2]>>
      BY <1>7, <1>8, <2>2
    <2> HIDE <1>7
    <2>4. 1..(1 - 1) = {}
      OBVIOUS
    <2> QED BY <1>8, <2>1, <2>3, <2>4 DEF Chained
  <1>10. Chained(error', Base(raised')) /\ Len(error') = 1
    BY Zenon, <1>1, <1>3, <1>8, <1>9 DEF base
  <1>11. Carried'
    BY <1>10 DEF Carried
  <1>12. E!MeaningsKept'
    BY <1>2 DEF E!MeaningsKept
  <1> QED BY <1>1, <1>2, <1>11, <1>12 DEF EInv

(* One wrapper more. *)
LEMMA ChainGrows ==
    ASSUME NEW e, NEW base, Chained(e, base), NEW o \in Wrappers, NEW v,
           <<e[1][1], v>> \in E!Wraps(o)
    PROVE  Chained(<<<<o, v>>>> \o e, base)
  <1> DEFINE top == <<o, v>>
             r == <<top>> \o e
             n == Len(e)
  <1>1. PICK S : e \in Seq(S)
    BY Zenon DEF Chained
  <1>2. n \in Nat /\ n >= 1
    BY Zenon, ChainFacts
  <1>3. top[1] = o /\ top[2] = v /\ top = <<top[1], top[2]>>
    BY Zenon
  <1> HIDE DEF top
  <1>4. e \in Seq(S \cup {top}) /\ <<top>> \in Seq(S \cup {top})
    BY <1>1
  <1>5. /\ r \in Seq(S \cup {top}) /\ Len(r) = n + 1 /\ r[1] = top
        /\ \A i \in 2..(n + 1) : r[i] = e[i - 1]
    BY <1>2, <1>4
  <1>6. \E T : r \in Seq(T)
    BY Zenon, <1>5
  <1>7. /\ e[n] = base /\ \A i \in 1..n : e[i] = <<e[i][1], e[i][2]>>
        /\ \A i \in 1..(n - 1) : Wrapper(e[i], e[i + 1], base)
    BY Zenon DEF Chained
  <1>8. Rank(o) > Rank(base[1])
    <2>1. Rank(o) > Rank(e[1][1]) /\ Rank(o) \in Nat /\ Rank(e[1][1]) \in Nat /\ Rank(base[1]) \in Nat
      BY Zenon, RanksRise, RankNat
    <2>2. CASE n = 1
      BY Zenon, <1>7, <2>1, <2>2
    <2>3. CASE n # 1
      <3>1. 1 \in 1..(n - 1)
        BY Zenon, <1>2, <2>3, AboveOne
      <3>2. Rank(e[1][1]) > Rank(base[1])
        BY Zenon, <1>7, <3>1 DEF Wrapper
      <3> QED BY <2>1, <3>2
    <2> QED BY Zenon, <2>2, <2>3
  <1> HIDE DEF r, n
  <1>9. Len(r) >= 1 /\ r[Len(r)] = base
    <2>1. n + 1 \in 2..(n + 1) /\ (n + 1) - 1 = n
      BY <1>2
    <2>2. r[n + 1] = e[n]
      BY Zenon, <1>5, <2>1
    <2> QED BY <1>2, <1>5, <1>7, <2>2
  <1>10. ASSUME NEW i \in 1..Len(r) PROVE r[i] = <<r[i][1], r[i][2]>>
    <2>1. CASE i = 1
      BY Zenon, <1>3, <1>5, <2>1
    <2>2. CASE i # 1
      <3>1. i \in 2..(n + 1) /\ i - 1 \in 1..n
        BY <1>2, <1>5, <2>2
      <3>2. r[i] = e[i - 1]
        BY Zenon, <1>5, <3>1
      <3> QED BY Zenon, <1>7, <3>1, <3>2
    <2> QED BY Zenon, <2>1, <2>2
  <1>11. ASSUME NEW i \in 1..(Len(r) - 1) PROVE Wrapper(r[i], r[i + 1], base)
    <2>1. CASE i = 1
      <3>1. 2 \in 2..(n + 1) /\ i + 1 = 2 /\ 2 - 1 = 1
        BY <1>2, <2>1
      <3>2. r[i] = top /\ r[i + 1] = e[1]
        BY Zenon, <1>5, <2>1, <3>1
      <3>3. top[1] \in Wrappers /\ <<e[1][1], top[2]>> \in E!Wraps(top[1]) /\ Rank(top[1]) > Rank(base[1])
        BY Zenon, <1>3, <1>8
      <3> QED BY Zenon, <3>2, <3>3 DEF Wrapper
    <2>2. CASE i # 1
      <3>1. /\ i \in 2..(n + 1) /\ i + 1 \in 2..(n + 1) /\ i - 1 \in 1..(n - 1)
            /\ (i + 1) - 1 = (i - 1) + 1
        BY <1>2, <1>5, <2>2
      <3>2. r[i] = e[i - 1] /\ r[i + 1] = e[(i - 1) + 1]
        BY <1>5, <3>1
      <3> QED BY Zenon, <1>7, <3>1, <3>2
    <2> QED BY Zenon, <2>1, <2>2
  <1> QED BY Zenon, <1>6, <1>9, <1>10, <1>11 DEF Chained, r, top

LEMMA ConvertKeeps ==
    ASSUME EInv, NEW o \in Wrappers, E!Convert(o)
    PROVE  EInv'
  <1>1. answer = None /\ error # <<>> /\ error[1] \notin E!Request /\ o \in E!Layers(call)
    BY Zenon DEF E!Convert
  <1>2. UNCHANGED <<call, raised, answer>>
    BY Zenon DEF E!Convert
  <1>3. PICK w \in E!Wraps(o) :
           /\ w[1] = error[1][1]
           /\ error' = IF o = "Query" THEN E!ToQuery(error) ELSE <<<<o, w[2]>>>> \o error
    BY Zenon DEF E!Convert
  <1>4. w = <<w[1], w[2]>>
    BY DEF Wrappers, E!Wraps, E!MerkleError, E!CellError, E!IndexError, E!BranchError, E!RecordError,
           E!QueryError
  <1>5. <<error[1][1], w[2]>> \in E!Wraps(o)
    BY Zenon, <1>3, <1>4
  <1>6. call \in Calls /\ raised \in E!Raises(call) /\ Carried
    BY Zenon, <1>1 DEF EInv
  <1>7. error[1][1] # "Query"
    BY Zenon, <1>5, WrapsAre
  <1>8. Chained(error, Base(raised))
        /\ (Base(raised) \in E!Request \/ (call = "query" /\ raised = Unavailable) => Len(error) = 1)
    BY <1>6, <1>7 DEF Carried
  <1>9. o = "Query" => call = "query"
    BY <1>1, <1>6 DEF E!Layers, Calls
  <1>10. Len(error) = 1 => error[1] = Base(raised)
    BY Zenon, <1>8, ChainFacts
  <1>11. Base(raised) \notin E!Request
    BY Zenon, <1>1, <1>8, <1>10
  <1>12. PICK t, v : raised = <<t, v>>
    BY <1>6, RaisedAre
  <1>13. Base(raised) = Unavailable <=> raised = Unavailable
    BY <1>12 DEF Base, Unavailable
  <1>14. error[1] = Unavailable => Len(error) = 1 /\ raised = Unavailable
    <2>1. ASSUME error[1] = Unavailable, Base(raised)[1] # "Record" PROVE FALSE
      <3>1. error[1][1] = "Record" /\ error[1][2] = "CommitUnavailable"
        BY <2>1 DEF Unavailable
      <3>2. <<error[2][1], error[1][2]>> \in E!Wraps("Record")
        BY Zenon, <1>8, <2>1, <3>1, Wrapped
      <3>3. "Record" \in Wrappers
        BY DEF Wrappers
      <3> QED BY Zenon, <3>1, <3>2, <3>3, WrapsAre
    <2>2. ASSUME error[1] = Unavailable PROVE Len(error) = 1 /\ raised = Unavailable
      <3>1. error[1][1] = Base(raised)[1]
        BY <2>1, <2>2 DEF Unavailable
      <3>2. Len(error) = 1 /\ error[1] = Base(raised)
        BY Zenon, <1>8, <3>1, Alone
      <3> QED BY <1>13, <2>2, <3>2
    <2> QED BY <2>2
  <1>15. CASE o = "Query" /\ error[1] = Unavailable
    <2>1. error' = <<<<"Query", "CommitUnavailable">>>>
      BY Zenon, <1>3, <1>15 DEF E!ToQuery, Unavailable
    <2>2. Carried'
      BY Zenon, <1>2, <1>9, <1>14, <1>15, <2>1 DEF Carried
    <2> QED BY Zenon, <1>1, <1>2, <1>6, <2>2 DEF EInv, E!MeaningsKept
  <1>16. CASE ~(o = "Query" /\ error[1] = Unavailable)
    <2>1. error' = <<<<o, w[2]>>>> \o error
      <3>1. CASE o = "Query"
        <4>1. w[2] = "Internal"
          BY <1>5, <3>1, WrapsAre
        <4>2. E!ToQuery(error) = <<<<"Query", "Internal">>>> \o error
          BY <1>16, <3>1 DEF E!ToQuery, Unavailable
        <4> QED BY <1>3, <3>1, <4>1, <4>2
      <3>2. CASE o # "Query"
        BY <1>3, <3>2
      <3> QED BY Zenon, <3>1, <3>2
    <2>2. Chained(error', Base(raised))
      BY Zenon, <1>5, <1>8, <2>1, ChainGrows
    <2>3. ~(call = "query" /\ raised = Unavailable)
      <3>1. ASSUME call = "query", raised = Unavailable PROVE FALSE
        <4>1. error[1] = Unavailable
          BY Zenon, <1>8, <1>10, <1>13, <3>1
        <4>2. error[1][1] = "Record"
          BY <4>1 DEF Unavailable
        <4>3. o = "Query"
          BY Zenon, <1>5, <4>2, WrapsAre
        <4> QED BY <1>16, <4>1, <4>3
      <3> QED BY <3>1
    <2>4. Carried'
      BY Zenon, <1>2, <1>11, <2>2, <2>3 DEF Carried
    <2> QED BY Zenon, <1>1, <1>2, <1>6, <2>4 DEF EInv, E!MeaningsKept
  <1> QED BY <1>15, <1>16

LEMMA RefuseKeeps ==
    ASSUME EInv, E!RefuseFilter
    PROVE  EInv'
  <1>1. answer = None /\ error = <<Unindexable>> /\ UNCHANGED <<call, raised, answer>>
    BY DEF E!RefuseFilter, Unindexable
  <1>2. error' = <<<<"Query", "InvalidArgument">>, Unindexable>>
    <2>1. error' = <<<<"Query", "InvalidArgument">>>> \o error
      BY DEF E!RefuseFilter
    <2>2. \A a, b : <<a>> \o <<b>> = <<a, b>>
      <3> TAKE a, b
      <3>1. <<a>> \in Seq({a, b}) /\ <<b>> \in Seq({a, b}) /\ <<a, b>> \in Seq({a, b})
        OBVIOUS
      <3>2. /\ <<a>> \o <<b>> \in Seq({a, b}) /\ Len(<<a>> \o <<b>>) = 2
            /\ (<<a>> \o <<b>>)[1] = a /\ (<<a>> \o <<b>>)[2] = b
        BY <3>1
      <3> DEFINE s == <<a>> \o <<b>>
                 u == <<a, b>>
      <3>3. /\ s \in Seq({a, b}) /\ Len(s) = 2 /\ s[1] = a /\ s[2] = b
            /\ u \in Seq({a, b}) /\ Len(u) = 2 /\ u[1] = a /\ u[2] = b
        BY Zenon, <3>1, <3>2
      <3> HIDE DEF s, u
      <3>4. \A i \in 1..2 : s[i] = u[i]
        <4>1. \A i \in 1..2 : i = 1 \/ i = 2
          OBVIOUS
        <4> QED BY Zenon, <3>3, <4>1
      <3>5. s = u
        BY <3>3, <3>4
      <3> QED BY <3>5 DEF s, u
    <2> QED BY <1>1, <2>1, <2>2
  <1>3. error[1] = Unindexable /\ Len(error) = 1 /\ error # <<>>
    BY <1>1
  <1>4. call \in Calls /\ raised \in E!Raises(call) /\ Carried
    BY <1>3 DEF EInv
  <1>5. error[1][1] = "Term"
    BY <1>3 DEF Unindexable
  <1>6. Chained(error, Base(raised))
    <2>1. error # <<<<"Query", "CommitUnavailable">>>>
      BY <1>5
    <2>2. error # <<<<"Query", "InvalidArgument">>, Unindexable>>
      BY <1>5
    <2> QED BY Zenon, <1>4, <2>1, <2>2 DEF Carried
  <1>7. Base(raised) = Unindexable
    BY Zenon, <1>3, <1>6, ChainFacts
  <1>8. PICK t, v :
           /\ raised = <<t, v>>
           /\ \/ call = "build" /\ t \in {"CellName", "CellValue"} /\ v = "request"
              \/ call = "query"
              \/ t = "Mdbx"
              \/ v = "stored"
              \/ t \in {"Storage", "Merkle", "Cells", "Index", "Branch", "Record"}
    BY <1>4, RaisedAre
  <1>9. raised = Unindexable /\ t = "Term" /\ v = "request"
    BY Zenon, <1>7, <1>8 DEF Base, Unindexable
  <1>10. call = "query"
    BY <1>8, <1>9
  <1>11. Carried'
    BY Zenon, <1>1, <1>2, <1>9, <1>10 DEF Carried
  <1> QED BY Zenon, <1>1, <1>4, <1>11 DEF EInv, E!MeaningsKept

(* The answer to an error that arrives, for each kind of call. *)
LEMMA AnswerFits ==
    ASSUME EInv, E!Answer
    PROVE  answer' = E!Meaning(raised)
  <1>1. error # <<>> /\ call \in Calls /\ raised \in E!Raises(call) /\ Carried
    BY Zenon DEF E!Answer, EInv
  <1> DEFINE base == Base(raised)
  <1>2. PICK t, v :
           /\ raised = <<t, v>>
           /\ \/ call = "build" /\ t \in {"CellName", "CellValue"} /\ v = "request"
              \/ call = "query" /\ t = "Term" /\ v = "request"
              \/ t = "Mdbx" /\ v \in {"MapFull", "KeyExist", "Other"}
              \/ t \in {"Term", "CellKey", "CellValue", "Bitmap"} /\ v = "stored"
              \/ t \in {"Storage", "Merkle", "Cells", "Index"}
              \/ call = "query" /\ t = "Branch" /\ v \in {"MissingHead", "InvalidHead"}
              \/ call = "query" /\ t = "Record" /\ v \in {"CorruptState", "CommitUnavailable"}
              \/ call = "query" /\ t = "Query" /\ v \in {"InvalidQuery", "NotImplemented"}
              \/ call \in {"branch", "record"} /\ t = "Branch" /\ v \in E!BranchError.own
              \/ call = "record" /\ t = "Record" /\ v \in E!RecordError.own
    BY <1>1, RaisedAre
  <1>3. raised[1] = t /\ raised[2] = v
    BY Zenon, <1>2
  <1>4. /\ t # "Mdbx" => base = <<t, v>> /\ base[1] = t /\ base[2] = v
        /\ t = "Mdbx" => base[1] = "Storage"
        /\ base = <<"Storage", "Full">> <=> IsFull(t, v)
    BY <1>2, BaseIs DEF IsFull
  <1>5. /\ IsFull(t, v) => E!Meaning(raised) = "StoreFull"
        /\ Condition(t, v) => E!Meaning(raised) = v
        /\ Refusal(t, v) => E!Meaning(raised) = "InvalidArgument"
        /\ ~IsFull(t, v) /\ ~Condition(t, v) /\ ~Refusal(t, v) => E!Meaning(raised) = "Internal"
    BY Zenon, <1>2, MeaningIs
  <1>6. Inner(base) = IF IsFull(t, v) THEN "StoreFull" ELSE "Internal"
    BY Zenon, <1>4 DEF Inner
  <1>7. "Branch" \notin E!RecordError.own
    BY Zenon DEF E!RecordError
  <1> HIDE DEF base
  <1>8. CASE call = "build"
    <2>1. answer' = "InvalidArgument"
      BY Zenon, <1>8 DEF E!Answer
    <2>2. t \in {"CellName", "CellValue"} /\ v = "request"
      <3>1. raised \in {<<"CellName", "request">>, <<"CellValue", "request">>}
        BY Zenon, <1>1, <1>8 DEF E!Raises
      <3> QED BY Zenon, <1>2, <3>1
    <2>3. Refusal(t, v)
      BY <2>2 DEF Refusal
    <2> QED BY Zenon, <1>5, <2>1, <2>3
  <1>9. CASE call = "branch"
    <2>1. error[1][1] = "Branch" /\ answer' = E!ApiOfBranch(error)
      BY Zenon, <1>9 DEF E!Answer
    <2>2. Chained(error, base)
      BY Zenon, <1>1, <1>9 DEF Carried, base
    <2>3. answer' = IF base[1] = "Branch" /\ base[2] \in BranchConditions THEN base[2] ELSE Inner(base)
      BY Zenon, <2>1, <2>2, BranchAnswer
    <2>4. /\ ~Refusal(t, v) /\ t \notin {"Record", "Query"}
      <3>1. \/ t = "Mdbx" \/ v = "stored" \/ t \in {"Storage", "Merkle", "Cells", "Index", "Branch"}
        BY Zenon, <1>2, <1>9
      <3>2. /\ t \notin {"Record", "Query"}
        BY Zenon, <1>2, <1>9
      <3> QED BY <3>1, <3>2 DEF Refusal
    <2>5. Condition(t, v) <=> base[1] = "Branch" /\ base[2] \in BranchConditions
      BY Zenon, <1>4, <2>4 DEF Condition
    <2>6. Condition(t, v) => base[2] = v
      BY Zenon, <1>4, <2>5
    <2> QED BY Zenon, <1>5, <1>6, <2>3, <2>4, <2>5, <2>6
  <1>10. CASE call = "record"
    <2>1. error[1][1] = "Record" /\ answer' = E!ApiOfRecord(error)
      BY Zenon, <1>10 DEF E!Answer
    <2>2. Chained(error, base)
      BY Zenon, <1>1, <1>10 DEF Carried, base
    <2>3. base[1] = "Record" => base[2] # "Branch"
      BY Zenon, <1>2, <1>4, <1>7, <1>10
    <2>4. answer' = IF \/ base[1] = "Record" /\ base[2] \in RecordConditions
                       \/ base[1] = "Branch" /\ base[2] \in BranchConditions
                    THEN base[2] ELSE Inner(base)
      BY Zenon, <2>1, <2>2, <2>3, RecordAnswer
    <2>5. ~Refusal(t, v) /\ t # "Query"
      <3>1. \/ t = "Mdbx" \/ v = "stored"
            \/ t \in {"Storage", "Merkle", "Cells", "Index", "Branch", "Record"}
        BY Zenon, <1>2, <1>10
      <3>2. t # "Query"
        BY Zenon, <1>2, <1>10
      <3> QED BY <3>1, <3>2 DEF Refusal
    <2>6. Condition(t, v) <=> \/ base[1] = "Record" /\ base[2] \in RecordConditions
                              \/ base[1] = "Branch" /\ base[2] \in BranchConditions
      BY Zenon, <1>4, <2>5 DEF Condition
    <2>7. Condition(t, v) => base[2] = v
      BY Zenon, <1>4, <2>6
    <2> QED BY Zenon, <1>5, <1>6, <2>4, <2>5, <2>6, <2>7
  <1>11. CASE call = "query"
    <2>1. error[1][1] = "Query" /\ answer' = E!ApiOfQuery(error)
      BY Zenon, <1>11 DEF E!Answer
    <2>2. CASE raised = Unavailable /\ error = <<<<"Query", "CommitUnavailable">>>>
      <3>1. answer' = "CommitUnavailable"
        BY Zenon, <2>1, <2>2 DEF E!ApiOfQuery
      <3>2. t = "Record" /\ v = "CommitUnavailable"
        BY <1>3, <2>2 DEF Unavailable
      <3>3. Condition(t, v)
        BY <3>2 DEF Condition, RecordConditions
      <3> QED BY Zenon, <1>5, <3>1, <3>2, <3>3
    <2>3. CASE raised = Unindexable /\ error = <<<<"Query", "InvalidArgument">>, Unindexable>>
      <3>1. answer' = "InvalidArgument"
        BY Zenon, <2>1, <2>3 DEF E!ApiOfQuery
      <3>2. t = "Term" /\ v = "request"
        BY <1>3, <2>3 DEF Unindexable
      <3>3. Refusal(t, v)
        BY <3>2 DEF Refusal
      <3> QED BY Zenon, <1>5, <3>1, <3>3
    <2>4. CASE /\ Chained(error, base)
               /\ base \in E!Request \/ raised = Unavailable => Len(error) = 1
      <3>1. base[1] = "Query" => base[2] \in {"InvalidQuery", "NotImplemented"}
        BY Zenon, <1>2, <1>4, <1>11
      <3>2. answer' = IF base[1] = "Query" THEN base[2] ELSE Inner(base)
        BY Zenon, <2>1, <2>4, <3>1, QueryAnswer
      <3>3. CASE base[1] = "Query"
        <4>1. t = "Query" /\ base[2] = v /\ v \in {"InvalidQuery", "NotImplemented"}
          BY <1>4, <3>1, <3>3
        <4>2. Condition(t, v)
          BY <4>1 DEF Condition
        <4> QED BY Zenon, <1>5, <3>2, <3>3, <4>1, <4>2
      <3>4. CASE base[1] # "Query"
        <4>1. Len(error) # 1
          BY Zenon, <2>1, <2>4, <3>4, Wrapped
        <4>2. base \notin E!Request /\ raised # Unavailable
          BY <2>4, <4>1
        <4>3. t # "Query" /\ ~(t = "Record" /\ v = "CommitUnavailable")
          BY Zenon, <1>2, <1>4, <3>4, <4>2 DEF Unavailable
        <4>4. ~Refusal(t, v)
          <5>1. ASSUME Refusal(t, v) PROVE FALSE
            <6>1. base = <<t, v>> /\ <<t, v>> \in E!Request
              BY <1>4, <5>1 DEF Refusal, E!Request
            <6> QED BY <4>2, <6>1
          <5> QED BY <5>1
        <4>5. ~Condition(t, v)
          BY Zenon, <1>2, <1>11, <4>3 DEF Condition, BranchConditions, RecordConditions
        <4> QED BY Zenon, <1>5, <1>6, <3>2, <3>4, <4>4, <4>5
      <3> QED BY <3>3, <3>4
    <2> QED BY Zenon, <1>1, <1>11, <2>2, <2>3, <2>4 DEF Carried, base
  <1> QED BY Zenon, <1>1, <1>8, <1>9, <1>10, <1>11 DEF Calls

LEMMA AnswerKeeps ==
    ASSUME EInv, E!Answer
    PROVE  EInv'
  <1>1. UNCHANGED <<call, raised, error>> /\ error # <<>>
    BY Zenon DEF E!Answer
  <1>2. answer' = E!Meaning(raised)
    BY AnswerFits
  <1>3. E!MeaningsKept'
    BY <1>1, <1>2 DEF E!MeaningsKept, E!Meaning
  <1>4. call \in Calls /\ raised \in E!Raises(call) /\ Carried
    BY <1>1 DEF EInv
  <1> QED BY Zenon, <1>1, <1>3, <1>4 DEF EInv, Carried

LEMMA EInvStep == EInv /\ [E!Next]_errorVars => EInv'
  <1> SUFFICES ASSUME EInv, [E!Next]_errorVars PROVE EInv'
    OBVIOUS
  <1>1. CASE UNCHANGED errorVars
    BY Zenon, <1>1 DEF errorVars, EInv, Carried, E!MeaningsKept
  <1>2. CASE \E c \in {"build", "branch", "record", "query"} : E!Raise(c)
    BY <1>2, RaiseKeeps DEF Calls
  <1>3. CASE \E o \in {"Merkle", "Cells", "Index", "Branch", "Record", "Query"} : E!Convert(o)
    BY <1>3, ConvertKeeps DEF Wrappers
  <1> QED BY Zenon, <1>1, <1>2, <1>3, RefuseKeeps, AnswerKeeps DEF E!Next

(* Whatever chain of conversions an error takes from where it is raised to the
   facade, the public error is the one its cause calls for. *)
THEOREM ErrorsKeepTheirMeaning == E!Spec => []MeaningsKept
  <1>1. E!Init => EInv
    BY DEF E!Init, EInv, E!MeaningsKept
  <1>2. E!Spec => []EInv
    BY <1>1, EInvStep, PTL DEF E!Spec, E!vars, errorVars
  <1>3. EInv => MeaningsKept
    BY DEF EInv, MeaningsKept
  <1> QED BY <1>2, <1>3, PTL
=============================================================================
