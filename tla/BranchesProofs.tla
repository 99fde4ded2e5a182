--------------------------- MODULE BranchesProofs ---------------------------
(***************************************************************************)
(* Proofs about Branches, for every set of threads, managers, keys and     *)
(* values and every bound.                                                 *)
(*                                                                         *)
(* What one thread may rely on while others run is split in two: Shape (the*)
(* locks exclude each other, and each step of a call finds the values the  *)
(* code unwraps) and Origin (which version a branch and its sealed rows    *)
(* belong to).                                                             *)
(***************************************************************************)
EXTENDS Branches, TLAPS

(* The steps at which the code holds an unwrapped BranchState. *)
Active == {"run", "begin write", "stage", "publish", "consume"}

(* The arguments and locals of a call, as far as its step needs them. *)
CallTyped(t) ==
    /\ pc[t] # "idle" => call[t] \in Calls
    /\ pc[t] \notin {"idle", "head", "allocate"} => Me(t) \in Ids
    /\ pc[t] \in {"allocate", "insert"} \cup Active => snap[t] \in State
    /\ pc[t] \in Writing => tx[t] \in State

(* The slot a call has resolved exists, and holds what the step expects. *)
SlotHeld(t) ==
    /\ pc[t] \in {"lock", "remove"} \cup Holding => slots[Me(t)] # Absent
    /\ pc[t] \in Active => slots[Me(t)] \in BranchState
    /\ pc[t] \in Active \ {"run"} => slots[Me(t)].sealed \in Sealed

(* IDs are handed out once, and only handed-out IDs have entries. *)
Fresh ==
    /\ \A t \in Threads : pc[t] = "insert" => Me(t) < nextId /\ slots[Me(t)] = Absent
    /\ \A t, u \in Threads :
          pc[t] = "insert" /\ pc[u] = "insert" /\ Me(t) = Me(u) => t = u
    /\ \A b \in Ids : b >= nextId => slots[b] = Absent
    /\ \A m \in Managers, b \in Ids : b \in registry[m] => slots[b] # Absent

Shape ==
    /\ TypeOK
    /\ LockDiscipline
    /\ \A t \in Threads : CallTyped(t)
    /\ \A t \in Threads : SlotHeld(t)
    /\ Fresh

-----------------------------------------------------------------------------
(* Sealing a branch yields rows and a number that can be stored. *)
LEMMA ComputeTyped ==
    ASSUME NEW o \in Overlays, NEW s \in State, s.head < MaxCommit
    PROVE  Compute(o, s) \in Sealed
    BY BranchesAssumption DEF Compute, Sealed, Heads, State, Overlays

(* Laying an overlay over cells yields cells: no tombstone survives. *)
LEMMA ApplyTyped ==
    ASSUME NEW o \in Overlays, NEW c \in Cells
    PROVE  Apply(o, c) \in Cells
    BY BranchesAssumption DEF Apply, Overlays, Cells

(* The steps of a call, failures included; running out of commit numbers is one
   of them. *)
Moves(t) ==
    \/ ReadHead(t) \/ Allocate(t) \/ AllocateExhausted(t) \/ Insert(t)
    \/ Find(t) \/ Get(t) \/ Lock(t) \/ Validate(t) \/ Evict(t)
    \/ Observe(t) \/ Edit(t) \/ Seal(t) \/ Discard(t) \/ Remove(t)
    \/ BeginWrite(t) \/ Stage(t) \/ Publish(t) \/ PublishInDoubt(t) \/ Consume(t)
    \/ Fail(t)

(* A call takes no other step. *)
LEMMA MovesCover ==
    \A t \in Threads : Progress(t) \/ PublishInDoubt(t) \/ Fail(t) => Moves(t)
<1> SUFFICES ASSUME NEW t \in Threads, Progress(t) \/ PublishInDoubt(t) \/ Fail(t)
             PROVE  Moves(t)
    OBVIOUS
<1>1. CASE SealExhausted(t)
  <2>1. writer' = IF pc[t] \in Writing THEN None ELSE writer
    BY <1>1 DEF SealExhausted, Writing
  <2>2. Fail(t)
    BY <1>1, <2>1 DEF SealExhausted, Fail
  <2>3. QED
    BY <2>2 DEF Moves
<1>2. QED
    BY Zenon, <1>1 DEF Moves, Progress

(* What a step of one thread does to the slots: nothing, or it replaces the
   slot of its own branch, under the branch lock or before anyone knows it. *)
SlotEffect(t) ==
    \/ slots' = slots
    \/ /\ pc[t] \in Holding \cup {"insert"}
       /\ slots' = [slots EXCEPT ![Me(t)] = slots'[Me(t)]]
       /\ \/ slots'[Me(t)] = Gone /\ pc'[t] \notin Active
          \/ slots'[Me(t)] \in BranchState

(* Every step of a call has one of these effects on the slots. *)
LEMMA SlotStep ==
    ASSUME TypeOK, NEW t \in Threads, CallTyped(t), SlotHeld(t), Moves(t)
    PROVE  SlotEffect(t)
<1>1. CASE Insert(t)
  <2>1. snap[t] \in State /\ Me(t) \in Ids
    BY <1>1 DEF Insert, CallTyped
  <2>2. slots'[Me(t)] \in BranchState
    BY <1>1, <2>1 DEF Insert, BranchState, State, Overlays, TypeOK
  <2>3. QED
    BY <1>1, <2>1, <2>2 DEF Insert, SlotEffect, TypeOK
<1>2. CASE Edit(t)
  <2>1. slots[Me(t)] \in BranchState /\ Me(t) \in Ids
    BY <1>2 DEF Edit, SlotHeld, CallTyped, Active
  <2>2. PICK o \in Overlays : slots' = [slots EXCEPT ![Me(t)].overlay = o]
    BY Zenon, <1>2 DEF Edit
  <2>3. [slots[Me(t)] EXCEPT !.overlay = o] \in BranchState
    BY <2>1 DEF BranchState
  <2>4. QED
    BY <1>2, <2>1, <2>2, <2>3 DEF Edit, SlotEffect, Holding, TypeOK
<1>3. CASE Seal(t)
  <2>1. slots[Me(t)] \in BranchState /\ Me(t) \in Ids /\ snap[t] \in State
    BY <1>3 DEF Seal, SlotHeld, CallTyped, Active
  <2>2. CASE UNCHANGED slots
    BY <2>2 DEF SlotEffect
  <2>3. CASE /\ snap[t].head < MaxCommit
             /\ slots' = [slots EXCEPT ![Me(t)].sealed = Compute(slots[Me(t)].overlay, snap[t])]
    <3>1. slots[Me(t)].overlay \in Overlays
        BY <2>1 DEF BranchState
    <3>2. Compute(slots[Me(t)].overlay, snap[t]) \in Sealed
        BY <2>1, <2>3, <3>1, ComputeTyped
    <3>3. [slots[Me(t)] EXCEPT !.sealed = Compute(slots[Me(t)].overlay, snap[t])] \in BranchState
        BY <2>1, <3>2 DEF BranchState
    <3>4. QED
        BY <1>3, <2>1, <2>3, <3>3 DEF Seal, SlotEffect, Holding, TypeOK
  <2>4. QED
    BY <1>3, <2>2, <2>3 DEF Seal
<1>4. CASE Validate(t) \/ Discard(t) \/ Stage(t) \/ Consume(t)
    BY ZenonT(30), <1>4 DEF Validate, Discard, Stage, Consume, Goto, Return, SlotEffect, Holding,
       Active, CallTyped, TypeOK
<1>5. QED
    BY Zenon, <1>1, <1>2, <1>3, <1>4 DEF SlotEffect, Moves, ReadHead, Allocate,
       AllocateExhausted, Find, Get, Lock, Evict, Observe, Remove, BeginWrite, Publish,
       PublishInDoubt, Fail

(* The ID a begin receives is in range. *)
LEMMA AllocateTyped ==
    ASSUME TypeOK, NEW t \in Threads, CallTyped(t), Allocate(t)
    PROVE  /\ nextId \in Ids
           /\ nextId' \in 0..MaxBranch
           /\ call'[t] \in Calls
           /\ call'[t].id = nextId
<1>1. call[t] \in Calls /\ nextId \in Ids /\ nextId + 1 \in 0..MaxBranch
    BY BranchesAssumption DEF TypeOK, Allocate, CallTyped, Ids
<1>2. [call[t] EXCEPT !.id = nextId] \in Calls /\ [call[t] EXCEPT !.id = nextId].id = nextId
    BY <1>1 DEF Calls
<1>3. call'[t] = [call[t] EXCEPT !.id = nextId]
    BY DEF Allocate, TypeOK
<1>4. QED
    BY Zenon, <1>1, <1>2, <1>3 DEF Allocate

(* Replaying sealed rows into a transaction yields a state. *)
LEMMA StageTyped ==
    ASSUME TypeOK, NEW t \in Threads, CallTyped(t), SlotHeld(t), pc[t] = "stage"
    PROVE  [head |-> slots[Me(t)].sealed.commit_id,
            cells |-> Apply(slots[Me(t)].sealed.writes, tx[t].cells)] \in State
<1>1. slots[Me(t)].sealed \in Sealed /\ tx[t] \in State
    BY DEF SlotHeld, CallTyped, Active, Writing
<1>2. /\ slots[Me(t)].sealed.commit_id \in Heads
      /\ Apply(slots[Me(t)].sealed.writes, tx[t].cells) \in Cells
    BY <1>1, ApplyTyped DEF Sealed, State
<1>3. QED
    BY <1>2 DEF State

(* Every step of a call keeps the variables' types. *)
LEMMA TypeStep ==
    ASSUME TypeOK, NEW t \in Threads, CallTyped(t), SlotHeld(t), Moves(t)
    PROVE  TypeOK'
<1> slots' \in [Ids -> BranchState \cup {Absent, Gone}]
    BY SlotStep DEF SlotEffect, TypeOK, Insert
<1>1. CASE ReadHead(t)
    BY <1>1 DEF TypeOK, ReadHead, Goto, Steps
<1>2. CASE Allocate(t)
  <2>1. call' = [call EXCEPT ![t] = call'[t]]
    BY <1>2 DEF Allocate, TypeOK
  <2>2. QED
    BY <1>2, <2>1, AllocateTyped DEF TypeOK, Allocate, Goto, Steps
<1>21. CASE AllocateExhausted(t)
    BY <1>21 DEF TypeOK, AllocateExhausted, Return, Steps
<1>3. CASE Insert(t)
    BY ZenonT(30), <1>3 DEF TypeOK, Insert, Return, Steps, CallTyped
<1>4. CASE Find(t)
    BY <1>4 DEF TypeOK, Find, Goto, Steps
<1>5. CASE Get(t)
    BY Zenon, <1>5 DEF TypeOK, Get, Goto, Return, ReleaseRegistry, Steps
<1>6. CASE Lock(t)
    BY <1>6 DEF TypeOK, Lock, Goto, Steps
<1>7. CASE Validate(t)
    BY ZenonT(30), <1>7 DEF TypeOK, Validate, Goto, Return, Unlock, Steps
<1>8. CASE Evict(t)
    BY <1>8 DEF TypeOK, Evict, Deregister, Return, Unlock, Steps
<1>9. CASE Observe(t)
    BY <1>9 DEF TypeOK, Observe, Return, Unlock, Steps
<1>10. CASE Edit(t)
    BY <1>10 DEF TypeOK, Edit, Return, Unlock, Steps
<1>11. CASE Seal(t)
    BY ZenonT(30), <1>11 DEF TypeOK, Seal, Goto, Return, Unlock, Steps
<1>12. CASE Discard(t)
    BY <1>12 DEF TypeOK, Discard, Goto, Unlock, Steps
<1>13. CASE Remove(t)
    BY <1>13 DEF TypeOK, Remove, Deregister, Return, Steps
<1>14. CASE BeginWrite(t)
    BY <1>14 DEF TypeOK, BeginWrite, Goto, Steps
<1>15. CASE Stage(t)
    BY ZenonT(30), <1>15, StageTyped DEF TypeOK, Stage, Goto, Steps
<1>16. CASE Publish(t)
    BY <1>16 DEF TypeOK, Publish, Goto, Steps, CallTyped, Writing
<1>17. CASE PublishInDoubt(t)
    BY <1>17 DEF TypeOK, PublishInDoubt, Return, Unlock, Steps, CallTyped, Writing
<1>18. CASE Consume(t)
    BY <1>18 DEF TypeOK, Consume, Goto, Steps
<1>19. CASE Fail(t)
    BY <1>19 DEF TypeOK, Fail, Return, Unlock, Steps
<1>20. QED
    BY <1>1, <1>2, <1>3, <1>4, <1>5, <1>6, <1>7, <1>8, <1>9, <1>10, <1>11, <1>12,
       <1>13, <1>14, <1>15, <1>16, <1>17, <1>18, <1>19, <1>21 DEF Moves

(* Every step of a call leaves the arguments and locals it needs next. *)
LEMMA CallStep ==
    ASSUME TypeOK, NEW t \in Threads, CallTyped(t), SlotHeld(t), Moves(t), TypeOK'
    PROVE  CallTyped(t)'
<1>1. CASE Allocate(t)
  <2>1. pc'[t] = "insert" /\ snap'[t] \in State
    BY <1>1 DEF Allocate, Goto, TypeOK, CallTyped
  <2>2. QED
    BY <1>1, <2>1, AllocateTyped DEF CallTyped, Me, Active, Writing
<1>2. CASE Validate(t)
    BY <1>2, ZenonT(60) DEF Validate, Goto, Return, CallTyped, TypeOK, Me, Active, Writing
<1>3. CASE Stage(t)
  <2>1. \/ pc'[t] = "evict" /\ call' = call
        \/ pc'[t] = "publish" /\ call' = call /\ snap' = snap
    BY Zenon, <1>3 DEF Stage, Goto, TypeOK
  <2>2. pc'[t] = "publish" => tx'[t] \in State
    BY <1>3, StageTyped DEF Stage, Goto, TypeOK
  <2>3. QED
    BY Zenon, <1>3, <2>1, <2>2 DEF Stage, CallTyped, Me, Active, Writing
<1>4. CASE Seal(t)
    BY ZenonT(30), <1>4 DEF Seal, Goto, Return, CallTyped, TypeOK, Me, Active, Writing
<1>5. CASE Get(t)
    BY ZenonT(30), <1>5 DEF Get, Goto, Return, CallTyped, TypeOK, Me, Active, Writing
<1>6. CASE ReadHead(t) \/ Find(t) \/ Lock(t) \/ Discard(t) \/ BeginWrite(t) \/ Publish(t) \/ Consume(t)
    BY <1>6, ZenonT(60) DEF ReadHead, Find, Lock, Discard, BeginWrite, Publish, Consume, Goto,
       CallTyped, TypeOK, Me, Active, Writing
<1>7. CASE pc'[t] = "idle"
    BY <1>7 DEF CallTyped, Active, Writing
<1>8. QED
    BY Zenon, <1>1, <1>2, <1>3, <1>4, <1>5, <1>6, <1>7 DEF Moves, AllocateExhausted, Insert,
       Evict, Observe, Edit, Remove, PublishInDoubt, Fail, Return, TypeOK

-----------------------------------------------------------------------------
(* What a step of one thread does to the other threads and to the locks. *)

Others(t) ==
    \A u \in Threads \ {t} :
        pc'[u] = pc[u] /\ call'[u] = call[u] /\ snap'[u] = snap[u] /\ tx'[u] = tx[u]

WriterEffect(t) ==
    \/ writer' = writer /\ (pc[t] \in Writing <=> pc'[t] \in Writing)
    \/ writer = None /\ writer' = t /\ pc'[t] \in Writing
    \/ pc[t] \in Writing /\ writer' = None /\ pc'[t] \notin Writing

BranchLockEffect(t) ==
    \/ /\ branchLock' = branchLock
       /\ pc[t] \in Holding <=> pc'[t] \in Holding
       /\ pc[t] \in Holding => call'[t].id = call[t].id
    \/ /\ pc[t] \notin Holding /\ pc'[t] \in Holding
       /\ call'[t].id = call[t].id
       /\ branchLock[Me(t)] = None
       /\ branchLock' = [branchLock EXCEPT ![Me(t)] = t]
    \/ /\ pc[t] \in Holding /\ pc'[t] \notin Holding
       /\ branchLock' = [branchLock EXCEPT ![Me(t)] = None]

RegistryLockEffect(t) ==
    \/ registryLock' = registryLock /\ pc[t] # "get" /\ pc'[t] # "get"
    \/ /\ pc[t] # "get" /\ pc'[t] = "get" /\ call'[t].mgr = call[t].mgr
       /\ registryLock[call[t].mgr] = None
       /\ registryLock' = [registryLock EXCEPT ![call[t].mgr] = t]
    \/ /\ pc[t] = "get" /\ pc'[t] # "get"
       /\ registryLock' = [registryLock EXCEPT ![call[t].mgr] = None]

(* A step of a call moves only its own thread. *)
LEMMA OthersStep ==
    ASSUME TypeOK, NEW t \in Threads, Moves(t)
    PROVE  Others(t)
    BY ZenonT(30) DEF TypeOK, Others, Moves, ReadHead, Allocate, AllocateExhausted, Insert, Find,
       Get, Lock, Validate, Evict, Observe, Edit, Seal, Discard, Remove, BeginWrite, Stage,
       Publish, PublishInDoubt, Consume, Fail, Goto, Return

(* The writer is taken by begin_write and released by every end of persist. *)
LEMMA WriterStep ==
    ASSUME TypeOK, NEW t \in Threads, Moves(t)
    PROVE  WriterEffect(t)
    BY ZenonT(30) DEF TypeOK, WriterEffect, Writing, Moves, ReadHead, Allocate, AllocateExhausted, Insert, Find,
       Get, Lock, Validate, Evict, Observe, Edit, Seal, Discard, Remove, BeginWrite, Stage,
       Publish, PublishInDoubt, Consume, Fail, Goto, Return

(* The branch lock is taken by with_slot and released by every end of it. *)
LEMMA BranchLockStep ==
    ASSUME TypeOK, NEW t \in Threads, Moves(t)
    PROVE  BranchLockEffect(t)
    BY ZenonT(60) DEF TypeOK, BranchLockEffect, Unlock, Holding, Moves, ReadHead, Allocate,
       AllocateExhausted, Insert, Find, Get, Lock, Validate, Evict, Observe, Edit, Seal, Discard, Remove, BeginWrite, Stage,
       Publish, PublishInDoubt, Consume, Fail, Goto, Return

(* The registry lock is released before with_slot waits for the branch. *)
LEMMA RegistryLockStep ==
    ASSUME TypeOK, NEW t \in Threads, Moves(t)
    PROVE  RegistryLockEffect(t)
    BY ZenonT(30) DEF TypeOK, RegistryLockEffect, ReleaseRegistry, Moves, ReadHead, Allocate, AllocateExhausted, Insert, Find,
       Get, Lock, Validate, Evict, Observe, Edit, Seal, Discard, Remove, BeginWrite, Stage,
       Publish, PublishInDoubt, Consume, Fail, Goto, Return

(* Every step of a call keeps every lock with the call that needs it. *)
LEMMA LocksStep ==
    ASSUME TypeOK, LockDiscipline, NEW t \in Threads, CallTyped(t), Moves(t),
           TypeOK', CallTyped(t)'
    PROVE  LockDiscipline'
<1>1. Others(t)
    BY OthersStep
<1>2. ASSUME NEW u \in Threads PROVE writer' = u <=> pc'[u] \in Writing
  <2>1. /\ writer = u <=> pc[u] \in Writing
        /\ writer = t <=> pc[t] \in Writing
        /\ u # t => pc'[u] = pc[u]
    BY Zenon, <1>1 DEF LockDiscipline, Others
  <2>2. WriterEffect(t) /\ None \notin Threads
    BY Zenon, WriterStep, BranchesAssumption
  <2>3. QED
    BY Zenon, <2>1, <2>2 DEF WriterEffect
<1>3. ASSUME NEW b \in Ids, NEW u \in Threads
      PROVE  branchLock'[b] = u <=> pc'[u] \in Holding /\ call'[u].id = b
  <2>1. /\ branchLock[b] = u <=> pc[u] \in Holding /\ call[u].id = b
        /\ branchLock[b] = t <=> pc[t] \in Holding /\ call[t].id = b
        /\ u # t => pc'[u] = pc[u] /\ call'[u] = call[u]
        /\ DOMAIN branchLock = Ids
    BY Zenon, <1>1 DEF LockDiscipline, Others, Me, TypeOK
  <2>2. BranchLockEffect(t) /\ None \notin Threads
    BY Zenon, BranchLockStep, BranchesAssumption
  <2>3. QED
    BY <2>1, <2>2 DEF BranchLockEffect, Me
<1>4. ASSUME NEW m \in Managers, NEW u \in Threads
      PROVE  registryLock'[m] = u <=> pc'[u] = "get" /\ call'[u].mgr = m
  <2>1. /\ registryLock[m] = u <=> pc[u] = "get" /\ call[u].mgr = m
        /\ registryLock[m] = t <=> pc[t] = "get" /\ call[t].mgr = m
        /\ u # t => pc'[u] = pc[u] /\ call'[u] = call[u]
        /\ DOMAIN registryLock = Managers
    BY Zenon, <1>1 DEF LockDiscipline, Others, TypeOK
  <2>2. RegistryLockEffect(t) /\ None \notin Threads
    BY Zenon, RegistryLockStep, BranchesAssumption
  <2>3. QED
    BY <2>1, <2>2 DEF RegistryLockEffect
<1>5. QED
    BY <1>2, <1>3, <1>4 DEF LockDiscipline, Me

(* Two calls never hold the same branch. *)
LEMMA Exclusive ==
    ASSUME LockDiscipline, NEW t \in Threads, NEW u \in Threads, Me(t) \in Ids,
           pc[t] \in Holding, pc[u] \in Holding, Me(t) = Me(u)
    PROVE  t = u
    BY DEF LockDiscipline

-----------------------------------------------------------------------------
(* Every step of a call finds the slot it resolved. *)
LEMMA OwnSlotStep ==
    ASSUME Shape, NEW t \in Threads, Moves(t), SlotEffect(t)
    PROVE  SlotHeld(t)'
<1>0. /\ CallTyped(t) /\ SlotHeld(t) /\ pc[t] \in Steps
      /\ pc \in [Threads -> Steps]
      /\ call \in [Threads -> Calls \cup {None}]
      /\ slots \in [Ids -> BranchState \cup {Absent, Gone}]
    BY DEF Shape, TypeOK
<1>1. CASE Get(t)
  <2>1. Me(t) \in Ids /\ call[t].mgr \in Managers
    BY Zenon, <1>0, <1>1 DEF Get, CallTyped, Calls
  <2>2. Me(t) \in registry[call[t].mgr] => slots[Me(t)] # Absent
    BY <2>1 DEF Shape, Fresh
  <2>3. QED
    BY <1>0, <1>1, <2>2 DEF Get, Goto, Return, Holding, Active, SlotHeld, Me
<1>2. CASE Validate(t)
  <2>1. Me(t) \in Ids /\ slots[Me(t)] # Absent
    BY Zenon, <1>0, <1>2 DEF Validate, CallTyped, SlotHeld, Holding
  <2>2. CASE pc'[t] = "run" /\ slots[Me(t)] # Gone /\ slots' = slots /\ call' = call
    BY <1>0, <2>1, <2>2 DEF SlotHeld, Me, Active, Holding
  <2>3. CASE pc'[t] = "evict" /\ slots' = [slots EXCEPT ![Me(t)] = Gone] /\ call' = call
    BY <1>0, <2>1, <2>3, BranchesAssumption DEF SlotHeld, Me, Active, Holding
  <2>4. CASE pc'[t] = "idle"
    BY <2>4 DEF SlotHeld, Active, Holding
  <2>5. QED
    BY <1>0, <1>2, <2>2, <2>3, <2>4 DEF Validate, Goto, Return
<1>3. CASE Seal(t)
  <2>1. slots[Me(t)] \in BranchState /\ Me(t) \in Ids /\ snap[t] \in State
    BY <1>0, <1>3 DEF Seal, CallTyped, SlotHeld, Active
  <2>2. CASE pc'[t] = "idle"
    BY <2>2 DEF SlotHeld, Active, Holding
  <2>3. CASE pc'[t] = "begin write" /\ call' = call
    <3>1. slots'[Me(t)] \in BranchState
        BY <2>1, <2>3 DEF SlotEffect, Active
    <3>2. slots'[Me(t)] # Absent
        BY <3>1, BranchesAssumption
    <3>3. slots'[Me(t)].sealed # None
      <4>1. slots[Me(t)].sealed = None /\ snap[t].head < MaxCommit
              => Compute(slots[Me(t)].overlay, snap[t]) \in Sealed
        BY <2>1, ComputeTyped DEF BranchState
      <4>2. QED
        BY <1>0, <1>3, <2>1, <4>1, BranchesAssumption, ZenonT(60) DEF Seal, BranchState
    <3>4. slots'[Me(t)].sealed \in Sealed
        BY <3>1, <3>3 DEF BranchState
    <3>5. QED
        BY <2>3, <3>1, <3>2, <3>4 DEF SlotHeld, Me
  <2>4. QED
    BY <1>0, <1>3, <2>2, <2>3 DEF Seal, Goto, Return
<1>4. CASE Discard(t) \/ Consume(t)
    BY ZenonT(30), <1>0, <1>4, BranchesAssumption DEF Discard, Consume, Goto, Holding, Active,
       CallTyped, SlotHeld, Me
<1>5. CASE Stage(t)
    BY ZenonT(30), <1>0, <1>5, BranchesAssumption DEF Stage, Goto, Holding, Active, CallTyped,
       SlotHeld, Me
<1>6. CASE Lock(t) \/ BeginWrite(t) \/ Publish(t)
    BY Zenon, <1>0, <1>6 DEF Lock, BeginWrite, Publish, Goto, Holding, Active, SlotHeld, Me
<1>7. CASE pc'[t] \in {"idle", "allocate", "insert", "get"}
    BY <1>7 DEF Active, Holding, SlotHeld
<1>8. QED
    BY Zenon, <1>0, <1>1, <1>2, <1>3, <1>4, <1>5, <1>6, <1>7 DEF Moves, ReadHead, Allocate,
       AllocateExhausted, Insert, Find, Evict, Observe, Edit, Remove, PublishInDoubt,
       Fail, Goto, Return

(* No step of a call takes away the slot another call has resolved. *)
LEMMA OtherSlotStep ==
    ASSUME Shape, NEW t \in Threads, Others(t), SlotEffect(t),
           NEW u \in Threads, u # t
    PROVE  SlotHeld(u)'
<1>1. CASE slots' = slots
    BY <1>1 DEF Shape, Others, SlotHeld, Me
<1>2. CASE /\ pc[t] \in Holding \cup {"insert"}
           /\ slots' = [slots EXCEPT ![Me(t)] = slots'[Me(t)]]
           /\ slots'[Me(t)] # Absent
  <2>1. Me(t) \in Ids
    BY <1>2 DEF Shape, CallTyped, Holding
  <2>2. pc[u] \in {"lock", "remove"} \cup Holding => Me(u) \in Ids
    BY DEF Shape, CallTyped, Holding
  <2>3. pc[u] \in {"lock", "remove"} \cup Holding => slots'[Me(u)] # Absent
    BY <1>2, <2>2 DEF Shape, SlotHeld, TypeOK
  <2>4. pc[u] \in Holding => slots'[Me(u)] = slots[Me(u)]
    BY <1>2, <2>1, <2>2, Exclusive DEF Shape, SlotHeld, Fresh, TypeOK
  <2>5. QED
    BY <2>3, <2>4 DEF Shape, Others, SlotHeld, Me, Active, Holding
<1>3. QED
    BY <1>1, <1>2, BranchesAssumption DEF SlotEffect

(* Every step of a call keeps IDs and entries apart. *)
LEMMA FreshStep ==
    ASSUME Shape, NEW t \in Threads, Moves(t), Others(t), SlotEffect(t)
    PROVE  Fresh'
<1>0. /\ Fresh /\ TypeOK /\ CallTyped(t) /\ SlotHeld(t)
      /\ \A u \in Threads : pc[u] = "insert" => Me(u) \in Ids
      /\ nextId \in Int /\ Ids \subseteq Int
    BY DEF Shape, CallTyped, TypeOK, Ids
<1>1. CASE Allocate(t)
  <2>1. pc'[t] = "insert" /\ call'[t].id = nextId /\ nextId \in Ids /\ nextId' = nextId + 1
        /\ slots' = slots /\ registry' = registry
    BY Zenon, <1>0, <1>1, AllocateTyped DEF Allocate, Goto, TypeOK
  <2>2. \A u \in Threads \ {t} : pc'[u] = "insert" =>
            call'[u].id \in Ids /\ call'[u].id < nextId /\ slots'[call'[u].id] = Absent
    BY Zenon, <1>0, <2>1 DEF Others, Fresh, Me
  <2>3. \A u \in Threads : pc'[u] = "insert" =>
            call'[u].id < nextId' /\ slots'[call'[u].id] = Absent
    <3>1. slots'[nextId] = Absent
        BY <1>0, <2>1 DEF Fresh
    <3>2. \A i \in Ids : i <= nextId => i < nextId'
        BY <1>0, <2>1
    <3>3. \A u \in Threads : pc'[u] = "insert" => call'[u].id \in Ids /\ call'[u].id <= nextId
      <4>1. \A i \in Ids : i < nextId => i <= nextId
        BY <1>0
      <4>2. nextId <= nextId
        BY <1>0
      <4>3. QED
        BY <2>1, <2>2, <4>1, <4>2
    <3>4. QED
        BY Zenon, <2>1, <2>2, <3>1, <3>2, <3>3
  <2>4. \A u, v \in Threads : pc'[u] = "insert" /\ pc'[v] = "insert" /\ call'[u].id = call'[v].id
            => u = v
    BY <1>0, <2>1, <2>2 DEF Fresh, Others, Me
  <2>5. \A b \in Ids : b >= nextId' => slots'[b] = Absent
    BY <1>0, <2>1 DEF Fresh
  <2>6. QED
    BY Zenon, <1>0, <2>1, <2>3, <2>4, <2>5 DEF Fresh, Me
<1>2. CASE nextId' = nextId /\ pc'[t] # "insert"
  <2>1. \A b \in Ids : slots'[b] # slots[b] =>
            slots'[b] # Absent /\ b = Me(t) /\ pc[t] \in Holding \cup {"insert"}
    BY <1>0, BranchesAssumption DEF SlotEffect, TypeOK
  <2>2. \A u \in Threads : pc'[u] = "insert" => u # t /\ pc[u] = "insert" /\ call'[u].id = Me(u)
    BY <1>2 DEF Others, Me
  <2>3. pc[t] \in Holding => slots[Me(t)] # Absent
    BY <1>0 DEF SlotHeld
  <2>4. \A u \in Threads : pc'[u] = "insert" => call'[u].id < nextId' /\ slots'[call'[u].id] = Absent
    <3> SUFFICES ASSUME NEW u \in Threads, pc'[u] = "insert"
                 PROVE  Me(u) < nextId /\ slots'[Me(u)] = Absent
        BY <1>2, <2>2
    <3>1. u # t /\ pc[u] = "insert" /\ Me(u) \in Ids
        BY <1>0, <2>2
    <3>2. Me(u) < nextId /\ slots[Me(u)] = Absent
        BY <1>0, <3>1 DEF Fresh
    <3>3. ~(Me(u) = Me(t) /\ pc[t] \in Holding \cup {"insert"})
        BY Zenon, <1>0, <2>3, <3>1, <3>2 DEF Fresh
    <3>4. QED
        BY <2>1, <3>1, <3>2, <3>3
  <2>5. \A u, v \in Threads : pc'[u] = "insert" /\ pc'[v] = "insert" /\ call'[u].id = call'[v].id
            => u = v
    BY <1>0, <2>2 DEF Fresh
  <2>6. \A b \in Ids : b >= nextId' => slots'[b] = Absent
    BY <1>0, <1>2, <2>1, <2>3 DEF Fresh
  <2>7. \A m \in Managers, b \in Ids : b \in registry'[m] =>
            b \in registry[m] \/ (b = Me(t) /\ slots'[b] # Absent)
    <3>1. CASE Insert(t)
      <4>1. slots'[Me(t)] # Absent
        <5>1. slots'[Me(t)] \in BranchState
            BY Zenon, <1>0, <3>1, SlotStep DEF Insert, CallTyped, BranchState, State, TypeOK, Overlays
        <5>2. QED
            BY <5>1, BranchesAssumption
      <4>2. QED
        BY Zenon, <1>0, <3>1, <4>1 DEF Insert, TypeOK
    <3>2. CASE Evict(t) \/ Remove(t)
        BY <1>0, <3>2 DEF Evict, Remove, Deregister, TypeOK
    <3>3. CASE registry' = registry
        BY Zenon, <3>3
    <3>4. QED
        BY Zenon, <3>1, <3>2, <3>3 DEF Moves, ReadHead, Allocate, AllocateExhausted, Find, Get,
           Lock, Validate, Observe, Edit, Seal, Discard, BeginWrite, Stage, Publish,
           PublishInDoubt, Consume, Fail
  <2>8. \A m \in Managers, b \in Ids : b \in registry'[m] => slots'[b] # Absent
    BY Zenon, <1>0, <2>1, <2>7 DEF Fresh
  <2>9. QED
    BY <2>4, <2>5, <2>6, <2>8 DEF Fresh, Me
<1>3. QED
    BY ZenonT(30), <1>0, <1>1, <1>2 DEF TypeOK, Moves, ReadHead, Allocate, AllocateExhausted, Insert, Find,
       Get, Lock, Validate, Evict, Observe, Edit, Seal, Discard, Remove, BeginWrite, Stage,
       Publish, PublishInDoubt, Consume, Fail, Goto, Return

-----------------------------------------------------------------------------
(* Shape holds at first, and every step of the system keeps it. *)

(* Shape holds at the start: no call runs and no branch exists. *)
LEMMA ShapeInit == Init => Shape
<1> SUFFICES ASSUME Init PROVE Shape
    OBVIOUS
<1>1. TypeOK
    BY BranchesAssumption DEF Init, TypeOK, State, Heads, Cells, Steps
<1>2. LockDiscipline
    BY BranchesAssumption DEF Init, LockDiscipline, Holding, Writing
<1>3. \A t \in Threads : CallTyped(t) /\ SlotHeld(t)
    BY DEF Init, CallTyped, SlotHeld, Holding, Writing, Active
<1>4. Fresh
    BY DEF Init, Fresh
<1>5. QED
    BY <1>1, <1>2, <1>3, <1>4 DEF Shape

(* A step of a running call. *)
LEMMA ShapeProgress ==
    ASSUME Shape, NEW t \in Threads, Moves(t)
    PROVE  Shape'
<1>1. TypeOK /\ LockDiscipline /\ CallTyped(t) /\ SlotHeld(t)
    BY DEF Shape
<1>2. TypeOK' /\ SlotEffect(t) /\ Others(t)
    BY <1>1, TypeStep, SlotStep, OthersStep
<1>3. CallTyped(t)'
    BY <1>1, <1>2, CallStep
<1>4. ASSUME NEW u \in Threads, u # t PROVE CallTyped(u)'
    BY Zenon, <1>2, <1>4 DEF Shape, CallTyped, Others, Me
<1>5. \A u \in Threads : SlotHeld(u)'
    BY <1>2, OwnSlotStep, OtherSlotStep
<1>6. LockDiscipline'
    BY <1>1, <1>2, <1>3, LocksStep
<1>7. Fresh'
    BY <1>2, FreshStep
<1>8. QED
    BY <1>2, <1>3, <1>4, <1>5, <1>6, <1>7 DEF Shape

(* A new call. *)
Called(t, c, step) ==
    /\ pc[t] = "idle"
    /\ pc' = [pc EXCEPT ![t] = step]
    /\ call' = [call EXCEPT ![t] = c]
    /\ step = "find" => c.id \in Ids
    /\ UNCHANGED <<committed, writer, nextId, registry, registryLock, slots,
                   branchLock, snap, tx, published>>

(* An idle thread starts begin, or an operation on a branch ID. *)
LEMMA InvokeStep ==
    ASSUME NEW t \in Threads, Invoke(t)
    PROVE  \E c \in Calls, step \in {"head", "find"} : Called(t, c, step)
<1>1. ASSUME NEW m \in Managers, CallBegin(t, m)
      PROVE  \E c \in Calls, step \in {"head", "find"} : Called(t, c, step)
  <2>1. [op |-> "begin", mgr |-> m, id |-> None] \in Calls
    BY DEF Calls
  <2>2. Called(t, [op |-> "begin", mgr |-> m, id |-> None], "head")
    BY Zenon, <1>1 DEF CallBegin, Goto, Called
  <2>3. QED
    BY <2>1, <2>2
<1>2. ASSUME NEW m \in Managers, NEW op \in Operations, NEW b \in Ids, CallBranch(t, op, m, b)
      PROVE  \E c \in Calls, step \in {"head", "find"} : Called(t, c, step)
  <2>1. [op |-> op, mgr |-> m, id |-> b] \in Calls
    BY DEF Calls
  <2>2. Called(t, [op |-> op, mgr |-> m, id |-> b], "find")
    BY <1>2 DEF CallBranch, Goto, Called
  <2>3. QED
    BY <2>1, <2>2
<1>3. QED
    BY <1>1, <1>2 DEF Invoke

(* Starting a call keeps Shape: it holds nothing yet. *)
LEMMA ShapeInvoke ==
    ASSUME Shape, NEW t \in Threads, Invoke(t)
    PROVE  Shape'
<1>1. PICK c \in Calls, step \in {"head", "find"} : Called(t, c, step)
    BY InvokeStep
<1>2. TypeOK /\ LockDiscipline /\ Fresh
    BY DEF Shape
<1>3. TypeOK'
    BY Zenon, <1>1, <1>2 DEF TypeOK, Called, Steps
<1>4. /\ pc[t] = "idle" /\ pc'[t] = step /\ call'[t] = c
      /\ \A u \in Threads \ {t} : pc'[u] = pc[u] /\ call'[u] = call[u]
    BY Zenon, <1>1, <1>2 DEF TypeOK, Called
<1>5. LockDiscipline'
  <2>1. \A u \in Threads :
            /\ pc'[u] \in Holding <=> pc[u] \in Holding
            /\ pc'[u] \in Writing <=> pc[u] \in Writing
            /\ pc'[u] = "get" <=> pc[u] = "get"
            /\ pc[u] # "idle" => call'[u] = call[u]
    BY <1>4 DEF Holding, Writing
  <2>2. UNCHANGED <<branchLock, writer, registryLock>>
    BY <1>1 DEF Called
  <2>3. \A b \in Ids, u \in Threads :
            branchLock'[b] = u <=> pc'[u] \in Holding /\ call'[u].id = b
    <3>1. \A u \in Threads : pc[u] \in Holding => call'[u] = call[u]
        BY Zenon, <2>1 DEF Holding
    <3>2. QED
        BY <1>2, <2>1, <2>2, <3>1 DEF LockDiscipline, Me
  <2>4. \A u \in Threads : writer' = u <=> pc'[u] \in Writing
    BY Zenon, <1>2, <2>1, <2>2 DEF LockDiscipline
  <2>5. \A m \in Managers, u \in Threads :
            registryLock'[m] = u <=> pc'[u] = "get" /\ call'[u].mgr = m
    BY <1>2, <2>1, <2>2 DEF LockDiscipline
  <2>6. QED
    BY Zenon, <2>3, <2>4, <2>5 DEF LockDiscipline, Me
<1>6. ASSUME NEW u \in Threads PROVE CallTyped(u)' /\ SlotHeld(u)'
  <2>1. CASE u = t
    BY Zenon, <1>1, <1>4, <2>1 DEF CallTyped, SlotHeld, Called, Me, Holding, Writing, Active
  <2>2. CASE u # t
    BY Zenon, <1>1, <1>4, <2>2 DEF Shape, CallTyped, SlotHeld, Called, Me
  <2>3. QED
    BY <2>1, <2>2
<1>7. Fresh'
    BY <1>1, <1>2, <1>4 DEF Fresh, Called, Me
<1>8. QED
    BY <1>3, <1>5, <1>6, <1>7 DEF Shape

(* A foreign publication touches no call and no branch. *)
LEMMA ShapeForeign ==
    ASSUME Shape, ForeignPublish
    PROVE  Shape'
<1>1. committed' \in State
  <2>1. PICK h \in (committed.head + 1)..MaxCommit, c \in Cells :
            committed' = [head |-> h, cells |-> c]
    BY DEF ForeignPublish
  <2>2. committed.head \in Heads
    BY Zenon DEF Shape, TypeOK, State
  <2>3. h \in Heads
    BY <2>2, BranchesAssumption DEF Heads
  <2>4. QED
    BY <2>1, <2>3 DEF State
<1>2. UNCHANGED <<writer, nextId, registry, registryLock, slots, branchLock, pc, call,
                  snap, tx, published>>
    BY Zenon DEF ForeignPublish
<1>3. TypeOK' /\ LockDiscipline'
    BY <1>1, <1>2 DEF Shape, TypeOK, LockDiscipline, Me
<1>4. \A t \in Threads : CallTyped(t)' /\ SlotHeld(t)'
    BY Zenon, <1>2 DEF Shape, CallTyped, SlotHeld, Me
<1>5. Fresh'
    BY Zenon, <1>2 DEF Shape, Fresh, Me
<1>6. QED
    BY <1>3, <1>4, <1>5 DEF Shape

(* After a restart no call runs and no branch exists. *)
LEMMA ShapeCrash ==
    ASSUME Shape, Crash
    PROVE  Shape'
<1>1. TypeOK'
  <2>1. committed' \in State
    BY Zenon DEF Shape, TypeOK, Crash
  <2>2. QED
    BY <2>1, BranchesAssumption DEF Crash, TypeOK, Steps
<1>2. LockDiscipline'
    BY BranchesAssumption DEF Crash, LockDiscipline, Holding, Writing, Me
<1>3. \A t \in Threads : CallTyped(t)' /\ SlotHeld(t)'
    BY Zenon DEF Crash, CallTyped, SlotHeld, Holding, Writing, Active
<1>4. Fresh'
    BY DEF Crash, Fresh
<1>5. QED
    BY <1>1, <1>2, <1>3, <1>4 DEF Shape

(* Shape is an inductive invariant. *)
LEMMA ShapeStep == Shape /\ [Next]_vars => Shape'
<1> SUFFICES ASSUME Shape, [Next]_vars PROVE Shape'
    OBVIOUS
<1>1. CASE UNCHANGED vars
  <2>1. TypeOK' /\ LockDiscipline'
    BY <1>1 DEF vars, Shape, TypeOK, LockDiscipline, Me
  <2>2. \A t \in Threads : CallTyped(t)' /\ SlotHeld(t)'
    BY Zenon, <1>1 DEF vars, Shape, CallTyped, SlotHeld, Me
  <2>3. Fresh'
    BY Zenon, <1>1 DEF vars, Shape, Fresh, Me
  <2>4. QED
    BY <2>1, <2>2, <2>3 DEF Shape
<1>2. QED
    BY <1>1, ShapeProgress, ShapeInvoke, ShapeForeign, ShapeCrash, MovesCover DEF Next

(* Shape holds in every reachable state. *)
LEMMA ShapeCorrect == Spec => []Shape
    BY ShapeInit, ShapeStep, PTL DEF Spec

(* The manager's state keeps its types: with_slot never unwraps an empty slot,
   and no published cell holds a tombstone. *)
THEOREM TypeCorrect == Spec => []TypeOK
<1>1. Shape => TypeOK
    BY DEF Shape
<1>2. QED
    BY <1>1, ShapeCorrect, PTL

(* Every mutex is held exactly by the call that needs it, on every path of
   with_slot and persist, however many threads and managers there are. *)
THEOREM LocksCorrect == Spec => []LockDiscipline
<1>1. Shape => LockDiscipline
    BY DEF Shape
<1>2. QED
    BY <1>1, ShapeCorrect, PTL

-----------------------------------------------------------------------------
(***************************************************************************)
(* Registry entries and branch states come and go in separate steps, under *)
(* separate locks; RegistryAgrees says that they nevertheless agree.  It   *)
(* is not inductive: a call that is about to remove an entry must know     *)
(* that the entry is its own (Owned) and that its state is gone (Emptied). *)
(***************************************************************************)

(* A call that has resolved a branch did so in the manager that registers it. *)
Owned(t) ==
    pc[t] \in {"lock", "remove"} \cup Holding =>
        \A m \in Managers : Me(t) \in registry[m] => m = call[t].mgr

(* A call removes an entry only after its state was taken. *)
Emptied(t) == pc[t] \in {"evict", "remove"} => slots[Me(t)] = Gone

Registered ==
    /\ RegistryAgrees
    /\ \A t \in Threads : Owned(t) /\ Emptied(t)

-----------------------------------------------------------------------------
LEMMA FreshBranch ==
    ASSUME NEW s \in State
    PROVE  [commit_id |-> s.head, overlay |-> [k \in Keys |-> Missing],
            sealed |-> None, base |-> s.cells] \in BranchState
    BY DEF State, BranchState, Overlays

(* What a step of one call does to the registry and the slots together. *)
RegistryEffect(t) ==
    \/ /\ registry' = registry /\ slots' = slots
    \/ /\ pc[t] = "insert"
       /\ registry' = [registry EXCEPT ![call[t].mgr] = @ \cup {Me(t)}]
       /\ slots'[Me(t)] \in BranchState
    \/ /\ registry' = registry
       /\ pc[t] \in Holding
       /\ slots[Me(t)] \in BranchState
       /\ \/ slots'[Me(t)] \in BranchState
          \/ slots'[Me(t)] = Gone /\ pc'[t] \in {"evict", "remove"} /\ call'[t] = call[t]
    \/ /\ pc[t] \in {"evict", "remove"}
       /\ registry' = [registry EXCEPT ![call[t].mgr] = @ \ {Me(t)}]
       /\ slots' = slots

(* Every step of a call has one of these effects. *)
LEMMA RegistryStep ==
    ASSUME TypeOK, NEW t \in Threads, CallTyped(t), SlotHeld(t), SlotEffect(t), Moves(t)
    PROVE  RegistryEffect(t)
<1>0. /\ slots \in [Ids -> BranchState \cup {Absent, Gone}]
      /\ pc \in [Threads -> Steps]
      /\ pc[t] \notin {"idle", "head", "allocate"} => Me(t) \in Ids
      /\ pc[t] \in Holding => slots[Me(t)] # Absent
      /\ pc[t] \in Active => slots[Me(t)] \in BranchState
    BY Zenon DEF TypeOK, CallTyped, SlotHeld
<1>1. CASE Insert(t)
  <2>1. slots' # slots => slots'[Me(t)] \in BranchState \cup {Gone}
    BY Zenon, <1>1 DEF SlotEffect
  <2>2. slots'[Me(t)] \in BranchState
    <3>1. Me(t) \in Ids /\ snap[t] \in State
        BY Zenon, <1>1 DEF Insert, CallTyped
    <3>2. slots'[Me(t)] = [commit_id |-> snap[t].head, overlay |-> [k \in Keys |-> Missing],
                           sealed |-> None, base |-> snap[t].cells]
        BY Zenon, <1>0, <1>1, <3>1 DEF Insert
    <3>3. QED
        BY Zenon, <3>1, <3>2, FreshBranch
  <2>3. QED
    BY Zenon, <1>1, <2>2 DEF Insert, RegistryEffect
<1>2. CASE Edit(t) \/ Seal(t)
  <2>1. pc[t] = "run" /\ registry' = registry
    BY <1>2 DEF Edit, Seal
  <2>2. slots[Me(t)] \in BranchState /\ Me(t) \in Ids
    BY <1>0, <2>1 DEF Active
  <2>3. slots'[Me(t)] # Gone
    <3>1. slots' = slots \/ slots'[Me(t)] = Gone \/ slots'[Me(t)] \in BranchState
        BY Zenon DEF SlotEffect
    <3>2. slots'[Me(t)] \in BranchState
      <4>1. CASE Edit(t)
        <5>1. PICK o \in Overlays : slots' = [slots EXCEPT ![Me(t)].overlay = o]
            BY Zenon, <4>1 DEF Edit
        <5>2. [slots[Me(t)] EXCEPT !.overlay = o] \in BranchState
            BY <2>2 DEF BranchState
        <5>3. QED
            BY <1>0, <2>2, <5>1, <5>2
      <4>2. CASE Seal(t) /\ slots' # slots
        <5>1. /\ slots' = [slots EXCEPT ![Me(t)].sealed = Compute(slots[Me(t)].overlay, snap[t])]
              /\ snap[t].head < MaxCommit
            BY <4>2 DEF Seal
        <5>2. snap[t] \in State /\ slots[Me(t)].overlay \in Overlays
            BY Zenon, <2>1, <2>2 DEF CallTyped, Active, BranchState
        <5>3. [slots[Me(t)] EXCEPT !.sealed = Compute(slots[Me(t)].overlay, snap[t])] \in BranchState
            BY <2>2, <5>1, <5>2, ComputeTyped DEF BranchState
        <5>4. QED
            BY <1>0, <2>2, <5>1, <5>3
      <4>3. QED
        BY <1>2, <2>2, <4>1, <4>2
    <3>3. QED
        BY <3>2, BranchesAssumption
  <2>4. QED
    BY Zenon, <2>1, <2>2, <2>3 DEF RegistryEffect, SlotEffect, Holding
<1>3. CASE Validate(t) \/ Discard(t) \/ Stage(t) \/ Consume(t)
  <2>1. /\ pc[t] \in Holding /\ Me(t) \in Ids /\ registry' = registry
        /\ pc[t] = "validate" \/ pc[t] \in Active
    BY Zenon, <1>0, <1>3 DEF Validate, Discard, Stage, Consume, Holding, Active
  <2>2. \/ slots' = slots
        \/ /\ slots' = [slots EXCEPT ![Me(t)] = Gone] /\ slots[Me(t)] # Gone
           /\ pc'[t] \in {"evict", "remove"} /\ call' = call
    <3>1. pc[t] \in Active => slots[Me(t)] # Gone
        BY Zenon, <1>0, BranchesAssumption
    <3>2. CASE Validate(t)
      <4>1. \/ slots' = slots
            \/ /\ slots' = [slots EXCEPT ![Me(t)] = Gone] /\ slots[Me(t)] # Gone
               /\ Goto(t, "evict") /\ call' = call
        BY Zenon, <3>2 DEF Validate
      <4>2. QED
        BY <1>0, <4>1 DEF Goto
    <3>3. CASE Discard(t) \/ Consume(t)
        BY Zenon, <1>0, <3>1, <3>3 DEF Discard, Consume, Goto, Active
    <3>4. CASE Stage(t)
      <4>1. \/ slots' = slots
            \/ /\ slots' = [slots EXCEPT ![Me(t)] = Gone]
               /\ Goto(t, "evict") /\ call' = call
        BY Zenon, <3>4 DEF Stage
      <4>2. slots[Me(t)] # Gone
        BY Zenon, <3>1, <3>4 DEF Stage, Active
      <4>3. QED
        BY Zenon, <1>0, <4>1, <4>2 DEF Goto
    <3>5. QED
        BY Zenon, <1>3, <3>2, <3>3, <3>4
  <2>3. slots' # slots => slots[Me(t)] \in BranchState /\ slots'[Me(t)] = Gone
    BY Zenon, <1>0, <2>1, <2>2
  <2>4. QED
    BY Zenon, <2>1, <2>2, <2>3 DEF RegistryEffect
<1>4. CASE Evict(t) \/ Remove(t)
    BY Zenon, <1>4 DEF Evict, Remove, Deregister, RegistryEffect
<1>5. QED
    BY Zenon, <1>1, <1>2, <1>3, <1>4 DEF Moves, ReadHead, Allocate, AllocateExhausted, Find, Get,
       Lock, Observe, BeginWrite, Publish, PublishInDoubt, Fail, RegistryEffect

(* The calls of other threads stay in step with the registry. *)
LEMMA OwnedStep ==
    ASSUME Shape, Registered, NEW t \in Threads, Moves(t), Others(t), SlotEffect(t),
           RegistryEffect(t), TypeOK', NEW u \in Threads
    PROVE  Owned(u)' /\ Emptied(u)'
<1>0. /\ TypeOK /\ CallTyped(t) /\ CallTyped(u) /\ SlotHeld(t) /\ SlotHeld(u) /\ Fresh
      /\ Owned(t) /\ Owned(u) /\ Emptied(u) /\ Emptied(t)
      /\ registry \in [Managers -> SUBSET Ids]
      /\ slots \in [Ids -> BranchState \cup {Absent, Gone}]
    BY Zenon DEF Shape, Registered, TypeOK
<1>1. ASSUME NEW m \in Managers, NEW b \in Ids, slots[b] # Absent, b \in registry'[m]
      PROVE  b \in registry[m]
  <2>1. pc[t] = "insert" => slots[Me(t)] = Absent /\ Me(t) \in Ids
    BY Zenon, <1>0 DEF Fresh, CallTyped
  <2>2. \/ registry' = registry
        \/ /\ pc[t] = "insert"
           /\ registry' = [registry EXCEPT ![call[t].mgr] = @ \cup {Me(t)}]
        \/ registry' = [registry EXCEPT ![call[t].mgr] = @ \ {Me(t)}]
    BY Zenon DEF RegistryEffect
  <2>3. registry \in [Managers -> SUBSET Ids]
    BY <1>0
  <2>4. QED
    BY ZenonT(30), <1>1, <2>1, <2>2, <2>3
<1>2. ASSUME NEW b \in Ids, slots[b] = Gone PROVE slots'[b] = Gone
  <2>1. pc[t] = "insert" => slots[Me(t)] = Absent /\ Me(t) \in Ids
    BY Zenon, <1>0 DEF Fresh, CallTyped
  <2>2. b = Me(t) => slots' = slots
    BY Zenon, <1>2, <2>1, BranchesAssumption DEF RegistryEffect, SlotEffect
  <2>3. QED
    BY Zenon, <1>0, <1>2, <2>2 DEF SlotEffect
<1>3. CASE u # t
  <2>1. pc'[u] = pc[u] /\ call'[u] = call[u] /\ Me(u)' = Me(u)
    BY Zenon, <1>3 DEF Others, Me
  <2>2. pc[u] \in {"lock", "remove"} \cup Holding => Me(u) \in Ids /\ slots[Me(u)] # Absent
    BY Zenon, <1>0 DEF CallTyped, SlotHeld, Holding
  <2>3. Owned(u)'
    <3>1. Owned(u)
        BY <1>0
    <3>2. QED
        BY Zenon, <1>1, <2>1, <2>2, <3>1 DEF Owned
  <2>4. Emptied(u)'
    <3>1. Emptied(u)
        BY <1>0
    <3>2. QED
        BY Zenon, <1>2, <2>1, <2>2, <3>1 DEF Emptied, Holding
  <2>5. QED
    BY <2>3, <2>4
<1>4. CASE u = t
  <2>1. CASE pc'[t] \notin {"lock", "remove"} \cup Holding
    BY Zenon, <1>4, <2>1 DEF Owned, Emptied, Holding
  <2>2. CASE Get(t) /\ pc'[t] = "lock"
    <3>1. /\ call' = call /\ registry' = registry /\ Me(t) \in registry[call[t].mgr]
          /\ pc[t] = "get"
        BY Zenon, <2>2, <1>0 DEF Get, Goto, Return, TypeOK
    <3>2. call[t].mgr \in Managers /\ Me(t) \in Ids
        BY Zenon, <1>0, <3>1 DEF CallTyped, Calls
    <3>3. \A m \in Managers : Me(t) \in registry[m] => m = call[t].mgr
        BY Zenon, <3>1, <3>2 DEF Registered, RegistryAgrees
    <3>4. QED
        BY Zenon, <1>4, <2>2, <3>1, <3>3 DEF Owned, Emptied, Me
  <2>3. CASE pc[t] \in {"lock", "remove"} \cup Holding /\ call'[t] = call[t]
    <3>1. Me(t) \in Ids /\ slots[Me(t)] # Absent /\ Me(t)' = Me(t)
        BY Zenon, <1>0, <2>3 DEF CallTyped, SlotHeld, Holding, Me
    <3>2. Owned(t)'
        BY Zenon, <1>0, <1>1, <2>3, <3>1 DEF Owned
    <3>3. pc'[t] \in {"evict", "remove"} => slots'[Me(t)] = Gone
      <4>1. pc'[t] \in {"evict", "remove"} =>
                Validate(t) \/ Discard(t) \/ Stage(t) \/ Consume(t)
        BY ZenonT(30), <1>0, <2>3 DEF Moves, ReadHead, Allocate, AllocateExhausted, Insert, Find, Get,
           Lock, Evict, Observe, Edit, Seal, Remove, BeginWrite, Publish, PublishInDoubt, Fail,
           Goto, Return, TypeOK
      <4>2. QED
        BY Zenon, <1>0, <3>1, <4>1 DEF Validate, Discard, Stage, Consume, Goto, Return, TypeOK
    <3>4. QED
        BY Zenon, <1>4, <3>1, <3>2, <3>3 DEF Emptied
  <2>4. pc'[t] \in {"lock", "remove"} \cup Holding =>
            \/ Get(t) /\ pc'[t] = "lock"
            \/ pc[t] \in {"lock", "remove"} \cup Holding /\ call'[t] = call[t]
    <3>1. pc \in [Threads -> Steps]
        BY Zenon, <1>0 DEF TypeOK
    <3>2. CASE Get(t)
        BY Zenon, <3>1, <3>2 DEF Get, Goto, Return, Holding
    <3>3. CASE Lock(t) \/ Discard(t) \/ BeginWrite(t) \/ Publish(t) \/ Consume(t)
        BY Zenon, <3>1, <3>3 DEF Lock, Discard, BeginWrite, Publish, Consume, Holding
    <3>4. CASE Validate(t) \/ Seal(t) \/ Stage(t)
      <4>1. pc[t] \in Holding
        BY <3>4 DEF Validate, Seal, Stage, Holding
      <4>2. Return(t) \/ call' = call
        BY <3>4 DEF Validate, Seal, Stage
      <4>3. QED
        BY Zenon, <3>1, <4>1, <4>2 DEF Return, Holding
    <3>5. CASE \/ ReadHead(t) \/ Allocate(t) \/ Find(t)
        BY <3>1, <3>5 DEF ReadHead, Allocate, Find, Goto, Holding
    <3>6. CASE Return(t)
        BY <3>1, <3>6 DEF Return, Holding
    <3>7. QED
        BY Zenon, <3>2, <3>3, <3>4, <3>5, <3>6 DEF Moves, AllocateExhausted, Insert, Evict,
           Observe, Edit, Remove, PublishInDoubt, Fail
  <2>5. QED
    BY Zenon, <2>1, <2>2, <2>3, <2>4
<1>5. QED
    BY <1>3, <1>4

(* Each step of a call keeps one entry in step with its branch. *)
LEMMA AgreesStep ==
    ASSUME Shape, Registered, NEW t \in Threads, Moves(t), Others(t), SlotEffect(t),
           RegistryEffect(t), TypeOK', NEW b \in Ids
    PROVE  /\ Open(b)' => \E m \in Managers : b \in registry'[m]
           /\ \A m, n \in Managers : b \in registry'[m] \cap registry'[n] => m = n
           /\ \A m \in Managers : b \in registry'[m] =>
                 \/ Open(b)'
                 \/ /\ slots'[b] = Gone
                    /\ \E u \in Threads : /\ pc'[u] \in {"evict", "remove"}
                                          /\ Me(u)' = b
                                          /\ call'[u].mgr = m
<1>0. /\ TypeOK /\ CallTyped(t) /\ SlotHeld(t) /\ Fresh /\ Owned(t) /\ Emptied(t)
      /\ registry \in [Managers -> SUBSET Ids]
      /\ slots \in [Ids -> BranchState \cup {Absent, Gone}]
      /\ slots' \in [Ids -> BranchState \cup {Absent, Gone}]
    BY Zenon DEF Shape, Registered, TypeOK
<1>1. /\ Open(b) => \E m \in Managers : b \in registry[m]
      /\ \A m, n \in Managers : b \in registry[m] \cap registry[n] => m = n
      /\ \A m \in Managers : b \in registry[m] =>
            \/ Open(b)
            \/ /\ slots[b] = Gone
               /\ \E u \in Threads : /\ pc[u] \in {"evict", "remove"}
                                     /\ Me(u) = b
                                     /\ call[u].mgr = m
    BY Zenon DEF Registered, RegistryAgrees
<1>2. \A u \in Threads \ {t} : pc'[u] = pc[u] /\ call'[u] = call[u] /\ Me(u)' = Me(u)
    BY Zenon DEF Others, Me
<1>3. pc[t] \notin {"idle", "head", "allocate"} => Me(t) \in Ids /\ call[t].mgr \in Managers
    BY Zenon, <1>0 DEF CallTyped, Calls
<1>4. CASE b # Me(t) \/ pc[t] \notin Holding \cup {"insert", "remove"}
  <2>1. /\ slots'[b] = slots[b] /\ (Open(b)' <=> Open(b))
        /\ \A m \in Managers : b \in registry'[m] <=> b \in registry[m]
    <3>1. slots'[b] = slots[b]
        BY Zenon, <1>0, <1>3, <1>4 DEF SlotEffect, Holding
    <3>2. ASSUME NEW m \in Managers PROVE b \in registry'[m] <=> b \in registry[m]
      <4>1. CASE b # Me(t) /\ pc[t] \in {"insert", "evict", "remove"}
        <5>1. \/ registry' = registry
              \/ registry' = [registry EXCEPT ![call[t].mgr] = @ \cup {Me(t)}]
              \/ registry' = [registry EXCEPT ![call[t].mgr] = @ \ {Me(t)}]
            BY Zenon DEF RegistryEffect
        <5>2. registry \in [Managers -> SUBSET Ids]
            BY <1>0
        <5>3. QED
            BY Zenon, <4>1, <5>1, <5>2
      <4>2. CASE pc[t] \notin {"insert", "evict", "remove"}
        BY Zenon, <4>2 DEF RegistryEffect
      <4>3. QED
        BY Zenon, <1>4, <4>1, <4>2 DEF Holding
    <3>3. QED
        BY Zenon, <3>1, <3>2 DEF Open
  <2>2. \A u \in Threads : pc[u] \in {"evict", "remove"} /\ Me(u) = b => u # t
    BY Zenon, <1>4 DEF Holding
  <2>3. ASSUME NEW m \in Managers, NEW u \in Threads,
               pc[u] \in {"evict", "remove"}, Me(u) = b, call[u].mgr = m
        PROVE  pc'[u] \in {"evict", "remove"} /\ Me(u)' = b /\ call'[u].mgr = m
    <3>1. u # t
        BY Zenon, <2>2, <2>3
    <3>2. QED
        BY Zenon, <1>2, <2>3, <3>1
  <2>4. Open(b)' => \E m \in Managers : b \in registry'[m]
    BY Zenon, <1>1, <2>1
  <2>5. \A m, n \in Managers : b \in registry'[m] \cap registry'[n] => m = n
    BY Zenon, <1>1, <2>1
  <2>6. QED
    BY ZenonT(30), <1>1, <2>1, <2>3, <2>4, <2>5
<1>5. CASE b = Me(t) /\ pc[t] = "insert" /\ registry' # registry
  <2>1. /\ slots[b] = Absent /\ slots'[b] \in BranchState
        /\ registry' = [registry EXCEPT ![call[t].mgr] = @ \cup {b}]
    BY Zenon, <1>0, <1>5 DEF RegistryEffect, Fresh, Holding
  <2>2. \A m \in Managers : b \notin registry[m]
    BY Zenon, <1>0, <2>1 DEF Fresh
  <2>3. Open(b)'
    BY Zenon, <2>1, BranchesAssumption DEF Open
  <2>4. QED
    BY Zenon, <1>0, <1>3, <1>5, <2>1, <2>2, <2>3
<1>6. CASE b = Me(t) /\ pc[t] \in Holding /\ registry' = registry /\ slots[b] \in BranchState
           /\ slots'[b] # slots[b]
  <2>1. Open(b)
    BY Zenon, <1>6, BranchesAssumption DEF Open
  <2>2. CASE slots'[b] \in BranchState
    <3>1. Open(b)'
        BY <2>2, BranchesAssumption DEF Open
    <3>2. QED
        BY Zenon, <1>1, <1>6, <2>1, <3>1
  <2>3. CASE slots'[b] = Gone /\ pc'[t] \in {"evict", "remove"} /\ call'[t] = call[t]
    <3>1. Me(t)' = b /\ \A m \in Managers : b \in registry[m] => m = call'[t].mgr
        BY Zenon, <1>0, <1>6, <2>3 DEF Owned, Me
    <3>2. ~Open(b)'
        BY Zenon, <2>3 DEF Open
    <3>3. QED
        BY Zenon, <1>1, <1>6, <2>3, <3>1, <3>2
  <2>4. QED
    BY Zenon, <1>0, <1>6, <2>2, <2>3, BranchesAssumption DEF RegistryEffect, Holding
<1>7. CASE b = Me(t) /\ pc[t] \in {"evict", "remove"} /\ slots' = slots
           /\ registry' = [registry EXCEPT ![call[t].mgr] = @ \ {Me(t)}]
  <2>1. \A m \in Managers : b \notin registry'[m]
    BY Zenon, <1>0, <1>3, <1>7 DEF Owned, Holding
  <2>2. slots'[b] = Gone
    BY Zenon, <1>0, <1>7 DEF Emptied
  <2>3. QED
    BY Zenon, <2>1, <2>2 DEF Open
<1>8. CASE b = Me(t) /\ registry' = registry /\ slots'[b] = slots[b]
           /\ pc[t] \notin {"evict", "remove"}
  <2>1. Open(b)' <=> Open(b)
    BY Zenon, <1>8 DEF Open
  <2>2. QED
    BY <1>1, <1>2, <1>8, <2>1
<1>9. pc[t] \in {"evict", "remove"} =>
          slots' = slots /\ registry' = [registry EXCEPT ![call[t].mgr] = @ \ {Me(t)}]
    BY Zenon DEF Moves, ReadHead, Allocate, AllocateExhausted, Insert, Find, Get, Lock,
       Validate, Evict, Observe, Edit, Seal, Discard, Remove, BeginWrite, Stage, Publish,
       PublishInDoubt, Consume, Fail, Deregister
<1>10. pc[t] = "insert" => registry' = [registry EXCEPT ![call[t].mgr] = @ \cup {Me(t)}]
    BY Zenon DEF Moves, ReadHead, Allocate, AllocateExhausted, Insert, Find, Get, Lock,
       Validate, Evict, Observe, Edit, Seal, Discard, Remove, BeginWrite, Stage, Publish,
       PublishInDoubt, Consume, Fail
<1>11. QED
  <2>1. CASE b = Me(t) /\ pc[t] = "insert"
    <3>1. b \notin registry[call[t].mgr] /\ call[t].mgr \in Managers
        BY Zenon, <1>0, <1>3, <2>1 DEF Fresh
    <3>2. registry' # registry
        BY ZenonT(30), <1>0, <1>10, <2>1, <3>1
    <3>3. QED
        BY Zenon, <1>5, <2>1, <3>2
  <2>2. CASE b = Me(t) /\ pc[t] \in {"evict", "remove"}
    BY Zenon, <1>7, <1>9, <2>2
  <2>3. CASE b = Me(t) /\ pc[t] \in Holding \ {"evict"}
    <3>1. registry' = registry
        BY Zenon, <2>3 DEF RegistryEffect, Holding
    <3>2. slots'[b] # slots[b] => slots[b] \in BranchState
        BY Zenon, <2>3 DEF RegistryEffect, Holding
    <3>3. QED
        BY Zenon, <1>6, <1>8, <2>3, <3>1, <3>2 DEF Holding
  <2>4. QED
    BY Zenon, <1>4, <2>1, <2>2, <2>3 DEF Holding

(* Registered is inductive, given Shape. *)
LEMMA RegisteredStep == Shape /\ Shape' /\ Registered /\ [Next]_vars => Registered'
<1> SUFFICES ASSUME Shape, Shape', Registered, [Next]_vars PROVE Registered'
    OBVIOUS
<1>1. ASSUME NEW t \in Threads, Moves(t) PROVE Registered'
  <2>1. TypeOK /\ TypeOK' /\ CallTyped(t) /\ SlotHeld(t)
    BY DEF Shape
  <2>2. Others(t) /\ SlotEffect(t)
    BY <1>1, <2>1, OthersStep, SlotStep
  <2>3. RegistryEffect(t)
    BY <1>1, <2>1, <2>2, RegistryStep
  <2>4. \A u \in Threads : Owned(u)' /\ Emptied(u)'
    BY <1>1, <2>1, <2>2, <2>3, OwnedStep
  <2>5. RegistryAgrees'
    BY Zenon, <1>1, <2>1, <2>2, <2>3, AgreesStep DEF RegistryAgrees
  <2>6. QED
    BY <2>4, <2>5 DEF Registered
<1>2. ASSUME NEW t \in Threads, Invoke(t) PROVE Registered'
  <2>1. PICK c \in Calls, step \in {"head", "find"} : Called(t, c, step)
    BY <1>2, InvokeStep
  <2>2. /\ pc[t] = "idle" /\ pc'[t] = step /\ UNCHANGED <<slots, registry>>
        /\ \A u \in Threads \ {t} : pc'[u] = pc[u] /\ call'[u] = call[u]
    BY Zenon, <2>1 DEF Called, Shape, TypeOK
  <2>3. ASSUME NEW u \in Threads PROVE Owned(u)' /\ Emptied(u)'
    <3>1. CASE u = t
        BY Zenon, <2>2, <3>1 DEF Owned, Emptied, Holding
    <3>2. CASE u # t
      <4>1. pc'[u] = pc[u] /\ Me(u)' = Me(u) /\ call'[u] = call[u]
        BY Zenon, <2>2, <3>2 DEF Me
      <4>2. Owned(u) /\ Emptied(u)
        BY DEF Registered
      <4>3. QED
        BY Zenon, <2>2, <4>1, <4>2 DEF Owned, Emptied
    <3>3. QED
        BY <3>1, <3>2
  <2>4. \A u \in Threads : pc[u] \in {"evict", "remove"} => pc'[u] = pc[u] /\ call'[u] = call[u]
    BY Zenon, <2>2
  <2>5. RegistryAgrees'
    BY <2>2, <2>4 DEF Registered, RegistryAgrees, Open, Me
  <2>6. QED
    BY Zenon, <2>3, <2>5 DEF Registered
<1>3. CASE ForeignPublish
  <2>1. UNCHANGED <<slots, registry, pc, call>>
    BY <1>3 DEF ForeignPublish
  <2>2. RegistryAgrees'
    BY <2>1 DEF Registered, RegistryAgrees, Open, Me
  <2>3. QED
    BY Zenon, <2>1, <2>2 DEF Registered, Owned, Emptied, Me
<1>4. CASE Crash
    BY Zenon, <1>4 DEF Crash, Registered, RegistryAgrees, Owned, Emptied, Open, Holding
<1>5. CASE UNCHANGED vars
  <2>1. UNCHANGED <<slots, registry, pc, call>>
    BY <1>5 DEF vars
  <2>2. RegistryAgrees'
    BY <2>1 DEF Registered, RegistryAgrees, Open, Me
  <2>3. QED
    BY Zenon, <2>1, <2>2 DEF Registered, Owned, Emptied, Me
<1>6. QED
    BY <1>1, <1>2, <1>3, <1>4, <1>5, MovesCover DEF Next

(* No branch leaks and none becomes unreachable: whatever calls run at once,
   the registry resolves exactly the branches that have state, through one
   manager, but for entries that their own call is about to remove. *)
THEOREM RegistryCorrect == Spec => []RegistryAgrees
<1>1. Init => Registered
    BY Zenon DEF Init, Registered, RegistryAgrees, Owned, Emptied, Open, Holding
<1>2. Spec => []Registered
    BY <1>1, RegisteredStep, ShapeCorrect, PTL DEF Spec
<1>3. Registered => RegistryAgrees
    BY DEF Registered
<1>4. QED
    BY <1>2, <1>3, PTL

-----------------------------------------------------------------------------
(***************************************************************************)
(* Which version a branch and its sealed rows belong to, and from it that  *)
(* Branches implements Versions.                                           *)
(***************************************************************************)

(* A version that was current at some time: an earlier one, or the head. *)
Seen(h, c) == h <= committed.head /\ (h = committed.head => c = committed.cells)

BranchOrigin(b) ==
    slots[b] \in BranchState =>
        /\ Seen(slots[b].commit_id, slots[b].base)
        /\ slots[b].sealed # None =>
              /\ slots[b].sealed.commit_id = slots[b].commit_id + 1
              /\ Apply(slots[b].sealed.writes, slots[b].base) =
                 Apply(slots[b].overlay, slots[b].base)
        /\ b \in published => slots[b].commit_id < committed.head

CallOrigin(t) ==
    /\ pc[t] \in {"allocate", "insert"} => Seen(snap[t].head, snap[t].cells)
    /\ pc[t] \in Active => /\ slots[Me(t)].commit_id = snap[t].head
                           /\ slots[Me(t)].base = snap[t].cells
    /\ pc[t] \in Active \ {"consume"} => Me(t) \notin published
    /\ pc[t] = "stage" => tx[t] = committed
    /\ pc[t] = "publish" =>
          /\ slots[Me(t)].commit_id = committed.head
          /\ tx[t] = [head |-> committed.head + 1,
                      cells |-> Apply(slots[Me(t)].overlay, committed.cells)]

Origin ==
    /\ \A b \in Ids : BranchOrigin(b)
    /\ \A t \in Threads : CallOrigin(t)
    /\ \A b \in published : slots[b] # Absent

(* seal::compute may drop the rows that change nothing. *)
LEMMA ComputeSays ==
    ASSUME NEW o, NEW s
    PROVE  Apply(Compute(o, s).writes, s.cells) = Apply(o, s.cells)
<1>1. ASSUME NEW k \in Keys
      PROVE  Apply(Compute(o, s).writes, s.cells)[k] = Apply(o, s.cells)[k]
    BY DEF Apply, Compute
<1>2. QED
    BY <1>1 DEF Apply

(* What a step of one call does to the store. *)
CommitEffect(t) ==
    \/ committed' = committed /\ published' = published
    \/ /\ pc[t] = "publish"
       /\ committed' = tx[t]
       /\ published' = published \cup {Me(t)}
       /\ slots' = slots
       /\ pc'[t] \in {"idle", "consume"}

(* Only a publication changes the store. *)
LEMMA CommitStep ==
    ASSUME TypeOK, NEW t \in Threads, Moves(t)
    PROVE  CommitEffect(t)
    BY ZenonT(30) DEF TypeOK, CommitEffect, Moves, ReadHead, Allocate, AllocateExhausted, Insert,
       Find, Get, Lock, Validate, Evict, Observe, Edit, Seal, Discard, Remove, BeginWrite,
       Stage, Publish, PublishInDoubt, Consume, Fail, Goto, Return

(* The head never goes back, and a new head is a new number. *)
LEMMA HeadGrows ==
    ASSUME TypeOK, NEW t \in Threads, CommitEffect(t), CallOrigin(t)
    PROVE  committed' = committed \/ committed'.head = committed.head + 1
    BY DEF CommitEffect, CallOrigin

LEMMA PublishedHead ==
    ASSUME NEW t, CallOrigin(t), pc[t] = "publish"
    PROVE  tx[t].head = committed.head + 1
<1>1. \E c : tx[t] = [head |-> committed.head + 1, cells |-> c]
    BY Zenon DEF CallOrigin
<1>2. QED
    BY <1>1

(* A version that was seen stays seen when the head advances. *)
LEMMA SeenStep ==
    ASSUME TypeOK, TypeOK', NEW h \in Heads, NEW c, Seen(h, c),
           committed' = committed \/ committed'.head > committed.head
    PROVE  Seen(h, c)'
    BY DEF TypeOK, State, Heads, Seen

(* The slot that one call holds is left alone by every other call. *)
LEMMA HeldUnchanged ==
    ASSUME Shape, NEW t \in Threads, SlotEffect(t), NEW u \in Threads, u # t, pc[u] \in Holding
    PROVE  Me(u) \in Ids /\ slots'[Me(u)] = slots[Me(u)]
<1>1. Me(u) \in Ids /\ slots[Me(u)] # Absent
    BY DEF Shape, CallTyped, SlotHeld, Holding
<1>2. pc[t] \in Holding \cup {"insert"} => Me(t) \in Ids /\ Me(t) # Me(u)
    BY <1>1, Exclusive DEF Shape, CallTyped, Fresh, Holding
<1>3. QED
    BY <1>1, <1>2 DEF SlotEffect, Shape, TypeOK

(* The typed facts about a call that the steps below use. *)
LEMMA Facts ==
    ASSUME Shape, NEW t \in Threads
    PROVE  /\ TypeOK /\ CallTyped(t) /\ SlotHeld(t)
           /\ pc[t] \in Holding => Me(t) \in Ids
           /\ pc[t] \in Active => /\ Me(t) \in Ids /\ slots[Me(t)] \in BranchState
                                  /\ slots[Me(t)].commit_id \in Heads
                                  /\ slots[Me(t)].overlay \in Overlays
                                  /\ slots[Me(t)].base \in Cells
                                  /\ snap[t] \in State
           /\ pc[t] \in {"allocate", "insert"} => snap[t].head \in Heads /\ snap[t] \in State
           /\ committed \in State /\ committed.head \in Heads /\ committed.head \in Int
           /\ committed.cells \in Cells
           /\ Heads \subseteq Int
<1>1. TypeOK /\ CallTyped(t) /\ SlotHeld(t)
    BY DEF Shape
<1>2. pc[t] \in Active => slots[Me(t)] \in BranchState /\ Me(t) \in Ids /\ snap[t] \in State
    BY <1>1 DEF CallTyped, SlotHeld, Active
<1>3. committed \in State
    BY <1>1 DEF TypeOK
<1>4. committed.head \in Heads /\ committed.cells \in Cells
    BY <1>3 DEF State
<1>5. Heads \subseteq Int
    BY DEF Heads
<1>6. pc[t] \in Active => /\ slots[Me(t)].commit_id \in Heads
                          /\ slots[Me(t)].overlay \in Overlays
                          /\ slots[Me(t)].base \in Cells
    BY <1>2 DEF BranchState
<1>7. pc[t] \in {"allocate", "insert"} => snap[t].head \in Heads /\ snap[t] \in State
    BY <1>1 DEF CallTyped, State
<1>8. pc[t] \in Holding => Me(t) \in Ids
    BY <1>1 DEF CallTyped, Holding
<1>9. QED
    BY Zenon, <1>1, <1>2, <1>3, <1>4, <1>5, <1>6, <1>7, <1>8

LEMMA HeadIsNumber ==
    ASSUME TypeOK
    PROVE  committed.head \in Int /\ committed.head <= committed.head
           /\ ~(committed.head < committed.head) /\ committed.head < committed.head + 1
<1>1. committed.head \in Int
    BY DEF TypeOK, State, Heads
<1>2. QED
    BY <1>1

LEMMA HeadAdvances ==
    ASSUME TypeOK, NEW t \in Threads, CommitEffect(t), CallOrigin(t)
    PROVE  committed' = committed \/ committed'.head > committed.head
<1>1. committed' = committed \/ committed'.head = committed.head + 1
    BY Zenon, HeadGrows
<1>2. committed.head \in Int
    BY HeadIsNumber
<1> HIDE DEF TypeOK, CommitEffect, CallOrigin
<1>3. QED
    BY <1>1, <1>2

(* A step of one call leaves the versions of another call's branch alone. *)
LEMMA OtherOriginStep ==
    ASSUME Shape, Origin, NEW t \in Threads, Others(t), SlotEffect(t), CommitEffect(t),
           TypeOK', NEW u \in Threads, u # t
    PROVE  CallOrigin(u)'
<1>1. /\ pc'[u] = pc[u] /\ call'[u] = call[u] /\ snap'[u] = snap[u] /\ tx'[u] = tx[u]
      /\ CallOrigin(u)
    BY Zenon DEF Others, Origin
<1>2. committed' = committed \/ committed'.head > committed.head
    BY Zenon, HeadAdvances DEF Shape, Origin
<1>3. pc[u] \in {"allocate", "insert"} => Seen(snap[u].head, snap[u].cells)'
    BY ZenonT(30), <1>1, <1>2, SeenStep, Facts DEF CallOrigin, Seen
<1>4. pc[u] \in Active => slots'[Me(u)] = slots[Me(u)]
    BY HeldUnchanged DEF Active, Holding
<1>5. pc[u] \in Writing => committed' = committed
    BY DEF CommitEffect, Shape, LockDiscipline, Writing
<1>6. pc[u] \in Active \ {"consume"} => Me(u) \notin published'
  <2>1. pc[u] \in Active /\ pc[t] = "publish" => Me(u) # Me(t)
    BY Exclusive, Facts DEF Shape, Active, Holding
  <2>2. QED
    BY Zenon, <1>1, <2>1 DEF CommitEffect, CallOrigin
<1>7. QED
    BY Zenon, <1>1, <1>3, <1>4, <1>5, <1>6 DEF CallOrigin, Seen, Me, Active, Writing

(* Each step of a call works on the version its branch started from. *)
LEMMA OwnOriginStep ==
    ASSUME Shape, Origin, NEW t \in Threads, Moves(t), SlotEffect(t), TypeOK'
    PROVE  CallOrigin(t)'
<1>0. /\ CallOrigin(t) /\ pc[t] \in Steps
      /\ pc \in [Threads -> Steps] /\ snap \in [Threads -> State \cup {None}]
      /\ tx \in [Threads -> State \cup {None}]
      /\ slots \in [Ids -> BranchState \cup {Absent, Gone}]
      /\ pc[t] \in Active => Me(t) \in Ids /\ slots[Me(t)] \in BranchState
    BY Zenon, Facts DEF Shape, TypeOK, Origin
<1>1. CASE ReadHead(t)
  <2>1. pc'[t] = "allocate" /\ snap'[t] = committed /\ committed' = committed
    BY Zenon, <1>0, <1>1 DEF ReadHead, Goto
  <2>2. committed.head <= committed.head
    BY Zenon, HeadIsNumber DEF Shape
  <2>3. QED
    BY Zenon, <2>1, <2>2 DEF CallOrigin, Seen, Active
<1>2. CASE Allocate(t)
    BY <1>0, <1>2 DEF Allocate, Goto, CallOrigin, Seen, Active
<1>3. CASE Validate(t)
  <2>1. CASE pc'[t] \notin Active \cup {"allocate", "insert"}
    BY <2>1 DEF CallOrigin, Active
  <2>2. CASE /\ pc'[t] = "run" /\ slots[Me(t)] # Gone /\ AtHead(t) /\ snap'[t] = committed
             /\ slots' = slots /\ call' = call /\ published' = published
    <3>1. Me(t) \in Ids /\ slots[Me(t)] \in BranchState
        BY Zenon, <1>0, <1>3, <2>2, Facts DEF Validate, SlotHeld, Holding
    <3>2. slots[Me(t)].base = committed.cells /\ Me(t) \notin published
      <4>1. BranchOrigin(Me(t)) /\ ~(committed.head < committed.head)
        BY Zenon, <3>1, HeadIsNumber DEF Origin, Shape
      <4>2. QED
        BY Zenon, <2>2, <3>1, <4>1 DEF BranchOrigin, Seen, AtHead
    <3>3. QED
        BY Zenon, <2>2, <3>2 DEF CallOrigin, AtHead, Me, Active
  <2>3. QED
    BY ZenonT(30), <1>0, <1>3, <2>1, <2>2 DEF Validate, Goto, Return, Active
<1>4. CASE Seal(t)
  <2>1. CASE pc'[t] = "idle"
    BY <2>1 DEF CallOrigin, Active
  <2>2. CASE pc'[t] = "begin write" /\ call' = call /\ snap' = snap /\ published' = published
    <3>1. pc[t] = "run" /\ pc[t] \in Active /\ Me(t) \in Ids /\ slots[Me(t)] \in BranchState
        BY <1>0, <1>4 DEF Seal, Active
    <3>2. slots'[Me(t)].commit_id = slots[Me(t)].commit_id /\ slots'[Me(t)].base = slots[Me(t)].base
        BY ZenonT(30), <1>0, <1>4, <3>1 DEF Seal, BranchState
    <3>3. QED
        BY Zenon, <1>0, <2>2, <3>1, <3>2 DEF CallOrigin, Me, Active
  <2>3. QED
    BY <1>0, <1>4, <2>1, <2>2 DEF Seal, Goto, Return
<1>5. CASE BeginWrite(t)
    BY Zenon, <1>0, <1>5 DEF BeginWrite, Goto, CallOrigin, Active, Me
<1>6. CASE Stage(t)
  <2>1. CASE pc'[t] = "evict"
    BY Zenon, <2>1 DEF CallOrigin, Active
  <2>2. CASE /\ pc'[t] = "publish" /\ OriginIsHead(t)
             /\ tx'[t] = [head |-> slots[Me(t)].sealed.commit_id,
                          cells |-> Apply(slots[Me(t)].sealed.writes, tx[t].cells)]
             /\ slots' = slots /\ call' = call /\ snap' = snap /\ committed' = committed
             /\ published' = published
    <3>1. /\ pc[t] = "stage" /\ pc[t] \in Active /\ tx[t] = committed
          /\ Me(t) \in Ids /\ slots[Me(t)] \in BranchState
        BY Zenon, <1>0, <1>6 DEF Stage, CallOrigin, Active
    <3>2. slots[Me(t)].commit_id = committed.head /\ slots[Me(t)].sealed # None
        BY Zenon, <2>2, <3>1, Facts, BranchesAssumption DEF OriginIsHead, SlotHeld, Active
    <3>3. /\ slots[Me(t)].base = committed.cells
          /\ slots[Me(t)].sealed.commit_id = committed.head + 1
          /\ Apply(slots[Me(t)].sealed.writes, committed.cells) =
             Apply(slots[Me(t)].overlay, committed.cells)
        BY Zenon, <3>1, <3>2 DEF Origin, BranchOrigin, Seen
    <3>4. QED
        BY Zenon, <1>0, <2>2, <3>1, <3>2, <3>3 DEF CallOrigin, Me, Active
  <2>3. QED
    BY Zenon, <1>0, <1>6, <2>1, <2>2 DEF Stage, Goto
<1>7. CASE Publish(t)
    BY Zenon, <1>0, <1>7 DEF Publish, Goto, CallOrigin, Active, Me
<1>8. CASE pc'[t] \notin Active \cup {"allocate", "insert"}
    BY <1>8 DEF CallOrigin, Active
<1>9. QED
    BY ZenonT(30), <1>0, <1>1, <1>2, <1>3, <1>4, <1>5, <1>6, <1>7, <1>8 DEF Moves, AllocateExhausted,
       Insert, Find, Get, Lock, Evict, Observe, Edit, Discard, Remove, PublishInDoubt,
       Consume, Fail, Goto, Return, Active

(* Each step of a call keeps every branch on the version it started from. *)
LEMMA BranchOriginStep ==
    ASSUME Shape, Origin, NEW t \in Threads, Moves(t), SlotEffect(t), CommitEffect(t),
           TypeOK', NEW b \in Ids
    PROVE  BranchOrigin(b)'
<1> SUFFICES ASSUME slots'[b] \in BranchState PROVE BranchOrigin(b)'
    BY Zenon DEF BranchOrigin
<1>0. /\ CallOrigin(t) /\ BranchOrigin(b)
      /\ slots \in [Ids -> BranchState \cup {Absent, Gone}]
      /\ slots[b] = Absent => b \notin published
    BY Zenon DEF Origin, Shape, TypeOK
<1>1. committed' = committed \/ committed'.head > committed.head
    BY Zenon, <1>0, HeadAdvances DEF Shape
<1>2. \A h \in Heads, c \in Cells : Seen(h, c) => Seen(h, c)'
    BY <1>1, SeenStep DEF Shape
<1>3. \A h \in Heads : h < committed.head => h < committed'.head
  <2>1. committed'.head \in Int /\ committed.head \in Int /\ Heads \subseteq Int
    BY Zenon, Facts DEF TypeOK, State, Heads
  <2>2. QED
    BY <1>1, <2>1
<1>4. CASE slots'[b] = slots[b]
  <2>1. /\ slots[b].commit_id \in Heads /\ slots[b].base \in Cells
    BY <1>4 DEF BranchState
  <2>2. b \in published' => slots[b].commit_id < committed'.head
    <3>1. CASE b \in published
        BY Zenon, <1>0, <1>3, <1>4, <2>1, <3>1 DEF BranchOrigin
    <3>2. CASE b \notin published /\ b \in published'
      <4>1. pc[t] = "publish" /\ b = Me(t) /\ committed' = tx[t]
        BY Zenon, <3>2 DEF CommitEffect
      <4>2. slots[b].commit_id = committed.head /\ committed'.head = committed.head + 1
        BY Zenon, <1>0, <4>1, PublishedHead DEF CallOrigin
      <4>3. QED
        BY Zenon, <4>2, HeadIsNumber DEF Shape
    <3>3. QED
        BY Zenon, <3>1, <3>2
  <2>3. QED
    BY Zenon, <1>0, <1>2, <1>4, <2>1, <2>2 DEF BranchOrigin, Seen
<1>5. CASE Insert(t) /\ b = Me(t)
  <2>1. /\ slots'[b].commit_id = snap[t].head /\ slots'[b].base = snap[t].cells
        /\ slots'[b].sealed = None /\ slots[b] = Absent
        /\ committed' = committed /\ published' = published
    BY Zenon, <1>0, <1>5 DEF Insert, Shape, Fresh
  <2>2. Seen(snap[t].head, snap[t].cells)
    BY Zenon, <1>0, <1>5 DEF Insert, CallOrigin
  <2>3. QED
    BY Zenon, <1>0, <2>1, <2>2 DEF BranchOrigin, Seen
<1>6. CASE Edit(t) /\ b = Me(t)
  <2>1. slots[b] \in BranchState /\ slots[b].sealed = None
    BY Zenon, <1>6, Facts DEF Edit, Active, RequireOpen
  <2>2. /\ slots'[b].commit_id = slots[b].commit_id /\ slots'[b].base = slots[b].base
        /\ slots'[b].sealed = None /\ committed' = committed /\ published' = published
    BY <1>0, <1>6, <2>1 DEF Edit, BranchState
  <2>3. QED
    BY Zenon, <1>0, <2>1, <2>2 DEF BranchOrigin, Seen
<1>7. CASE Seal(t) /\ b = Me(t) /\ slots'[b] # slots[b]
  <2>1. slots[b] \in BranchState
    BY Zenon, <1>7, Facts DEF Seal, Active
  <2>2. slots' = [slots EXCEPT ![b].sealed = Compute(slots[b].overlay, snap[t])]
    BY Zenon, <1>7 DEF Seal
  <2>3. /\ slots'[b].commit_id = slots[b].commit_id /\ slots'[b].base = slots[b].base
        /\ slots'[b].overlay = slots[b].overlay
        /\ slots'[b].sealed = Compute(slots[b].overlay, snap[t])
    BY <1>0, <2>1, <2>2 DEF BranchState
  <2>4. slots[b].commit_id = snap[t].head /\ slots[b].base = snap[t].cells
    BY Zenon, <1>0, <1>7 DEF Seal, CallOrigin, Active
  <2>5. /\ slots'[b].sealed.commit_id = slots'[b].commit_id + 1
        /\ Apply(slots'[b].sealed.writes, slots'[b].base) = Apply(slots'[b].overlay, slots'[b].base)
    <3>1. Compute(slots[b].overlay, snap[t]).commit_id = snap[t].head + 1
        BY Zenon DEF Compute
    <3>2. Apply(Compute(slots[b].overlay, snap[t]).writes, snap[t].cells)
             = Apply(slots[b].overlay, snap[t].cells)
        BY Zenon, ComputeSays
    <3>3. QED
        BY Zenon, <2>3, <2>4, <3>1, <3>2
  <2>6. committed' = committed /\ published' = published
    BY Zenon, <1>7 DEF Seal
  <2>7. QED
    BY Zenon, <1>0, <2>1, <2>3, <2>5, <2>6 DEF BranchOrigin, Seen
<1>8. slots'[b] # slots[b] => (Insert(t) \/ Edit(t) \/ Seal(t)) /\ b = Me(t)
  <2>1. slots'[b] # Gone
    BY Zenon, BranchesAssumption
  <2>2. QED
    BY ZenonT(30), <1>0, <2>1 DEF Moves, ReadHead, Allocate, AllocateExhausted, Find, Get, Lock, Validate,
       Evict, Observe, Discard, Remove, BeginWrite, Stage, Publish, PublishInDoubt,
       Consume, Fail, SlotEffect, Insert, Edit, Seal
<1>9. QED
    BY Zenon, <1>4, <1>5, <1>6, <1>7, <1>8

(* Origin holds at the start: there is no branch and no call. *)
LEMMA OriginInit == Init => Origin
    BY ZenonT(30), BranchesAssumption DEF Init, Origin, BranchOrigin, CallOrigin, Active

(* A step of a call keeps Origin. *)
LEMMA OriginProgress ==
    ASSUME Shape, Shape', Origin, NEW t \in Threads, Moves(t)
    PROVE  Origin'
<1>1. TypeOK /\ TypeOK'
    BY DEF Shape
<1>2. Others(t) /\ SlotEffect(t) /\ CommitEffect(t)
    BY Zenon, <1>1, Facts, OthersStep, SlotStep, CommitStep
<1>3. \A b \in Ids : BranchOrigin(b)'
    BY <1>1, <1>2, BranchOriginStep
<1>4. \A u \in Threads : CallOrigin(u)'
    BY <1>1, <1>2, OwnOriginStep, OtherOriginStep
<1>5. ASSUME NEW b \in published' PROVE slots'[b] # Absent
  <2>1. b \in Ids
    BY <1>1 DEF TypeOK
  <2>2. slots[b] # Absent
    BY Zenon, <1>2, Facts DEF Origin, CommitEffect, SlotHeld, Holding
  <2>3. QED
    BY Zenon, <1>1, <1>2, <2>1, <2>2, BranchesAssumption DEF SlotEffect, TypeOK
<1>6. QED
    BY Zenon, <1>3, <1>4, <1>5 DEF Origin

(* So do the other steps: they change no branch, or end them all. *)
LEMMA OriginOther ==
    ASSUME Shape, Shape', Origin,
           (\E t \in Threads : Invoke(t)) \/ ForeignPublish \/ Crash \/ UNCHANGED vars
    PROVE  Origin'
<1>1. ASSUME NEW t \in Threads, Invoke(t) PROVE Origin'
  <2>1. PICK c \in Calls, step \in {"head", "find"} : Called(t, c, step)
    BY <1>1, InvokeStep
  <2>2. /\ pc'[t] = step
        /\ \A u \in Threads \ {t} : pc'[u] = pc[u] /\ call'[u] = call[u]
        /\ UNCHANGED <<slots, committed, published, snap, tx>>
    BY Zenon, <2>1 DEF Called, Shape, TypeOK
  <2>3. ASSUME NEW u \in Threads PROVE CallOrigin(u)'
    <3>1. CASE u = t
        BY Zenon, <2>2, <3>1 DEF CallOrigin, Active
    <3>2. CASE u # t
      <4>1. CallOrigin(u) /\ pc'[u] = pc[u] /\ Me(u)' = Me(u)
        BY Zenon, <2>2, <3>2 DEF Origin, Me
      <4>2. QED
        BY Zenon, <2>2, <4>1 DEF CallOrigin, Seen
    <3>3. QED
        BY <3>1, <3>2
  <2>4. \A b \in Ids : BranchOrigin(b)'
    BY Zenon, <2>2 DEF Origin, BranchOrigin, Seen
  <2>5. QED
    BY Zenon, <2>2, <2>3, <2>4 DEF Origin
<1>2. CASE ForeignPublish
  <2>1. committed'.head > committed.head
    <3>1. committed.head \in Int
        BY DEF Shape, TypeOK, State, Heads
    <3>2. QED
        BY <1>2, <3>1, BranchesAssumption DEF ForeignPublish
  <2>2. UNCHANGED <<slots, pc, call, snap, tx, published>> /\ writer = None
    BY <1>2 DEF ForeignPublish
  <2>3. ASSUME NEW b \in Ids PROVE BranchOrigin(b)'
    <3>1. SUFFICES ASSUME slots[b] \in BranchState PROVE BranchOrigin(b)'
        BY Zenon, <2>2 DEF BranchOrigin
    <3>2. slots[b].commit_id \in Heads /\ BranchOrigin(b)
        BY Zenon, <3>1 DEF BranchState, Origin
    <3>3. Seen(slots[b].commit_id, slots[b].base)'
        BY Zenon, <2>1, <2>2, <3>1, <3>2, SeenStep DEF BranchOrigin, Shape, Seen
    <3>4. slots[b].commit_id < committed.head => slots[b].commit_id < committed'.head
        BY <2>1, <3>2 DEF Shape, TypeOK, State, Heads
    <3>5. QED
        BY Zenon, <2>2, <3>1, <3>2, <3>3, <3>4 DEF BranchOrigin
  <2>4. ASSUME NEW u \in Threads PROVE CallOrigin(u)'
    <3>1. pc[u] \notin Writing
        BY Zenon, <2>2, BranchesAssumption DEF Shape, LockDiscipline
    <3>2. pc[u] \in {"allocate", "insert"} => Seen(snap[u].head, snap[u].cells)'
      <4>1. SUFFICES ASSUME pc[u] \in {"allocate", "insert"}
                     PROVE  Seen(snap[u].head, snap[u].cells)'
        BY Zenon
      <4>2. snap[u].head \in Heads /\ Seen(snap[u].head, snap[u].cells)
        BY Zenon, <4>1, Facts DEF Origin, CallOrigin
      <4>3. QED
        BY Zenon, <2>1, <2>2, <4>2, SeenStep DEF Shape, Seen
    <3>3. QED
        BY Zenon, <2>2, <3>1, <3>2 DEF Origin, CallOrigin, Writing, Me
  <2>5. QED
    BY <2>2, <2>3, <2>4 DEF Origin
<1>3. CASE Crash
    BY Zenon, <1>3, BranchesAssumption DEF Crash, Origin, BranchOrigin, CallOrigin, Active
<1>4. CASE UNCHANGED vars
    BY ZenonT(30), <1>4 DEF vars, Origin, BranchOrigin, CallOrigin, Seen, Me
<1>5. QED
    BY <1>1, <1>2, <1>3, <1>4

(* Shape and Origin together are invariant. *)
LEMMA OriginCorrect == Spec => [](Shape /\ Origin)
<1>1. Init => Shape /\ Origin
    BY ShapeInit, OriginInit
<1>2. Shape /\ Origin /\ [Next]_vars => (Shape /\ Origin)'
    BY ShapeStep, OriginProgress, OriginOther, MovesCover DEF Next
<1>3. QED
    BY <1>1, <1>2, PTL DEF Spec

(* Every operation that with_slot runs reads the very version its branch began
   over, whatever other threads, managers and writers publish in between. *)
THEOREM SnapshotCorrect == Spec => []SnapshotIsOrigin
<1>1. Shape /\ Origin => SnapshotIsOrigin
  <2>1. SUFFICES ASSUME Shape, Origin, NEW t \in Threads, pc[t] \in Active
                 PROVE  /\ Open(Me(t))
                        /\ slots[Me(t)].commit_id = snap[t].head
                        /\ slots[Me(t)].base = snap[t].cells
    BY DEF SnapshotIsOrigin, Active
  <2>2. slots[Me(t)] \in BranchState
    BY Zenon, <2>1, Facts
  <2>3. QED
    BY Zenon, <2>1, <2>2, BranchesAssumption DEF Origin, CallOrigin, Open
<1>2. QED
    BY <1>1, OriginCorrect, PTL

(* The rows a branch was sealed with can be replayed on the head at any later
   time at which its origin is still the head. *)
THEOREM SealedCorrect == Spec => []SealedIsCurrent
<1>1. Shape /\ Origin => SealedIsCurrent
  <2>1. SUFFICES ASSUME Shape, Origin, NEW b \in Ids, Open(b), slots[b].sealed # None,
                        slots[b].commit_id = committed.head
                 PROVE  /\ slots[b].sealed.commit_id = committed.head + 1
                        /\ Apply(slots[b].sealed.writes, committed.cells) =
                           Apply(slots[b].overlay, committed.cells)
    BY Zenon DEF SealedIsCurrent
  <2>2. slots[b] \in BranchState /\ BranchOrigin(b)
    BY Zenon, <2>1 DEF Shape, TypeOK, Open, Origin
  <2>3. QED
    BY Zenon, <2>1, <2>2 DEF BranchOrigin, Seen
<1>2. QED
    BY <1>1, OriginCorrect, PTL

(* Commit never publishes a branch a second time, also after tx.commit()
   reported an error for a publication that took place. *)
THEOREM OnceCorrect == Spec => []PublishedOnce
<1>1. Shape /\ Origin => PublishedOnce
  <2>1. SUFFICES ASSUME Shape, Origin, NEW t \in Threads, pc[t] = "publish", Me(t) \in published
                 PROVE  FALSE
    BY DEF PublishedOnce
  <2>2. Me(t) \in Ids /\ slots[Me(t)] \in BranchState /\ committed.head \in Int
    BY Zenon, <2>1, Facts DEF Active
  <2>3. slots[Me(t)].commit_id = committed.head /\ slots[Me(t)].commit_id < committed.head
    BY Zenon, <2>1, <2>2 DEF Origin, CallOrigin, BranchOrigin
  <2>4. QED
    BY <2>2, <2>3
<1>2. QED
    BY <1>1, OriginCorrect, PTL

-----------------------------------------------------------------------------
(* The refinement. *)

AbstractBranches == [b \in Ids |-> AbstractBranch(b)]

Image(s) ==
    [origin |-> s.commit_id, overlay |-> s.overlay, frozen |-> s.sealed # None]

(* The image of a branch is a branch of Versions, and none of the markers. *)
LEMMA ImageTyped ==
    ASSUME NEW s \in BranchState
    PROVE  Image(s) \in Abstract!Branch /\ Image(s) \notin {Absent, Gone}
<1>1. s.commit_id \in Nat /\ s.overlay \in Overlays
    BY DEF BranchState, Heads
<1>2. (s.sealed # None) \in BOOLEAN
    OBVIOUS
<1>3. Image(s) \in Abstract!Branch
    BY Zenon, <1>1, <1>2 DEF Image, Abstract!Branch, Abstract!Overlays, Overlays
<1>4. QED
    BY <1>3, VersionsAssumption

(* The image is frozen when the branch is sealed. *)
LEMMA ImageFrozen ==
    ASSUME NEW s
    PROVE  /\ s.sealed = None => Image(s).frozen = FALSE
           /\ s.sealed # None => Image(s).frozen = TRUE
           /\ Image(s).origin = s.commit_id /\ Image(s).overlay = s.overlay
<1>1. /\ s.sealed = None => (s.sealed # None) = FALSE
      /\ s.sealed # None => (s.sealed # None) = TRUE
    OBVIOUS
<1>2. ASSUME NEW f
      PROVE  [origin |-> s.commit_id, overlay |-> s.overlay, frozen |-> f].frozen = f
    OBVIOUS
<1>3. Image(s).frozen = (s.sealed # None)
    BY <1>2 DEF Image
<1>4. Image(s).origin = s.commit_id /\ Image(s).overlay = s.overlay
    BY DEF Image
<1>5. QED
    BY Zenon, <1>1, <1>3, <1>4

(* An edit of the overlay is an edit of the image's overlay. *)
LEMMA ImageEdit ==
    ASSUME NEW s \in BranchState, NEW o \in Overlays
    PROVE  Image([s EXCEPT !.overlay = o]) = [Image(s) EXCEPT !.overlay = o]
<1> DEFINE r == [s EXCEPT !.overlay = o]
<1>1. r.commit_id = s.commit_id /\ r.overlay = o /\ r.sealed = s.sealed
    BY DEF BranchState
<1>2. Image(r) = [origin |-> s.commit_id, overlay |-> o, frozen |-> s.sealed # None]
    BY <1>1 DEF Image
<1>3. QED
    BY <1>2 DEF Image

(* Sealing a branch freezes its image. *)
LEMMA ImageSeal ==
    ASSUME NEW s \in BranchState, NEW c \in Sealed
    PROVE  Image([s EXCEPT !.sealed = c]) = [Image(s) EXCEPT !.frozen = TRUE]
<1> DEFINE r == [s EXCEPT !.sealed = c]
<1>1. r.commit_id = s.commit_id /\ r.overlay = s.overlay /\ r.sealed = c
    BY DEF BranchState
<1>2. (c # None) = TRUE
    BY BranchesAssumption
<1>3. Image(r) = [origin |-> s.commit_id, overlay |-> s.overlay, frozen |-> TRUE]
    BY Zenon, <1>1, <1>2 DEF Image
<1>4. ASSUME NEW f, NEW g
      PROVE  [[origin |-> s.commit_id, overlay |-> s.overlay, frozen |-> f]
                 EXCEPT !.frozen = g] =
             [origin |-> s.commit_id, overlay |-> s.overlay, frozen |-> g]
    OBVIOUS
<1>5. QED
    BY Zenon, <1>3, <1>4 DEF Image

(* A branch with state that was not published is live for Versions. *)
LEMMA AbstractLive ==
    ASSUME NEW b \in Ids, slots[b] \in BranchState, b \notin published
    PROVE  AbstractBranches[b] = Image(slots[b]) /\ AbstractBranches[b] \notin {Absent, Gone}
<1>1. AbstractBranches[b] = Image(slots[b])
    BY Zenon, BranchesAssumption DEF AbstractBranches, AbstractBranch, Open, Image
<1>2. QED
    BY <1>1, ImageTyped

(* The same, after a step. *)
LEMMA AbstractLiveNext ==
    ASSUME NEW b \in Ids, slots'[b] \in BranchState, b \notin published'
    PROVE  AbstractBranches'[b] = Image(slots'[b])
    BY Zenon, BranchesAssumption DEF AbstractBranches, AbstractBranch, Open, Image

(* A step that changes no slot and publishes nothing changes no image. *)
LEMMA AbstractSame ==
    ASSUME slots' = slots, published' = published
    PROVE  AbstractBranches' = AbstractBranches
    BY Zenon DEF AbstractBranches, AbstractBranch, Open

(* A step that changes one slot and publishes nothing changes one image. *)
LEMMA AbstractOne ==
    ASSUME TypeOK, NEW b \in Ids, slots' = [slots EXCEPT ![b] = slots'[b]], published' = published
    PROVE  AbstractBranches' = [AbstractBranches EXCEPT ![b] = AbstractBranches'[b]]
<1>1. \A c \in Ids \ {b} : slots'[c] = slots[c]
    BY DEF TypeOK
<1>2. \A c \in Ids \ {b} : AbstractBranch(c)' = AbstractBranch(c)
    BY Zenon, <1>1 DEF AbstractBranch, Open
<1>3. QED
    BY Zenon, <1>2 DEF AbstractBranches

(* A branch loses its state: Versions drops it, unless it was published. *)
LEMMA RefineGone ==
    ASSUME TypeOK, NEW b \in Ids, slots[b] \in BranchState, slots' = [slots EXCEPT ![b] = Gone],
           published' = published, committed' = committed
    PROVE  Abstract!Drop(b) \/ UNCHANGED Abstract!vars
<1>1. slots'[b] = Gone
    BY DEF TypeOK
<1>2. AbstractBranches' = [AbstractBranches EXCEPT ![b] = Gone]
  <2>1. AbstractBranches'[b] = Gone
    BY <1>1 DEF AbstractBranches, AbstractBranch, Open
  <2>2. QED
    BY Zenon, <1>1, <2>1, AbstractOne
<1>3. CASE b \in published
  <2>1. AbstractBranches[b] = Gone
    BY Zenon, <1>3, BranchesAssumption DEF AbstractBranches, AbstractBranch, Open
  <2>2. AbstractBranches' = AbstractBranches
    BY Zenon, <1>2, <2>1 DEF AbstractBranches
  <2>3. QED
    BY <2>2 DEF Abstract!vars, AbstractBranches
<1>4. CASE b \notin published
  <2>1. AbstractBranches[b] \notin {Absent, Gone}
    BY <1>4, AbstractLive
  <2>2. QED
    BY <1>2, <2>1 DEF Abstract!Drop, Abstract!Live, AbstractBranches
<1>5. QED
    BY <1>3, <1>4

(* Insert is the birth of a branch, from the head or from an older version. *)
LEMMA RefineInsert ==
    ASSUME Shape, Shape', Origin, NEW t \in Threads, Insert(t)
    PROVE  Me(t) \in Ids /\ Abstract!Begin(Me(t))
<1> DEFINE b == Me(t)
           new == [commit_id |-> snap[t].head, overlay |-> [k \in Keys |-> Missing],
                   sealed |-> None, base |-> snap[t].cells]
           image == [origin |-> snap[t].head, overlay |-> [k \in Keys |-> Missing],
                     frozen |-> FALSE]
<1>1. b \in Ids /\ slots[b] = Absent /\ snap[t] \in State /\ TypeOK
    BY Zenon DEF Shape, Fresh, CallTyped, Insert
<1>2. b \notin published
    BY <1>1 DEF Origin
<1>3. /\ slots' = [slots EXCEPT ![b] = slots'[b]]
      /\ slots'[b] = new
      /\ published' = published /\ committed' = committed
    BY Zenon, <1>1 DEF Insert, TypeOK
<1>4. new \in BranchState
    BY Zenon, <1>1 DEF BranchState, State, Overlays
<1>5. AbstractBranches[b] = Absent
    BY Zenon, <1>1 DEF AbstractBranches, AbstractBranch, Open
<1>6. AbstractBranches'[b] = image
  <2>1. AbstractBranches'[b] = Image(new)
    BY Zenon, <1>1, <1>2, <1>3, <1>4, AbstractLiveNext
  <2>2. (new.sealed # None) = FALSE
    OBVIOUS
  <2>3. QED
    BY Zenon, <2>1, <2>2 DEF Image
<1>7. AbstractBranches' = [AbstractBranches EXCEPT ![b] = image]
    BY Zenon, <1>1, <1>3, <1>6, AbstractOne
<1>8. snap[t].head \in 0..committed.head
  <2>1. snap[t].head <= committed.head
    BY Zenon DEF Origin, CallOrigin, Seen, Insert
  <2>2. snap[t].head \in Heads /\ committed.head \in Heads
    BY Zenon, <1>1 DEF State, TypeOK
  <2>3. QED
    BY <2>1, <2>2 DEF Heads
<1>9. QED
    BY Zenon, <1>1, <1>3, <1>5, <1>7, <1>8 DEF Abstract!Begin, AbstractBranches

(* An edit of an open branch replaces its overlay. *)
LEMMA RefineEdit ==
    ASSUME Shape, Origin, NEW t \in Threads, Edit(t)
    PROVE  Me(t) \in Ids /\ Abstract!Edit(Me(t))
<1> DEFINE b == Me(t)
<1>1. /\ b \in Ids /\ slots[b] \in BranchState /\ b \notin published
      /\ slots[b].sealed = None /\ TypeOK
    BY Facts DEF Edit, Active, Origin, CallOrigin, RequireOpen
<1>2. PICK o \in Overlays : slots' = [slots EXCEPT ![b].overlay = o]
    BY Zenon DEF Edit
<1>3. /\ slots' = [slots EXCEPT ![b] = slots'[b]]
      /\ slots'[b] = [slots[b] EXCEPT !.overlay = o]
    BY <1>1, <1>2 DEF TypeOK
<1>4. published' = published /\ committed' = committed
    BY DEF Edit
<1>5. slots'[b] \in BranchState
    BY <1>1, <1>3 DEF BranchState
<1>6. /\ AbstractBranches[b] = Image(slots[b])
      /\ AbstractBranches[b] \notin {Absent, Gone}
    BY Zenon, <1>1, AbstractLive
<1>7. AbstractBranches'[b] = [AbstractBranches[b] EXCEPT !.overlay = o]
    BY <1>1, <1>3, <1>4, <1>5, <1>6, AbstractLiveNext, ImageEdit
<1>8. AbstractBranches' = [AbstractBranches EXCEPT ![b].overlay = o]
    BY <1>1, <1>3, <1>4, <1>7, AbstractOne
<1>9. AbstractBranches[b].frozen = FALSE
    BY Zenon, <1>1, <1>6, ImageFrozen
<1>10. o \in Abstract!Overlays
    BY DEF Abstract!Overlays, Overlays
<1>11. QED
    BY Zenon, <1>1, <1>4, <1>6, <1>8, <1>9, <1>10 DEF Abstract!Edit, Abstract!Live, AbstractBranches

(* Sealing freezes a branch; sealing it again changes nothing. *)
LEMMA RefineSeal ==
    ASSUME Shape, Origin, NEW t \in Threads, Seal(t)
    PROVE  Me(t) \in Ids /\ (Abstract!Freeze(Me(t)) \/ UNCHANGED Abstract!vars)
<1> DEFINE b == Me(t)
           c == Compute(slots[b].overlay, snap[t])
<1>1. b \in Ids /\ slots[b] \in BranchState /\ b \notin published /\ TypeOK
    BY Facts DEF Seal, Active, Origin, CallOrigin
<1>2. published' = published /\ committed' = committed
    BY DEF Seal
<1>3. CASE slots' = slots
    BY <1>1, <1>2, <1>3, AbstractSame DEF Abstract!vars, AbstractBranches
<1>4. CASE slots' = [slots EXCEPT ![b].sealed = c] /\ snap[t].head < MaxCommit
  <2>1. c \in Sealed
    BY <1>4, Facts, ComputeTyped DEF Seal, Active
  <2>2. /\ slots' = [slots EXCEPT ![b] = slots'[b]]
        /\ slots'[b] = [slots[b] EXCEPT !.sealed = c]
    BY <1>1, <1>4 DEF TypeOK
  <2>3. slots'[b] \in BranchState
    BY <1>1, <2>1, <2>2 DEF BranchState
  <2>4. /\ AbstractBranches[b] = Image(slots[b])
        /\ AbstractBranches[b] \notin {Absent, Gone}
    BY Zenon, <1>1, AbstractLive
  <2>5. AbstractBranches'[b] = [AbstractBranches[b] EXCEPT !.frozen = TRUE]
    BY <1>1, <1>2, <2>1, <2>2, <2>3, <2>4, AbstractLiveNext, ImageSeal
  <2>6. AbstractBranches' = [AbstractBranches EXCEPT ![b].frozen = TRUE]
    BY <1>1, <1>2, <2>2, <2>5, AbstractOne
  <2>7. QED
    BY <1>1, <1>2, <2>4, <2>6 DEF Abstract!Freeze, Abstract!Live, AbstractBranches
<1>5. QED
    BY <1>1, <1>3, <1>4 DEF Seal

(* A publication, reported or in doubt, commits the branch on its origin. *)
LEMMA RefinePublish ==
    ASSUME Shape, Origin, NEW t \in Threads, Publish(t) \/ PublishInDoubt(t)
    PROVE  Me(t) \in Ids /\ Abstract!Commit(Me(t))
<1>0. Me(t) \in Ids
    BY Zenon, Facts DEF Publish, PublishInDoubt, Active
<1> PICK b \in Ids : b = Me(t)
    BY <1>0
<1>1. /\ b \in Ids /\ slots[b] \in BranchState /\ b \notin published
      /\ slots[b].sealed \in Sealed /\ TypeOK
    BY Zenon, Facts DEF Publish, PublishInDoubt, Active, Origin, CallOrigin, SlotHeld
<1>2. slots' = slots /\ published' = published \cup {b} /\ committed' = tx[t]
    BY DEF Publish, PublishInDoubt
<1>3. /\ slots[b].commit_id = committed.head
      /\ tx[t] = [head |-> committed.head + 1,
                  cells |-> Apply(slots[b].overlay, committed.cells)]
    BY Zenon DEF Publish, PublishInDoubt, Origin, CallOrigin
<1>4. /\ AbstractBranches[b] = Image(slots[b])
      /\ AbstractBranches[b] \notin {Absent, Gone}
    BY Zenon, <1>1, AbstractLive
<1>5. AbstractBranches' = [AbstractBranches EXCEPT ![b] = Gone]
  <2>1. \A c \in Ids \ {b} : AbstractBranch(c)' = AbstractBranch(c)
    BY Zenon, <1>2 DEF AbstractBranch, Open
  <2>2. AbstractBranch(b)' = Gone
    BY Zenon, <1>1, <1>2, BranchesAssumption DEF AbstractBranch, Open
  <2>3. QED
    BY Zenon, <2>1, <2>2 DEF AbstractBranches
<1>6. /\ AbstractBranches[b].frozen = TRUE
      /\ AbstractBranches[b].origin = committed.head
      /\ AbstractBranches[b].overlay = slots[b].overlay
    BY ZenonT(30), <1>1, <1>3, <1>4, BranchesAssumption, ImageFrozen
<1>7. committed' = [head |-> committed.head + 1,
                    cells |-> Abstract!Apply(AbstractBranches[b].overlay, committed.cells)]
  <2>1. Abstract!Apply(AbstractBranches[b].overlay, committed.cells)
           = Apply(AbstractBranches[b].overlay, committed.cells)
    BY Zenon DEF Abstract!Apply, Apply
  <2>2. QED
    BY Zenon, <1>2, <1>3, <1>6, <2>1
<1>8. QED
    BY Zenon, <1>1, <1>4, <1>5, <1>6, <1>7 DEF Abstract!Commit, Abstract!Live, AbstractBranches

(* Every step of a call is a step of Versions, or one it does not see. *)
LEMMA RefineProgress ==
    ASSUME Shape, Shape', Origin, NEW t \in Threads, Moves(t)
    PROVE  Abstract!Next \/ UNCHANGED Abstract!vars
<1>1. CASE Insert(t)
    BY <1>1, RefineInsert DEF Abstract!Next
<1>2. CASE Edit(t)
    BY <1>2, RefineEdit DEF Abstract!Next
<1>3. CASE Seal(t)
    BY <1>3, RefineSeal DEF Abstract!Next
<1>4. CASE Publish(t) \/ PublishInDoubt(t)
    BY <1>4, RefinePublish DEF Abstract!Next
<1>5. CASE /\ Me(t) \in Ids /\ slots[Me(t)] \in BranchState
           /\ slots' = [slots EXCEPT ![Me(t)] = Gone]
           /\ published' = published /\ committed' = committed
    BY Zenon, <1>5, RefineGone DEF Abstract!Next, Shape
<1>6. CASE slots' = slots /\ published' = published /\ committed' = committed
    BY <1>6, AbstractSame DEF Abstract!vars, AbstractBranches
<1>7. TypeOK /\ Me(t) \in Ids /\ slots[Me(t)] # Absent /\ slots[Me(t)] # Gone
      => slots[Me(t)] \in BranchState
    BY Zenon DEF TypeOK
<1>8. CASE Validate(t) \/ Discard(t) \/ Stage(t) \/ Consume(t)
  <2>1. Me(t) \in Ids /\ slots[Me(t)] # Absent
    BY Zenon, <1>8, Facts DEF Validate, Discard, Stage, Consume, SlotHeld, Holding
  <2>2. pc[t] \in Active => slots[Me(t)] \in BranchState
    BY Zenon, Facts
  <2>3. QED
    BY Zenon, <1>5, <1>6, <1>7, <1>8, <2>1, <2>2
       DEF Validate, Discard, Stage, Consume, Active, Shape
<1>9. QED
    BY Zenon, <1>1, <1>2, <1>3, <1>4, <1>6, <1>8 DEF Moves, ReadHead, Allocate,
       AllocateExhausted, Find, Get, Lock, Evict, Observe, Remove, BeginWrite, Fail

(* So are the steps that are not part of a call. *)
LEMMA RefineOther ==
    ASSUME Shape, Shape',
           (\E t \in Threads : Invoke(t)) \/ ForeignPublish \/ Crash \/ UNCHANGED vars
    PROVE  Abstract!Next \/ UNCHANGED Abstract!vars
<1>1. ASSUME NEW t \in Threads, Invoke(t) PROVE UNCHANGED Abstract!vars
  <2>1. slots' = slots /\ published' = published /\ committed' = committed
    BY <1>1, InvokeStep DEF Called
  <2>2. QED
    BY <2>1, AbstractSame DEF Abstract!vars, AbstractBranches
<1>2. CASE ForeignPublish
  <2>1. slots' = slots /\ published' = published
    BY <1>2 DEF ForeignPublish
  <2>2. committed' \in [head : Nat, cells : Abstract!Cells] /\ committed'.head > committed.head
    <3>1. committed.head \in Nat
        BY DEF Shape, TypeOK, State, Heads
    <3>2. PICK h \in (committed.head + 1)..MaxCommit, c \in Cells :
              committed' = [head |-> h, cells |-> c]
        BY Zenon, <1>2 DEF ForeignPublish
    <3>3. h \in Nat /\ h > committed.head
        BY <3>1, BranchesAssumption
    <3>4. QED
        BY <3>2, <3>3 DEF Abstract!Cells, Cells
  <2>3. AbstractBranches' = AbstractBranches
    BY <2>1, AbstractSame
  <2>4. QED
    BY <2>2, <2>3 DEF Abstract!Next, Abstract!Foreign, AbstractBranches
<1>3. CASE Crash
  <2>1. AbstractBranches' = [b \in Ids |-> Absent]
    BY Zenon, <1>3 DEF Crash, AbstractBranches, AbstractBranch, Open
  <2>2. QED
    BY Zenon, <1>3, <2>1 DEF Crash, Abstract!Next, Abstract!Restart, AbstractBranches
<1>4. CASE UNCHANGED vars
    BY <1>4, AbstractSame DEF vars, Abstract!vars, AbstractBranches
<1>5. QED
    BY <1>1, <1>2, <1>3, <1>4

(* The manager's start is a start of Versions. *)
LEMMA RefineInit == Init => Abstract!Init
<1> SUFFICES ASSUME Init PROVE Abstract!Init
    OBVIOUS
<1>1. AbstractBranches = [b \in Ids |-> Absent]
    BY Zenon DEF Init, AbstractBranches, AbstractBranch, Open
<1>2. committed \in [head : Nat, cells : Abstract!Cells]
    BY Zenon DEF Init, Abstract!Cells
<1>3. QED
    BY <1>1, <1>2 DEF Abstract!Init, AbstractBranches

(* The manager implements Versions for any number of threads, managers, cells
   and branches: each commit applies one branch, in full, to the very version
   that branch began over, and no handle comes back to life. *)
THEOREM Refinement == Spec => ImplementsVersions
<1>1. Shape /\ Origin /\ Shape' /\ [Next]_vars => [Abstract!Next]_(Abstract!vars)
    BY RefineProgress, RefineOther, MovesCover DEF Next
<1>2. QED
    BY <1>1, RefineInit, OriginCorrect, ShapeCorrect, PTL
       DEF Spec, ImplementsVersions, Abstract!Spec

=============================================================================
