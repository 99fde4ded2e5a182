---------------------------- MODULE StorageProofs ---------------------------
(***************************************************************************)
(* Both backends implement the storage traits' promise, for any number of  *)
(* processes, tables, keys and values, and every cursor implements trait   *)
(* ReadCursor's, for any rows, staged writes and calls.                    *)
(*                                                                         *)
(* In the memory store the step that matters is the one that takes a       *)
(* writer's snapshot: that no other transaction writes then follows from   *)
(* who holds the mutex.  In the MDBX adapter no invariant is needed: the   *)
(* catalogue check makes every read and every deletion independent of the  *)
(* handles that are cached.  The merged cursor needs the invariant of its  *)
(* loop: whatever the origin's cursor has passed, the buffer replaces.     *)
(***************************************************************************)
EXTENDS Storage, WellFoundedInduction, TLAPS

-----------------------------------------------------------------------------
(* MemoryStore. *)

(* The writer mutex is held exactly from its acquisition to its release, and a
   process outside a transaction holds no rows. *)
MInv ==
    /\ pc \in [Procs -> {"idle", "read", "locked", "write", "published"}]
    /\ state = [p \in Procs |-> state[p]]
    /\ got = [p \in Procs |-> got[p]]
    /\ \A p \in Procs :
          /\ writer = p <=> pc[p] \in {"locked", "write", "published"}
          /\ pc[p] \in {"idle", "locked", "published"} => state[p] = NoRows

LEMMA InitMInv == Init => MInv
BY Zenon, MemoryAssumption DEF Init, MInv

LEMMA MInvPreserved == MInv /\ [Next]_vars => MInv'
<1> SUFFICES ASSUME MInv, [Next]_vars  PROVE MInv'
  OBVIOUS
<1>1. CASE UNCHANGED vars
  BY <1>1 DEF vars, MInv
<1>2. ASSUME NEW p \in Procs, BeginRead(p)  PROVE MInv'
  BY <1>2 DEF BeginRead, MInv
<1>3. ASSUME NEW p \in Procs, LockWriter(p)  PROVE MInv'
  BY <1>3, MemoryAssumption DEF LockWriter, MInv
<1>4. ASSUME NEW p \in Procs, TakeSnapshot(p)  PROVE MInv'
  BY <1>4 DEF TakeSnapshot, MInv
<1>5. ASSUME NEW p \in Procs, Publish(p)  PROVE MInv'
  BY <1>5 DEF Publish, MInv
<1>6. ASSUME NEW p \in Procs, Release(p)  PROVE MInv'
  BY <1>6, MemoryAssumption DEF Release, MInv
<1>7. ASSUME NEW p \in Procs, Panic(p)  PROVE MInv'
  BY <1>7, MemoryAssumption DEF Panic, MInv
<1>8. ASSUME NEW p \in Procs, NEW t, NEW k, Get(p, t, k)  PROVE MInv'
  BY <1>8 DEF Get, MInv
<1>9. ASSUME NEW p \in Procs, NEW held, Write(p, held)  PROVE MInv'
  BY <1>9 DEF Write, MInv
<1> QED  BY <1>1, <1>2, <1>3, <1>4, <1>5, <1>6, <1>7, <1>8, <1>9
         DEF Next, RefuseWriter, Put, Insert, Delete

(* The operations on rows mean the same in both specifications. *)
LEMMA SameRows ==
    ASSUME NEW s, NEW t, NEW k, NEW v
    PROVE  /\ Abstract!GetIn(s, t, k) = GetIn(s, t, k)
           /\ Abstract!PutIn(s, t, k, v) = PutIn(s, t, k, v)
           /\ Abstract!InsertIn(s, t, k, v) = InsertIn(s, t, k, v)
           /\ Abstract!DeleteIn(s, t, k) = DeleteIn(s, t, k)
           /\ Abstract!NoRows = NoRows
<1>1. Abstract!GetIn(s, t, k) = GetIn(s, t, k) /\ Abstract!NoRows = NoRows
  BY DEF GetIn, Abstract!GetIn, NoRows, Abstract!NoRows
<1>2. Abstract!PutIn(s, t, k, v) = PutIn(s, t, k, v)
  BY DEF PutIn, Abstract!PutIn, WithTable, Abstract!WithTable, TableOf, Abstract!TableOf
<1>3. Abstract!InsertIn(s, t, k, v) = InsertIn(s, t, k, v)
  BY <1>1, <1>2 DEF InsertIn, Abstract!InsertIn
<1>4. Abstract!DeleteIn(s, t, k) = DeleteIn(s, t, k)
  BY <1>1 DEF DeleteIn, Abstract!DeleteIn, WithTable, Abstract!WithTable
<1> QED  BY <1>1, <1>2, <1>3, <1>4

LEMMA MemoryStepRefines == MInv /\ [Next]_vars => [Abstract!Next]_(Abstract!vars)
<1> SUFFICES ASSUME MInv, [Next]_vars  PROVE Abstract!Next \/ UNCHANGED Abstract!vars
  OBVIOUS
<1> USE DEF Abstract!vars
<1>1. CASE UNCHANGED vars
  BY <1>1 DEF vars, Mode
<1>2. ASSUME NEW p \in Procs, BeginRead(p)  PROVE Abstract!BeginRead(p)
  BY Zenon, <1>2 DEF BeginRead, Abstract!BeginRead, Mode, MInv
<1>3. ASSUME NEW p \in Procs, LockWriter(p)  PROVE UNCHANGED Abstract!vars
  BY <1>3 DEF LockWriter, Mode, MInv
<1>4. ASSUME NEW p \in Procs, TakeSnapshot(p)  PROVE Abstract!BeginWrite(p)
  BY Zenon, <1>4 DEF TakeSnapshot, Abstract!BeginWrite, Mode, MInv
<1>5. ASSUME NEW p \in Procs, Publish(p)  PROVE Abstract!Commit(p)
  BY Zenon, <1>5, SameRows DEF Publish, Abstract!Commit, Abstract!End, Mode, MInv
<1>6. ASSUME NEW p \in Procs, Release(p)  PROVE Abstract!Abort(p) \/ UNCHANGED Abstract!vars
  <2>1. CASE pc[p] = "published"
    BY <1>6, <2>1 DEF Release, Mode, MInv
  <2>2. CASE pc[p] # "published"
    BY Zenon, <1>6, <2>2, SameRows DEF Release, Abstract!Abort, Abstract!End, Mode, MInv
  <2> QED  BY <2>1, <2>2
<1>7. ASSUME NEW p \in Procs, Panic(p)  PROVE Abstract!Abort(p)
  BY Zenon, <1>7, SameRows DEF Panic, Abstract!Abort, Abstract!End, Mode, MInv
<1>8. ASSUME NEW p \in Procs, NEW t \in Tables, NEW k \in Keys, Get(p, t, k)
      PROVE  Abstract!Get(p, t, k)
  BY Zenon, <1>8, SameRows DEF Get, Abstract!Get, Mode, MInv
<1>9. ASSUME NEW p \in Procs, NEW held, Write(p, held)  PROVE Abstract!Write(p, held)
  BY <1>9 DEF Write, Abstract!Write, Mode, MInv
<1>10. ASSUME NEW p \in Procs, NEW t \in Tables, NEW k \in Keys, Delete(p, t, k)
       PROVE  Abstract!Next
  BY <1>9, <1>10, SameRows DEF Delete, Abstract!Next
<1>11. ASSUME NEW p \in Procs, NEW t \in Tables, NEW k \in Keys, NEW v \in Values,
              Put(p, t, k, v) \/ Insert(p, t, k, v)
       PROVE  Abstract!Next
  BY <1>9, <1>11, SameRows DEF Put, Insert, Abstract!Next
<1>12. ASSUME NEW p \in Procs, RefuseWriter(p)  PROVE UNCHANGED Abstract!vars
  BY <1>1, <1>12 DEF RefuseWriter, vars, Mode
<1>13. ASSUME NEW p \in Procs,
              \/ Abstract!BeginRead(p) \/ Abstract!BeginWrite(p) \/ Abstract!Commit(p)
              \/ Abstract!Abort(p) \/ \E t \in Tables, k \in Keys : Abstract!Get(p, t, k)
       PROVE  Abstract!Next
  BY <1>13 DEF Abstract!Next
<1> QED  BY <1>1, <1>2, <1>3, <1>4, <1>5, <1>6, <1>7, <1>8, <1>10, <1>11, <1>12, <1>13 DEF Next

(* Readers keep their snapshot, and each writer works on the latest committed
   rows and publishes all of its changes at once or none, also after a panic. *)
THEOREM MemoryImplementsSnapshotStore == Spec => ImplementsSnapshotStore
<1>1. Init => Abstract!Init
  BY SameRows DEF Init, Abstract!Init, Mode
<1> QED  BY <1>1, InitMInv, MInvPreserved, MemoryStepRefines, PTL
         DEF Spec, ImplementsSnapshotStore, Abstract!Spec

-----------------------------------------------------------------------------
(* MdbxStore. *)

(* The operations on rows mean the same in both specifications. *)
LEMMA SameMdbxRows ==
    ASSUME NEW s, NEW t, NEW k, NEW v
    PROVE  /\ X!Abstract!GetIn(s, t, k) = X!GetIn(s, t, k)
           /\ X!Abstract!PutIn(s, t, k, v) = X!PutIn(s, t, k, v)
           /\ X!Abstract!InsertIn(s, t, k, v) = X!InsertIn(s, t, k, v)
           /\ X!Abstract!DeleteIn(s, t, k) = X!DeleteIn(s, t, k)
           /\ X!Abstract!NoRows = X!NoRows
<1>1. X!Abstract!GetIn(s, t, k) = X!GetIn(s, t, k) /\ X!Abstract!NoRows = X!NoRows
  BY DEF X!GetIn, X!Abstract!GetIn, X!NoRows, X!Abstract!NoRows
<1>2. X!Abstract!PutIn(s, t, k, v) = X!PutIn(s, t, k, v)
  BY DEF X!PutIn, X!Abstract!PutIn, X!WithTable, X!Abstract!WithTable, X!TableOf, X!Abstract!TableOf
<1>3. X!Abstract!InsertIn(s, t, k, v) = X!InsertIn(s, t, k, v)
  BY <1>1, <1>2 DEF X!InsertIn, X!Abstract!InsertIn
<1>4. X!Abstract!DeleteIn(s, t, k) = X!DeleteIn(s, t, k)
  BY <1>1 DEF X!DeleteIn, X!Abstract!DeleteIn, X!WithTable, X!Abstract!WithTable
<1> QED  BY <1>1, <1>2, <1>3, <1>4

(* What the adapter reads and deletes does not depend on cached handles. *)
LEMMA HandlesDoNotMatter ==
    ASSUME NEW p \in MdbxProcs, NEW t, NEW k
    PROVE  /\ (IF X!Table(p, t) = {} THEN None ELSE X!NativeGet(p, t, k)) = X!GetIn(transaction[p], t, k)
           /\ (IF X!Table(p, t) = {} THEN transaction[p] ELSE X!DeleteIn(transaction[p], t, k))
                 = X!DeleteIn(transaction[p], t, k)
BY Zenon DEF X!Table, X!NativeGet, X!GetIn, X!DeleteIn

LEMMA MdbxStepRefines == [X!Next]_(X!vars) => [X!Abstract!Next]_(X!Abstract!vars)
<1> SUFFICES ASSUME [X!Next]_(X!vars)  PROVE X!Abstract!Next \/ UNCHANGED X!Abstract!vars
  OBVIOUS
<1>1. CASE UNCHANGED X!vars
  BY <1>1 DEF X!vars, X!Abstract!vars
<1>2. ASSUME NEW p \in MdbxProcs, X!BeginRead(p)  PROVE X!Abstract!BeginRead(p)
  BY <1>2 DEF X!BeginRead, X!Begin, X!Abstract!BeginRead
<1>3. ASSUME NEW p \in MdbxProcs, X!BeginWrite(p)  PROVE X!Abstract!BeginWrite(p)
  BY <1>3 DEF X!BeginWrite, X!Begin, X!Abstract!BeginWrite
<1>4. ASSUME NEW p \in MdbxProcs, X!Commit(p)  PROVE X!Abstract!Commit(p)
  BY Zenon, <1>4, SameMdbxRows DEF X!Commit, X!End, X!Abstract!Commit, X!Abstract!End
<1>5. ASSUME NEW p \in MdbxProcs, X!Abort(p)  PROVE X!Abstract!Abort(p)
  BY Zenon, <1>5, SameMdbxRows DEF X!Abort, X!End, X!Abstract!Abort, X!Abstract!End
<1>6. ASSUME NEW p \in MdbxProcs, NEW t \in MdbxTables, NEW k \in MdbxKeys, X!Get(p, t, k)
      PROVE  X!Abstract!Get(p, t, k)
  <2>1. read' = [read EXCEPT ![p] = X!GetIn(transaction[p], t, k)]
    BY Zenon, <1>6, HandlesDoNotMatter DEF X!Get
  <2> QED  BY Zenon, <1>6, <2>1, SameMdbxRows DEF X!Get, X!Abstract!Get
<1>7. ASSUME NEW p \in MdbxProcs, NEW t \in MdbxTables, NEW k \in MdbxKeys, X!Delete(p, t, k)
      PROVE  X!Abstract!Write(p, X!Abstract!DeleteIn(transaction[p], t, k))
  <2>1. transaction' = [transaction EXCEPT ![p] = X!DeleteIn(transaction[p], t, k)]
    BY Zenon, <1>7, HandlesDoNotMatter DEF X!Delete
  <2> QED  BY ZenonT(30), <1>7, <2>1, SameMdbxRows DEF X!Delete, X!Abstract!Write
<1>8. ASSUME NEW p \in MdbxProcs, NEW t \in MdbxTables, NEW k \in MdbxKeys, NEW held, X!Write(p, t, k, held)
      PROVE  X!Abstract!Write(p, held)
  BY <1>8 DEF X!Write, X!Abstract!Write
<1>9. ASSUME NEW p \in MdbxProcs, NEW t \in MdbxTables, NEW k \in MdbxKeys, NEW v \in MdbxValues,
             X!Put(p, t, k, v) \/ X!Insert(p, t, k, v)
      PROVE  X!Abstract!Next
  BY <1>8, <1>9, SameMdbxRows DEF X!Put, X!Insert, X!Abstract!Next
<1>10. ASSUME NEW p \in MdbxProcs, NEW t \in MdbxTables, NEW k \in MdbxKeys, NEW v \in MdbxValues,
              X!RefuseLarge(p, k) \/ X!RefuseLargeValue(p, k, v)
       PROVE  UNCHANGED X!Abstract!vars
  BY <1>10 DEF X!RefuseLarge, X!RefuseLargeValue, X!vars, X!Abstract!vars
<1>11. ASSUME NEW p \in MdbxProcs,
              \/ X!Abstract!BeginRead(p) \/ X!Abstract!BeginWrite(p) \/ X!Abstract!Commit(p)
              \/ X!Abstract!Abort(p)
              \/ \E t \in MdbxTables, k \in MdbxKeys :
                    X!Abstract!Get(p, t, k) \/ X!Abstract!Write(p, X!Abstract!DeleteIn(transaction[p], t, k))
       PROVE  X!Abstract!Next
  BY <1>11 DEF X!Abstract!Next
<1>12. ASSUME NEW p \in MdbxProcs, NEW k, X!RefuseLarge(p, k)  PROVE UNCHANGED X!Abstract!vars
  BY <1>12 DEF X!RefuseLarge, X!vars, X!Abstract!vars
<1> QED  BY ZenonT(30), <1>1, <1>2, <1>3, <1>4, <1>5, <1>6, <1>7, <1>9, <1>10, <1>11, <1>12 DEF X!Next

(* A read never fails and never leaves its snapshot: the adapter over native
   handles behaves as snapshots with one writer. *)
THEOREM MdbxImplementsSnapshotStore == X!Spec => MdbxImplementsStore
<1>1. X!Init => X!Abstract!Init
  BY SameMdbxRows DEF X!Init, X!Abstract!Init
<1> QED  BY <1>1, MdbxStepRefines, PTL
         DEF X!Spec, MdbxImplementsStore, X!ImplementsSnapshotStore, X!Abstract!Spec

-----------------------------------------------------------------------------
(* Cursors: where a cursor can stand, what lies beyond, and the nearest of it. *)

Positions == {C!Start(k) : k \in CursorKeys} \cup {C!At(k) : k \in CursorKeys} \cup {C!Before, C!After}

(* k lies beyond position p in a direction. *)
Lies(p, k, forward) ==
    \/ p.kind = "Start" /\ (IF forward THEN k >= p.key ELSE k <= p.key)
    \/ p.kind = "At" /\ (IF forward THEN k > p.key ELSE k < p.key)
    \/ p.kind = "Before" /\ forward
    \/ p.kind = "After" /\ ~forward

Beyond(T, p, forward) == {k \in T : Lies(p, k, forward)}

Nearest(T, forward) == IF forward THEN C!Least(T) ELSE C!Greatest(T)

(* x is the first of T in a direction. *)
IsFirst(x, T, forward) == x \in T /\ \A y \in T : IF forward THEN x <= y ELSE x >= y

(* A backend's cursor c stands at position p. *)
Stands(b, c, p) ==
    IF b = "memory" THEN c = [position |-> p]
    ELSE /\ c = [position |-> c.position, at |-> c.at]
         /\ c.position = IF p.kind = "At" THEN [kind |-> "At", key |-> None] ELSE p
         /\ p.kind = "At" => c.at = p.key

LEMMA LeastNatural ==
    ASSUME NEW T \in SUBSET Nat, T # {}
    PROVE  \E x \in T : \A y \in T : x <= y
  <1> DEFINE R == OpToRel(<, Nat)
  <1>1. IsWellFoundedOn(R, Nat)
    BY NatLessThanWellFounded
  <1>2. \A y, x \in Nat : <<y, x>> \in R <=> y < x
    BY DEF OpToRel
  <1> HIDE DEF R
  <1>3. PICK x \in T : \A y \in T : ~ (<<y, x>> \in R)
    BY Zenon, <1>1, WFMin
  <1>4. ASSUME NEW y \in T PROVE x <= y
    <2>1. x \in Nat /\ y \in Nat
      OBVIOUS
    <2>2. ~(y < x)
      BY Zenon, <1>2, <1>3, <2>1
    <2> QED BY <2>1, <2>2
  <1> QED BY <1>4

(* Every set of keys has a least and a greatest. *)
LEMMA KeysHaveEnds ==
    ASSUME NEW T \in SUBSET CursorKeys, T # {}
    PROVE  /\ \E x \in T : \A y \in T : x <= y
           /\ \E x \in T : \A y \in T : x >= y
  <1>1. T \in SUBSET Nat
    BY CursorsAssumption
  <1>2. PICK last \in CursorKeys : \A k \in CursorKeys : k <= last
    BY Zenon, CursorsAssumption
  <1>3. last \in Nat /\ \A k \in T : k \in Nat /\ last - k \in Nat
    BY <1>2, CursorsAssumption
  <1> DEFINE gaps == {last - k : k \in T}
  <1>4. gaps \in SUBSET Nat /\ gaps # {}
    BY Zenon, <1>3
  <1>5. PICK g \in gaps : \A h \in gaps : g <= h
    BY Zenon, <1>4, LeastNatural
  <1>6. PICK x \in T : g = last - x
    BY <1>5
  <1>7. ASSUME NEW y \in T PROVE x >= y
    <2>1. last - y \in gaps
      OBVIOUS
    <2>2. last - x <= last - y
      BY <1>5, <1>6, <2>1
    <2> QED BY <1>3, <2>2
  <1> QED BY <1>1, <1>7, LeastNatural

LEMMA NearestIsFirst ==
    ASSUME NEW T \in SUBSET CursorKeys, NEW forward \in BOOLEAN
    PROVE  /\ T = {} => Nearest(T, forward) = None
           /\ T # {} => IsFirst(Nearest(T, forward), T, forward)
  <1>1. T # {} => IsFirst(C!Least(T), T, TRUE)
    BY KeysHaveEnds DEF C!Least, C!Min, IsFirst
  <1>2. T # {} => IsFirst(C!Greatest(T), T, FALSE)
    BY KeysHaveEnds DEF C!Greatest, C!Max, IsFirst
  <1> QED BY <1>1, <1>2 DEF Nearest, IsFirst, C!Least, C!Greatest

LEMMA FirstIsNearest ==
    ASSUME NEW T \in SUBSET CursorKeys, NEW forward \in BOOLEAN, NEW x, IsFirst(x, T, forward)
    PROVE  Nearest(T, forward) = x
  <1>1. T # {}
    BY DEF IsFirst
  <1>2. IsFirst(Nearest(T, forward), T, forward)
    BY <1>1, NearestIsFirst
  <1>3. \A y \in T : y \in Nat
    BY CursorsAssumption
  <1> QED BY <1>2, <1>3 DEF IsFirst

LEMMA NearestTyped ==
    ASSUME NEW T \in SUBSET CursorKeys, NEW forward \in BOOLEAN
    PROVE  /\ Nearest(T, forward) \in CursorKeys \cup {None}
           /\ Nearest(T, forward) = None <=> T = {}
  BY Zenon, NearestIsFirst, CursorsAssumption DEF IsFirst

LEMMA PositionKinds ==
    ASSUME NEW p \in Positions
    PROVE  /\ p = C!Before \/ p = C!After \/ \E k \in CursorKeys : p = C!Start(k) \/ p = C!At(k)
           /\ p.kind \in {"Start", "At", "Before", "After"}
           /\ p = [kind |-> p.kind, key |-> p.key]
           /\ p.kind \in {"Start", "At"} => p.key \in CursorKeys
           /\ p.kind \notin {"Start", "At"} => p.key = None
  BY DEF Positions, C!Before, C!After, C!Start, C!At

LEMMA NotNoTable ==
    ASSUME NEW T \in SUBSET CursorKeys
    PROVE  T # C!NoTable /\ C!RowsOf(T) = T
  BY Zenon, CursorsAssumption DEF C!NoTable, C!RowsOf

LEMMA LandedTyped ==
    ASSUME NEW T \in SUBSET CursorKeys, NEW forward \in BOOLEAN
    PROVE  C!Landed(Nearest(T, forward), forward) \in Positions
  BY Zenon, NearestTyped DEF C!Landed, Positions

(* The rows beyond a position, per kind. *)
LEMMA BeyondIs ==
    ASSUME NEW T \in SUBSET CursorKeys, NEW p \in Positions
    PROVE  /\ Beyond(T, p, TRUE) \in SUBSET CursorKeys /\ Beyond(T, p, FALSE) \in SUBSET CursorKeys
           /\ p.kind = "Before" => Beyond(T, p, TRUE) = T /\ Beyond(T, p, FALSE) = {}
           /\ p.kind = "After" => Beyond(T, p, TRUE) = {} /\ Beyond(T, p, FALSE) = T
           /\ p.kind = "Start" => /\ Beyond(T, p, TRUE) = {k \in T : k >= p.key}
                                  /\ Beyond(T, p, FALSE) = {k \in T : k <= p.key}
           /\ p.kind = "At" => /\ Beyond(T, p, TRUE) = {k \in T : k > p.key}
                               /\ Beyond(T, p, FALSE) = {k \in T : k < p.key}
  <1>1. Beyond(T, p, TRUE) \in SUBSET CursorKeys /\ Beyond(T, p, FALSE) \in SUBSET CursorKeys
    BY Zenon DEF Beyond
  <1>2. p.kind = "Before" => Beyond(T, p, TRUE) = T /\ Beyond(T, p, FALSE) = {}
    BY DEF Beyond, Lies
  <1>3. p.kind = "After" => Beyond(T, p, TRUE) = {} /\ Beyond(T, p, FALSE) = T
    BY Zenon DEF Beyond, Lies
  <1>4. p.kind = "Start" => /\ Beyond(T, p, TRUE) = {k \in T : k >= p.key}
                            /\ Beyond(T, p, FALSE) = {k \in T : k <= p.key}
    BY DEF Beyond, Lies
  <1>5. p.kind = "At" => /\ Beyond(T, p, TRUE) = {k \in T : k > p.key}
                         /\ Beyond(T, p, FALSE) = {k \in T : k < p.key}
    BY DEF Beyond, Lies
  <1> QED BY ZenonT(30), <1>1, <1>2, <1>3, <1>4, <1>5

LEMMA NearestBeyond ==
    ASSUME NEW T \in SUBSET CursorKeys, NEW p \in Positions
    PROVE  /\ p.kind = "Start" => /\ Nearest(Beyond(T, p, TRUE), TRUE) = C!Least({k \in T : k >= p.key})
                                  /\ Nearest(Beyond(T, p, FALSE), FALSE) = C!Greatest({k \in T : k <= p.key})
           /\ p.kind = "At" => /\ Nearest(Beyond(T, p, TRUE), TRUE) = C!Least({k \in T : k > p.key})
                               /\ Nearest(Beyond(T, p, FALSE), FALSE) = C!Greatest({k \in T : k < p.key})
  <1>1. \A U : Nearest(U, TRUE) = C!Least(U) /\ Nearest(U, FALSE) = C!Greatest(U)
    BY Zenon DEF Nearest
  <1>2. CASE p.kind = "Start"
    <2>1. Beyond(T, p, TRUE) = {k \in T : k >= p.key} /\ Beyond(T, p, FALSE) = {k \in T : k <= p.key}
      BY Zenon, <1>2, BeyondIs
    <2> QED BY <1>1, <1>2, <2>1, Zenon
  <1>3. CASE p.kind = "At"
    <2>1. Beyond(T, p, TRUE) = {k \in T : k > p.key} /\ Beyond(T, p, FALSE) = {k \in T : k < p.key}
      BY Zenon, <1>3, BeyondIs
    <2> QED BY <1>1, <1>3, <2>1, Zenon
  <1> QED BY Zenon, <1>2, <1>3

(* MdbxCursor::advance steps backward onto the start key, or past the row it
   finds after it. *)
LEMMA StartBackward ==
    ASSUME NEW T \in SUBSET CursorKeys, NEW key \in CursorKeys
    PROVE  C!MdbxStartBackward(T, key) = C!Greatest({k \in T : k <= key})
  <1> DEFINE after == {k \in T : k >= key}
             before == {k \in T : k <= key}
             at == C!Least(after)
  <1>1. after \in SUBSET CursorKeys /\ before \in SUBSET CursorKeys /\ \A k \in T : k \in Nat
    BY Zenon, CursorsAssumption
  <1>2. /\ after = {} => at = None
        /\ after # {} => at \in after /\ \A y \in after : at <= y
    BY Zenon, <1>1, NearestIsFirst DEF Nearest, IsFirst
  <1>3. key \in Nat /\ key # None
    BY CursorsAssumption
  <1>4. C!MdbxStartBackward(T, key) =
            CASE at = key  -> at
              [] at = None -> C!Greatest(T)
              [] OTHER     -> C!NativePrev(T, at)
    BY DEF C!MdbxStartBackward, C!SetRange
  <1>5. /\ at = None => \A y \in T : ~(y >= key)
        /\ at # None => at \in T /\ at >= key /\ \A y \in T : y >= key => at <= y
    <2>1. after = {} => at = None /\ \A y \in T : ~(y >= key)
      BY <1>2
    <2>2. after # {} => at \in T /\ at >= key /\ \A y \in T : y >= key => at <= y
      BY <1>2
    <2>3. None \notin T
      BY Zenon, CursorsAssumption
    <2> QED BY <2>1, <2>2, <2>3
  <1> HIDE DEF at
  <1>6. CASE at = key
    <2>1. key \in before /\ \A y \in before : key >= y
      BY <1>1, <1>3, <1>5, <1>6
    <2>2. Nearest(before, FALSE) = key
      BY Zenon, <1>1, <2>1, FirstIsNearest DEF IsFirst
    <2>3. C!MdbxStartBackward(T, key) = key
      BY <1>3, <1>4, <1>6
    <2> QED BY <2>2, <2>3 DEF Nearest
  <1>7. CASE at = None
    <2>1. ASSUME NEW k \in T PROVE k <= key
      BY <1>1, <1>3, <1>5, <1>7
    <2>2. before = T
      BY <2>1
    <2>3. C!MdbxStartBackward(T, key) = C!Greatest(T)
      BY <1>3, <1>4, <1>7
    <2> QED BY <2>2, <2>3
  <1>8. CASE at # key /\ at # None
    <2>1. at \in T /\ at \in Nat /\ at > key
      <3>1. at \in T /\ at >= key /\ at # key
        BY <1>5, <1>8
      <3>2. at \in Nat
        BY <1>1, <3>1
      <3> QED BY <1>3, <3>1, <3>2
    <2>2. ASSUME NEW k \in T PROVE k < at <=> k <= key
      <3>1. k \in Nat /\ (k >= key => at <= k)
        BY <1>1, <1>5, <1>8
      <3>2. key = k => at <= k
        BY <1>3, <3>1
      <3> QED BY <1>3, <2>1, <3>1, <3>2
    <2>3. {k \in T : k < at} = before
      BY <2>2
    <2>4. C!MdbxStartBackward(T, key) = C!NativePrev(T, at)
      BY <1>4, <1>8
    <2> QED BY <2>3, <2>4 DEF C!NativePrev
  <1> QED BY <1>6, <1>7, <1>8

(* One step of a backend's cursor lands on the nearest row beyond it. *)
LEMMA MemoryMoves ==
    ASSUME NEW T \in SUBSET CursorKeys, NEW p \in Positions, NEW forward \in BOOLEAN
    PROVE  LET found == Nearest(Beyond(T, p, forward), forward) IN
           C!MemoryStep(T, [position |-> p], forward)
             = [cursor |-> [position |-> C!Landed(found, forward)], row |-> found]
  <1> DEFINE found == Nearest(Beyond(T, p, forward), forward)
  <1>1. T # C!NoTable /\ C!Least({}) = None /\ C!Greatest({}) = None
    BY NotNoTable DEF C!Least, C!Greatest
  <1>2. CASE p.kind = "Before"
    BY Zenon, <1>1, <1>2, BeyondIs DEF C!MemoryStep, Nearest
  <1>3. CASE p.kind = "After"
    BY Zenon, <1>1, <1>3, BeyondIs DEF C!MemoryStep, Nearest
  <1>4. CASE p.kind = "Start"
    <2>1. found = IF forward THEN C!Least({k \in T : k >= p.key})
                  ELSE C!Greatest({k \in T : k <= p.key})
      BY Zenon, <1>4, NearestBeyond
    <2> HIDE DEF found
    <2>2. C!MemoryStep(T, [position |-> p], forward)
            = [cursor |-> [position |-> C!Landed(found, forward)], row |-> found]
      BY <1>1, <1>4, <2>1 DEF C!MemoryStep
    <2> QED BY <2>2 DEF found
  <1>5. CASE p.kind = "At"
    <2>1. found = IF forward THEN C!Least({k \in T : k > p.key})
                  ELSE C!Greatest({k \in T : k < p.key})
      BY Zenon, <1>5, NearestBeyond
    <2> HIDE DEF found
    <2>2. C!MemoryStep(T, [position |-> p], forward)
            = [cursor |-> [position |-> C!Landed(found, forward)], row |-> found]
      BY <1>1, <1>5, <2>1 DEF C!MemoryStep
    <2> QED BY <2>2 DEF found
  <1> QED BY ZenonT(30), <1>2, <1>3, <1>4, <1>5, PositionKinds

LEMMA MdbxMoves ==
    ASSUME NEW T \in SUBSET CursorKeys, NEW p \in Positions, NEW forward \in BOOLEAN,
           NEW c, Stands("mdbx", c, p)
    PROVE  LET found == Nearest(Beyond(T, p, forward), forward) IN
           C!MdbxStep(T, c, forward)
             = [cursor |-> [position |-> [C!Landed(found, forward) EXCEPT !.key = None],
                            at |-> IF found = None THEN c.at ELSE found],
                row |-> found]
  <1> DEFINE found == Nearest(Beyond(T, p, forward), forward)
  <1>0. /\ c.position.kind = p.kind
        /\ p.kind = "Start" => c.position.key = p.key
        /\ p.kind = "At" => c.at = p.key
    BY DEF Stands
  <1>1. T # C!NoTable /\ C!Least({}) = None /\ C!Greatest({}) = None
    BY NotNoTable DEF C!Least, C!Greatest
  <1>2. CASE p.kind = "Before"
    BY Zenon, <1>0, <1>1, <1>2, BeyondIs DEF C!MdbxStep, Nearest
  <1>3. CASE p.kind = "After"
    BY ZenonT(60), <1>0, <1>1, <1>3, BeyondIs DEF C!MdbxStep, Nearest
  <1>4. CASE p.kind = "Start"
    <2>1. p.key \in CursorKeys
      BY <1>4, PositionKinds
    <2>2. C!MdbxStartBackward(T, p.key) = C!Greatest({k \in T : k <= p.key})
      BY <2>1, StartBackward
    <2>3. found = IF forward THEN C!SetRange(T, p.key) ELSE C!MdbxStartBackward(T, p.key)
      BY Zenon, <1>4, <2>2, NearestBeyond DEF C!SetRange
    <2> HIDE DEF found
    <2>4. C!MdbxStep(T, c, forward)
            = [cursor |-> [position |-> [C!Landed(found, forward) EXCEPT !.key = None],
                           at |-> IF found = None THEN c.at ELSE found],
               row |-> found]
      BY <1>0, <1>1, <1>4, <2>3 DEF C!MdbxStep
    <2> QED BY <2>4 DEF found
  <1>5. CASE p.kind = "At"
    <2>3. found = IF forward THEN C!NativeNext(T, c.at) ELSE C!NativePrev(T, c.at)
      BY ZenonT(30), <1>0, <1>5, NearestBeyond DEF C!NativeNext, C!NativePrev
    <2> HIDE DEF found
    <2>4. C!MdbxStep(T, c, forward)
            = [cursor |-> [position |-> [C!Landed(found, forward) EXCEPT !.key = None],
                           at |-> IF found = None THEN c.at ELSE found],
               row |-> found]
      BY <1>0, <1>1, <1>5, <2>3 DEF C!MdbxStep
    <2> QED BY <2>4 DEF found
  <1> QED BY <1>2, <1>3, <1>4, <1>5, PositionKinds

(* Both backends move alike. *)
LEMMA OriginMoves ==
    ASSUME NEW T \in SUBSET CursorKeys, NEW p \in Positions, NEW forward \in BOOLEAN,
           NEW b \in {"memory", "mdbx"}, NEW c, Stands(b, c, p)
    PROVE  LET s == C!OriginStep(b, T, c, forward)
               found == Nearest(Beyond(T, p, forward), forward)
           IN s.row = found /\ Stands(b, s.cursor, C!Landed(found, forward))
  <1> DEFINE found == Nearest(Beyond(T, p, forward), forward)
             s == C!OriginStep(b, T, c, forward)
  <1>0. C!Landed(found, forward) \in Positions
    <2>1. Beyond(T, p, forward) \in SUBSET CursorKeys
      BY DEF Beyond
    <2> QED BY <2>1, LandedTyped
  <1>1. CASE b = "memory"
    <2>1. c = [position |-> p]
      BY <1>1 DEF Stands
    <2>2. s = [cursor |-> [position |-> C!Landed(found, forward)], row |-> found]
      BY <1>1, <2>1, MemoryMoves DEF C!OriginStep
    <2> HIDE DEF s, found
    <2>3. s.row = found /\ Stands(b, s.cursor, C!Landed(found, forward))
      BY Zenon, <1>1, <2>2 DEF Stands
    <2> QED BY <2>3 DEF s, found
  <1>2. CASE b = "mdbx"
    <2>1. s = [cursor |-> [position |-> [C!Landed(found, forward) EXCEPT !.key = None],
                           at |-> IF found = None THEN c.at ELSE found],
               row |-> found]
      BY <1>2, MdbxMoves DEF C!OriginStep
    <2>2. CASE found = None
      BY <1>2, <2>1, <2>2 DEF Stands, C!Landed, C!Before, C!After
    <2>3. CASE found # None
      BY <1>2, <2>1, <2>3 DEF Stands, C!Landed, C!At
    <2> QED BY Zenon, <2>2, <2>3
  <1> QED BY <1>1, <1>2

(* On a table that was never written nothing is found, and nothing moves. *)
LEMMA NoTableStays ==
    ASSUME NEW b \in {"memory", "mdbx"}, NEW c, NEW forward \in BOOLEAN
    PROVE  C!OriginStep(b, C!NoTable, c, forward) = [cursor |-> c, row |-> None]
  BY DEF C!OriginStep, C!MemoryStep, C!MdbxStep

LEMMA OpenedAtStart ==
    ASSUME NEW b \in {"memory", "mdbx"}, NEW key
    PROVE  Stands(b, C!OriginCursor(b, key), C!Start(key))
  BY Zenon DEF Stands, C!OriginCursor, C!MemoryCursor, C!MdbxCursor, C!Start

-----------------------------------------------------------------------------
(* What a cursor relies on. *)

PutKeys == {k \in DOMAIN writes : writes[k] = "put"}

(* The origin's cursor stands where no row that the buffer leaves to the origin
   was passed, and none is left but the ones beyond and the one returned last. *)
Covers(p, forward) ==
    \A k \in origin :
        /\ Lies(position, k, forward) /\ k \notin DOMAIN writes => Lies(p, k, forward)
        /\ Lies(p, k, forward) => Lies(position, k, forward) \/ position = C!At(k)

LoopInv ==
    /\ step \in [forward : BOOLEAN, staged : CursorKeys \cup {None}]
    /\ position # C!Landed(None, step.forward)
    /\ step.staged = Nearest(Beyond(PutKeys, position, step.forward), step.forward)
    /\ origin # C!NoTable => \E p \in Positions : Stands(backend, cursor, p) /\ Covers(p, step.forward)

CursorTyped ==
    /\ origin = C!NoTable \/ origin \in SUBSET CursorKeys
    /\ DOMAIN writes \in SUBSET CursorKeys
    /\ backend \in {None, "memory", "mdbx"}
    /\ position \in Positions \cup {None}
    /\ position # None => backend # None
    /\ step # None => position # None

(* At an end the origin's cursor is there as well, which is why the step that
   reverses need not open another. *)
CInv ==
    /\ CursorTyped
    /\ C!BufferShowsWrites /\ view \in SUBSET CursorKeys
    /\ backend # None /\ position = None => \E p \in Positions : Stands(backend, cursor, p)
    /\ position \in {C!Before, C!After} /\ step = None /\ origin # C!NoTable =>
          Stands(backend, cursor, position)
    /\ step # None => LoopInv

LEMMA PositionsAreSome == None \notin Positions
  <1> SUFFICES ASSUME NEW p \in Positions PROVE p # None
    OBVIOUS
  <1>1. p \in [kind : {"Start", "At", "Before", "After"}, key : CursorKeys \cup {None}]
    BY PositionKinds
  <1> QED BY Zenon, <1>1, CursorsAssumption

LEMMA CInit == C!Init => CInv
  <1> SUFFICES ASSUME C!Init PROVE CInv
    OBVIOUS
  <1>1. DOMAIN writes = {} /\ backend = None /\ position = None /\ step = None
    BY DEF C!Init
  <1>2. origin = C!NoTable \/ origin \in SUBSET CursorKeys
    BY DEF C!Init
  <1>3. view = C!RowsOf(origin) /\ C!RowsOf(origin) \in SUBSET CursorKeys
    BY <1>2 DEF C!Init, C!RowsOf, C!NoTable
  <1>4. C!BufferShowsWrites
    BY <1>1, <1>3 DEF C!BufferShowsWrites, C!GetRow
  <1>5. position \notin {C!Before, C!After}
    BY <1>1, PositionsAreSome DEF Positions
  <1> QED BY <1>1, <1>2, <1>3, <1>4, <1>5 DEF CInv, CursorTyped

(* Writes come before the cursor, and the view follows them. *)
LEMMA WriteKeeps ==
    ASSUME CInv, NEW key \in CursorKeys, C!Put(key) \/ C!Insert(key) \/ C!Delete(key)
    PROVE  CInv'
  <1>1. /\ backend = None /\ position = None /\ step = None
        /\ UNCHANGED <<origin, backend, cursor, position, step>>
    <2>1. backend = None /\ UNCHANGED <<origin, backend, cursor, position, step>>
      BY Zenon DEF C!Put, C!Insert, C!Delete, C!Writing
    <2> QED BY <2>1 DEF CInv, CursorTyped
  <1>2. view \in SUBSET CursorKeys /\ view' \in SUBSET CursorKeys
    BY DEF CInv, C!Put, C!Insert, C!Delete
  <1>3. /\ \A k \in CursorKeys : C!GetRow(k) <=> k \in view
        /\ DOMAIN writes \in SUBSET CursorKeys
    BY DEF CInv, CursorTyped, C!BufferShowsWrites
  <1>4. ASSUME NEW what, C!Write(key, what)
        PROVE  /\ DOMAIN writes' = DOMAIN writes \cup {key}
               /\ writes'[key] = what
               /\ \A k \in DOMAIN writes \ {key} : writes'[k] = writes[k]
    BY <1>4 DEF C!Write
  <1>5. C!Write(key, "put") \/ C!Write(key, "deleted") \/ UNCHANGED writes
    BY DEF C!Put, C!Insert, C!Delete
  <1>6. DOMAIN writes' \in SUBSET CursorKeys
    BY <1>3, <1>4, <1>5
  <1>7. ASSUME NEW k \in CursorKeys, k # key PROVE C!GetRow(k)' <=> k \in view'
    <2>1. C!GetRow(k)' <=> C!GetRow(k)
      BY Zenon, <1>1, <1>4, <1>5, <1>7 DEF C!GetRow
    <2>2. k \in view' <=> k \in view
      BY <1>7 DEF C!Put, C!Insert, C!Delete
    <2> QED BY <1>3, <2>1, <2>2
  <1>8. C!GetRow(key)' <=> key \in view'
    <2>1. CASE C!Write(key, "put") /\ view' = view \cup {key}
      BY Zenon, <1>4, <2>1 DEF C!GetRow
    <2>2. CASE C!Write(key, "deleted") /\ view' = view \ {key}
      BY <1>4, <2>2 DEF C!GetRow
    <2>3. CASE UNCHANGED writes /\ (IF C!GetRow(key) THEN view' = view \cup {key} ELSE view' = view \ {key})
      BY Zenon, <1>1, <2>3 DEF C!GetRow
    <2> QED BY Zenon, <2>1, <2>2, <2>3 DEF C!Put, C!Insert, C!Delete
  <1>9. C!BufferShowsWrites'
    BY <1>7, <1>8 DEF C!BufferShowsWrites
  <1>10. CursorTyped'
    BY Zenon, <1>1, <1>6 DEF CInv, CursorTyped
  <1>11. position' \notin {C!Before, C!After}
    BY <1>1, PositionsAreSome DEF Positions
  <1> QED BY Zenon, <1>1, <1>2, <1>9, <1>10, <1>11 DEF CInv

(* Every other step leaves the rows alone. *)
RowsKept == UNCHANGED <<origin, writes, view>>

LEMMA RowsKeptKeeps ==
    ASSUME CInv, RowsKept
    PROVE  C!BufferShowsWrites' /\ view' \in SUBSET CursorKeys
  BY DEF CInv, RowsKept, C!BufferShowsWrites, C!GetRow

LEMMA OpenKeeps ==
    ASSUME CInv, NEW key \in CursorKeys, NEW b \in {"memory", "mdbx"},
           C!OpenOrigin(key, b) \/ C!OpenBuffered(key, b)
    PROVE  CInv'
  <1>1. /\ RowsKept /\ backend = None /\ backend' = b /\ cursor' = C!OriginCursor(b, key)
        /\ step' = step /\ (position' = position \/ position' = C!Start(key))
    BY Zenon DEF C!OpenOrigin, C!OpenBuffered, C!Open, RowsKept
  <1>2. position = None /\ step = None
    BY Zenon, <1>1 DEF CInv, CursorTyped
  <1>3. b # None /\ C!Start(key) \in Positions
    BY CursorsAssumption DEF Positions
  <1>4. CursorTyped'
    BY Zenon, <1>1, <1>2, <1>3 DEF CInv, CursorTyped, RowsKept
  <1>5. Stands(b, cursor', C!Start(key))
    BY Zenon, <1>1, OpenedAtStart
  <1>6. position' \notin {C!Before, C!After}
    <2>1. C!Start(key) \notin {C!Before, C!After}
      BY Zenon DEF C!Start, C!Before, C!After
    <2> QED BY <1>1, <1>2, <2>1, PositionsAreSome DEF Positions
  <1> QED BY ZenonT(30), <1>1, <1>2, <1>3, <1>4, <1>5, <1>6, RowsKeptKeeps DEF CInv

-----------------------------------------------------------------------------
(* A step that lands on the nearest row beyond is a step of RowCursor. *)

LEMMA MovesOnBuffer ==
    ASSUME position \in Positions, view \in SUBSET CursorKeys, NEW forward \in BOOLEAN,
           view' = view, row' = Nearest(Beyond(view, position, forward), forward),
           position' = C!Landed(row', forward),
           call' = IF forward THEN "next" ELSE "prev"
    PROVE  C!OnBuffer!Next
  <1>1. C!OnBuffer!Ahead = Beyond(view, position, TRUE)
    <2>1. CASE position.kind = "Start"
      BY Zenon, <2>1, BeyondIs DEF C!OnBuffer!Ahead
    <2>2. CASE position.kind = "At"
      BY Zenon, <2>2, BeyondIs DEF C!OnBuffer!Ahead
    <2>3. CASE position.kind = "Before"
      BY Zenon, <2>3, BeyondIs DEF C!OnBuffer!Ahead
    <2>4. CASE position.kind = "After"
      BY Zenon, <2>4, BeyondIs DEF C!OnBuffer!Ahead
    <2> QED BY Zenon, <2>1, <2>2, <2>3, <2>4, PositionKinds
  <1>2. C!OnBuffer!Behind = Beyond(view, position, FALSE)
    <2>1. CASE position.kind = "Start"
      BY Zenon, <2>1, BeyondIs DEF C!OnBuffer!Behind
    <2>2. CASE position.kind = "At"
      BY Zenon, <2>2, BeyondIs DEF C!OnBuffer!Behind
    <2>3. CASE position.kind = "Before"
      BY Zenon, <2>3, BeyondIs DEF C!OnBuffer!Behind
    <2>4. CASE position.kind = "After"
      BY Zenon, <2>4, BeyondIs DEF C!OnBuffer!Behind
    <2> QED BY Zenon, <2>1, <2>2, <2>3, <2>4, PositionKinds
  <1>3. /\ C!OnBuffer!Least(C!OnBuffer!Ahead) = Nearest(Beyond(view, position, TRUE), TRUE)
        /\ C!OnBuffer!Greatest(C!OnBuffer!Behind) = Nearest(Beyond(view, position, FALSE), FALSE)
    BY <1>1, <1>2 DEF Nearest, C!OnBuffer!Least, C!Least, C!OnBuffer!Greatest, C!Greatest,
       C!OnBuffer!Min, C!Min, C!OnBuffer!Max, C!Max
  <1>4. /\ position' = IF row' = None
                       THEN [kind |-> IF forward THEN "After" ELSE "Before", key |-> None]
                       ELSE [kind |-> "At", key |-> row']
    BY Zenon DEF C!Landed, C!At, C!Before, C!After
  <1>5. CASE forward = TRUE
    BY Zenon, <1>3, <1>4, <1>5 DEF C!OnBuffer!Next, C!OnBuffer!Move
  <1>6. CASE forward = FALSE
    BY Zenon, <1>3, <1>4, <1>6 DEF C!OnBuffer!Next, C!OnBuffer!Move
  <1> QED BY Zenon, <1>5, <1>6

(* Where a backend's cursor stands. *)
PlaceOf(b, c) == IF b = "mdbx" /\ c.position.kind = "At" THEN C!At(c.at) ELSE c.position
Place == PlaceOf(backend, cursor)

LEMMA StandsAtPlace ==
    ASSUME NEW p \in Positions, NEW b \in {"memory", "mdbx"}, NEW c, Stands(b, c, p)
    PROVE  PlaceOf(b, c) = p
  <1>1. CASE b = "memory"
    BY <1>1 DEF Stands, PlaceOf
  <1>2. CASE b = "mdbx" /\ p.kind = "At"
    <2>1. p = C!At(p.key)
      BY Zenon, <1>2, PositionKinds DEF C!At
    <2>2. c.position.kind = "At" /\ c.at = p.key
      BY <1>2 DEF Stands
    <2> QED BY Zenon, <1>2, <2>1, <2>2 DEF PlaceOf
  <1>3. CASE b = "mdbx" /\ p.kind # "At"
    BY Zenon, <1>3 DEF Stands, PlaceOf
  <1> QED BY <1>1, <1>2, <1>3

LEMMA MovesOnOrigin ==
    ASSUME Place \in Positions, origin \in SUBSET CursorKeys, NEW forward \in BOOLEAN,
           origin' = origin, row' = Nearest(Beyond(origin, Place, forward), forward),
           Place' = C!Landed(row', forward),
           call' = IF forward THEN "next" ELSE "prev"
    PROVE  C!OnOrigin!Next
  <1>1. C!OnOrigin!Ahead = Beyond(origin, Place, TRUE)
    <2>0. C!OnOrigin!Ahead =
            CASE Place.kind = "Start"  -> {k \in origin : k >= Place.key}
              [] Place.kind = "At"     -> {k \in origin : k > Place.key}
              [] Place.kind = "Before" -> origin
              [] Place.kind = "After"  -> {}
      BY DEF C!OnOrigin!Ahead, Place, PlaceOf
    <2>1. CASE Place.kind = "Start"
      BY Zenon, <2>0, <2>1, BeyondIs
    <2>2. CASE Place.kind = "At"
      BY Zenon, <2>0, <2>2, BeyondIs
    <2>3. CASE Place.kind = "Before"
      BY Zenon, <2>0, <2>3, BeyondIs
    <2>4. CASE Place.kind = "After"
      BY Zenon, <2>0, <2>4, BeyondIs
    <2> QED BY Zenon, <2>1, <2>2, <2>3, <2>4, PositionKinds
  <1>2. C!OnOrigin!Behind = Beyond(origin, Place, FALSE)
    <2>0. C!OnOrigin!Behind =
            CASE Place.kind = "Start"  -> {k \in origin : k <= Place.key}
              [] Place.kind = "At"     -> {k \in origin : k < Place.key}
              [] Place.kind = "Before" -> {}
              [] Place.kind = "After"  -> origin
      BY DEF C!OnOrigin!Behind, Place, PlaceOf
    <2>1. CASE Place.kind = "Start"
      BY Zenon, <2>0, <2>1, BeyondIs
    <2>2. CASE Place.kind = "At"
      BY Zenon, <2>0, <2>2, BeyondIs
    <2>3. CASE Place.kind = "Before"
      BY Zenon, <2>0, <2>3, BeyondIs
    <2>4. CASE Place.kind = "After"
      BY Zenon, <2>0, <2>4, BeyondIs
    <2> QED BY Zenon, <2>1, <2>2, <2>3, <2>4, PositionKinds
  <1>3. /\ C!OnOrigin!Least(C!OnOrigin!Ahead) = Nearest(Beyond(origin, Place, TRUE), TRUE)
        /\ C!OnOrigin!Greatest(C!OnOrigin!Behind) = Nearest(Beyond(origin, Place, FALSE), FALSE)
    BY <1>1, <1>2 DEF Nearest, C!OnOrigin!Least, C!Least, C!OnOrigin!Greatest, C!Greatest,
       C!OnOrigin!Min, C!Min, C!OnOrigin!Max, C!Max
  <1>4. Place' = IF row' = None
                 THEN [kind |-> IF forward THEN "After" ELSE "Before", key |-> None]
                 ELSE [kind |-> "At", key |-> row']
    BY Zenon DEF C!Landed, C!At, C!Before, C!After
  <1>5. CASE forward = TRUE
    <2>1. C!OnOrigin!Move(row', "After")
      BY Zenon, <1>4, <1>5 DEF C!OnOrigin!Move, Place, PlaceOf
    <2> QED BY Zenon, <1>3, <1>5, <2>1 DEF C!OnOrigin!Next
  <1>6. CASE forward = FALSE
    <2>1. C!OnOrigin!Move(row', "Before")
      BY Zenon, <1>4, <1>6 DEF C!OnOrigin!Move, Place, PlaceOf
    <2> QED BY Zenon, <1>3, <1>6, <2>1 DEF C!OnOrigin!Next
  <1> QED BY Zenon, <1>5, <1>6

LEMMA StepOriginKeeps ==
    ASSUME CInv, NEW forward \in BOOLEAN, C!StepOrigin(forward)
    PROVE  /\ CInv'
           /\ IF origin = C!NoTable THEN row' = None ELSE C!OnOrigin!Next
  <1> DEFINE s == C!OriginStep(backend, origin, cursor, forward)
  <1>1. /\ backend # None /\ position = None /\ cursor' = s.cursor /\ row' = s.row
        /\ call' = IF forward THEN "next" ELSE "prev"
        /\ RowsKept /\ backend' = backend /\ position' = position /\ step' = step
    BY Zenon DEF C!StepOrigin, C!Returns, RowsKept
  <1>2. /\ backend \in {"memory", "mdbx"} /\ step = None
        /\ origin = C!NoTable \/ origin \in SUBSET CursorKeys
    BY Zenon, <1>1 DEF CInv, CursorTyped
  <1>3. PICK p \in Positions : Stands(backend, cursor, p)
    BY Zenon, <1>1 DEF CInv
  <1>4. CursorTyped'
    BY Zenon, <1>1 DEF CInv, CursorTyped, RowsKept
  <1>5. position' \notin {C!Before, C!After}
    BY Zenon, <1>1, PositionsAreSome DEF Positions
  <1>6. ASSUME NEW q \in Positions, Stands(backend, cursor', q) PROVE CInv'
    BY ZenonT(30), <1>1, <1>2, <1>4, <1>5, <1>6, RowsKeptKeeps DEF CInv
  <1>7. CASE origin = C!NoTable
    <2>1. s = [cursor |-> cursor, row |-> None]
      BY Zenon, <1>2, <1>7, NoTableStays
    <2> QED BY <1>1, <1>3, <1>6, <1>7, <2>1
  <1>8. CASE origin \in SUBSET CursorKeys
    <2> DEFINE found == Nearest(Beyond(origin, p, forward), forward)
    <2>1. row' = found /\ Stands(backend, cursor', C!Landed(found, forward))
      BY <1>1, <1>2, <1>3, <1>8, OriginMoves
    <2>2. C!Landed(found, forward) \in Positions
      <3>1. Beyond(origin, p, forward) \in SUBSET CursorKeys
        BY <1>8 DEF Beyond
      <3> QED BY Zenon, <3>1, LandedTyped
    <2> HIDE DEF found
    <2>3. Place = p
      BY Zenon, <1>2, <1>3, StandsAtPlace DEF Place
    <2>4. Place' = C!Landed(found, forward)
      <3>1. backend' \in {"memory", "mdbx"}
        BY Zenon, <1>1, <1>2
      <3>2. Stands(backend', cursor', C!Landed(found, forward))
        BY Zenon, <1>1, <2>1
      <3> QED BY Zenon, <2>2, <3>1, <3>2, StandsAtPlace DEF Place
    <2>5. C!OnOrigin!Next
      BY ZenonT(30), <1>1, <1>8, <2>1, <2>3, <2>4, MovesOnOrigin DEF found, RowsKept
    <2>6. origin # C!NoTable
      BY <1>8, NotNoTable
    <2> QED BY ZenonT(30), <1>6, <2>1, <2>2, <2>5, <2>6
  <1> QED BY <1>2, <1>7, <1>8

-----------------------------------------------------------------------------
(* The merged cursor. *)

(* The range over the buffer's rows: the nearest staged row beyond the position. *)
LEMMA StagedIsNearest ==
    ASSUME CInv, position \in Positions, NEW forward \in BOOLEAN, position # C!Landed(None, forward)
    PROVE  C!Staged(forward) = Nearest(Beyond(PutKeys, position, forward), forward)
  <1>1. PutKeys \in SUBSET CursorKeys
    BY Zenon DEF PutKeys, CInv, CursorTyped
  <1>2. CASE position.kind = "Start"
    <2>1. C!Staged(forward) = IF forward THEN C!Least({k \in PutKeys : k >= position.key})
                              ELSE C!Greatest({k \in PutKeys : k <= position.key})
      BY <1>2 DEF C!Staged, PutKeys
    <2> QED BY Zenon, <1>1, <1>2, <2>1, NearestBeyond
  <1>3. CASE position.kind = "At"
    <2>1. C!Staged(forward) = IF forward THEN C!Least({k \in PutKeys : k > position.key})
                              ELSE C!Greatest({k \in PutKeys : k < position.key})
      BY <1>3 DEF C!Staged, PutKeys
    <2> QED BY Zenon, <1>1, <1>3, <2>1, NearestBeyond
  <1>4. CASE position.kind \in {"Before", "After"}
    <2>1. C!Staged(forward) = IF forward THEN C!Least(PutKeys) ELSE C!Greatest(PutKeys)
      BY <1>4 DEF C!Staged, PutKeys
    <2>2. position = C!Before \/ position = C!After
      BY <1>4, PositionKinds DEF C!Start, C!At
    <2>3. Beyond(PutKeys, position, forward) = PutKeys
      <3>1. position.kind = IF forward THEN "Before" ELSE "After"
        BY <1>4, <2>2 DEF C!Landed, C!Before, C!After
      <3> QED BY Zenon, <1>1, <3>1, BeyondIs
    <2> QED BY Zenon, <2>1, <2>3 DEF Nearest
  <1> QED BY Zenon, <1>2, <1>3, <1>4, PositionKinds

LEMMA BeginStepKeeps ==
    ASSUME CInv, NEW forward \in BOOLEAN, C!BeginStep(forward)
    PROVE  /\ CInv'
           /\ UNCHANGED <<position, call, row>> \/ (C!BufferShowsWrites /\ C!OnBuffer!Next)
  <1>1. /\ position # None /\ step = None /\ RowsKept /\ backend' = backend /\ position' = position
    BY Zenon DEF C!BeginStep, RowsKept
  <1>2. /\ position \in Positions /\ backend \in {"memory", "mdbx"}
        /\ origin = C!NoTable \/ origin \in SUBSET CursorKeys
        /\ C!BufferShowsWrites /\ view \in SUBSET CursorKeys
    BY Zenon, <1>1 DEF CInv, CursorTyped
  <1>3. CASE position = C!Landed(None, forward)
    <2>1. /\ cursor' = cursor /\ step' = step /\ row' = None
          /\ call' = IF forward THEN "next" ELSE "prev"
      BY Zenon, <1>3 DEF C!BeginStep, C!Returns
    <2>2. CInv'
      <3>1. CursorTyped'
        BY Zenon, <1>1, <2>1 DEF CInv, CursorTyped, RowsKept
      <3> QED BY Zenon, <1>1, <2>1, <3>1, RowsKeptKeeps DEF CInv, RowsKept
    <2>3. Nearest(Beyond(view, position, forward), forward) = None
      <3>1. Beyond(view, position, forward) = {}
        BY Zenon, <1>2, <1>3, BeyondIs DEF C!Landed, C!Before, C!After
      <3> QED BY Zenon, <3>1, NearestIsFirst
    <2>4. C!OnBuffer!Next
      BY Zenon, <1>1, <1>2, <1>3, <2>1, <2>3, MovesOnBuffer DEF RowsKept
    <2> QED BY <1>2, <2>2, <2>4
  <1>4. CASE position # C!Landed(None, forward)
    <2>1. /\ step' = [forward |-> forward, staged |-> C!Staged(forward)]
          /\ cursor' = IF position.kind \in {"Start", "At"} THEN C!OriginCursor(backend, position.key)
                       ELSE cursor
          /\ UNCHANGED <<call, row>>
      BY Zenon, <1>4 DEF C!BeginStep
    <2>2. C!Staged(forward) = Nearest(Beyond(PutKeys, position, forward), forward)
      BY Zenon, <1>2, <1>4, StagedIsNearest
    <2>3. C!Staged(forward) \in CursorKeys \cup {None}
      <3>1. Beyond(PutKeys, position, forward) \in SUBSET CursorKeys
        BY Zenon DEF Beyond, PutKeys, CInv, CursorTyped
      <3> QED BY Zenon, <2>2, <3>1, NearestTyped
    <2>4. step' \in [forward : BOOLEAN, staged : CursorKeys \cup {None}] /\ step' # None
      BY <2>1, <2>3, CursorsAssumption
    <2>5. ASSUME origin # C!NoTable
          PROVE  \E p \in Positions : Stands(backend, cursor', p) /\ Covers(p, forward)
      <3>1. \A k \in origin : k \in Nat
        BY Zenon, <1>2, <2>5, CursorsAssumption
      <3>2. CASE position.kind \in {"Start", "At"}
        <4>1. position.key \in CursorKeys /\ position.key \in Nat
          BY Zenon, <1>2, <3>2, PositionKinds, CursorsAssumption
        <4>2. C!Start(position.key) \in Positions
          BY Zenon, <4>1 DEF Positions
        <4>3. Stands(backend, cursor', C!Start(position.key))
          BY Zenon, <1>2, <2>1, <3>2, OpenedAtStart
        <4>4. ASSUME NEW k \in origin
              PROVE  /\ Lies(position, k, forward) => Lies(C!Start(position.key), k, forward)
                     /\ Lies(C!Start(position.key), k, forward) =>
                           Lies(position, k, forward) \/ position = C!At(k)
          <5>1. k \in Nat
            BY <3>1
          <5>2. CASE position.kind = "Start"
            BY Zenon, <5>2 DEF Lies, C!Start
          <5>3. CASE position.kind = "At"
            <6>1. position = C!At(position.key)
              BY Zenon, <1>2, <5>3, PositionKinds DEF C!At
            <6>2. Lies(position, k, forward) <=> (IF forward THEN k > position.key ELSE k < position.key)
              BY Zenon, <5>3 DEF Lies
            <6>3. Lies(C!Start(position.key), k, forward) <=>
                     (IF forward THEN k >= position.key ELSE k <= position.key)
              BY Zenon DEF Lies, C!Start
            <6>4. k = position.key => position = C!At(k)
              BY Zenon, <6>1
            <6> QED BY <4>1, <5>1, <6>2, <6>3, <6>4
          <5> QED BY Zenon, <3>2, <5>2, <5>3
        <4> QED BY Zenon, <4>2, <4>3, <4>4 DEF Covers
      <3>3. CASE position.kind \notin {"Start", "At"}
        <4>1. position = C!Before \/ position = C!After
          BY <1>2, <3>3, PositionKinds DEF C!Start, C!At
        <4>2. Stands(backend, cursor', position)
          BY Zenon, <1>1, <2>1, <2>5, <3>3, <4>1 DEF CInv
        <4> QED BY Zenon, <1>2, <4>2 DEF Covers
      <3> QED BY <3>2, <3>3
    <2>6. LoopInv'
      <3>1. step'.forward = forward /\ step'.staged = C!Staged(forward)
        BY Zenon, <2>1
      <3>2. PutKeys' = PutKeys
        BY Zenon, <1>1 DEF PutKeys, RowsKept
      <3>3. \A p : Covers(p, forward)' <=> Covers(p, forward)
        BY Zenon, <1>1 DEF Covers, RowsKept
      <3>4. position' # C!Landed(None, step'.forward)
        BY Zenon, <1>1, <1>4, <3>1
      <3>5. step'.staged = Nearest(Beyond(PutKeys', position', step'.forward), step'.forward)
        BY Zenon, <1>1, <2>2, <3>1, <3>2
      <3>6. origin' # C!NoTable =>
              \E p \in Positions : Stands(backend', cursor', p) /\ Covers(p, step.forward)'
        BY Zenon, <1>1, <2>5, <3>1, <3>3 DEF RowsKept, Covers
      <3> QED BY ZenonT(30), <2>4, <3>4, <3>5, <3>6 DEF LoopInv
    <2>7. CursorTyped'
      BY Zenon, <1>1 DEF CInv, CursorTyped, RowsKept
    <2>8. CInv'
      BY Zenon, <1>1, <2>4, <2>6, <2>7, RowsKeptKeeps DEF CInv
    <2> QED BY Zenon, <1>1, <2>1, <2>8
  <1> QED BY <1>3, <1>4

(* The nearer of the origin's row and the staged one is the nearest of the view. *)
LEMMA NearerIsNearest ==
    ASSUME NEW V \in SUBSET CursorKeys, NEW P \in SUBSET V, NEW forward \in BOOLEAN,
           NEW r \in CursorKeys \cup {None}, r # None => r \in V \ P,
           \A k \in V \ P : r # None /\ (IF forward THEN r <= k ELSE r >= k)
    PROVE  LET staged == Nearest(P, forward) IN
           Nearest(V, forward) = IF r = None THEN staged
                                 ELSE IF staged = None THEN r
                                 ELSE IF (r < staged) = forward THEN r ELSE staged
  <1> DEFINE staged == Nearest(P, forward)
  <1>1. P \in SUBSET CursorKeys /\ None \notin V /\ \A k \in V : k \in Nat
    BY Zenon, CursorsAssumption
  <1>2. /\ P = {} => staged = None
        /\ P # {} => /\ staged \in P /\ staged # None
                     /\ \A y \in P : IF forward THEN staged <= y ELSE staged >= y
    BY Zenon, <1>1, NearestIsFirst DEF IsFirst
  <1> HIDE DEF staged
  <1>3. CASE r = None
    <2>1. V = P
      BY <1>3
    <2> QED BY Zenon, <1>3, <2>1 DEF staged
  <1>4. CASE r # None /\ staged = None
    <2>1. IsFirst(r, V, forward)
      BY Zenon, <1>2, <1>4 DEF IsFirst
    <2>2. Nearest(V, forward) = r
      BY <2>1, FirstIsNearest
    <2> QED BY Zenon, <1>4, <2>2 DEF staged
  <1>5. CASE r # None /\ staged # None
    <2>1. /\ r \in V \ P /\ r \in Nat /\ staged \in P /\ staged \in V /\ staged \in Nat /\ r # staged
          /\ \A y \in P : IF forward THEN staged <= y ELSE staged >= y
      BY Zenon, <1>1, <1>2, <1>5
    <2>2. CASE (r < staged) = forward
      <3>1. ASSUME NEW y \in V PROVE IF forward THEN r <= y ELSE r >= y
        <4>1. y \in Nat
          BY <1>1
        <4>2. CASE y \in P
          <5>1. IF forward THEN staged <= y ELSE staged >= y
            BY <2>1, <4>2
          <5>2. IF forward THEN r < staged ELSE r >= staged
            BY <2>1, <2>2
          <5> QED BY <2>1, <4>1, <5>1, <5>2
        <4>3. CASE y \notin P
          BY Zenon, <4>3
        <4> QED BY Zenon, <4>2, <4>3
      <3>2. Nearest(V, forward) = r
        BY Zenon, <2>1, <3>1, FirstIsNearest DEF IsFirst
      <3> QED BY Zenon, <1>5, <2>2, <3>2 DEF staged
    <2>3. CASE (r < staged) # forward
      <3>1. ASSUME NEW y \in V PROVE IF forward THEN staged <= y ELSE staged >= y
        <4>1. y \in Nat
          BY <1>1
        <4>2. CASE y \in P
          BY Zenon, <2>1, <4>2
        <4>3. CASE y \notin P
          <5>1. IF forward THEN r <= y ELSE r >= y
            BY Zenon, <4>3
          <5>2. IF forward THEN staged <= r ELSE staged > r
            BY <2>1, <2>3
          <5> QED BY <2>1, <4>1, <5>1, <5>2
        <4> QED BY Zenon, <4>2, <4>3
      <3>2. Nearest(V, forward) = staged
        BY Zenon, <2>1, <3>1, FirstIsNearest DEF IsFirst
      <3> QED BY Zenon, <1>5, <2>3, <3>2 DEF staged
    <2> QED BY Zenon, <2>2, <2>3
  <1> QED BY Zenon, <1>3, <1>4, <1>5

(* Past a row that was skipped the origin's cursor still covers what it must. *)
LEMMA SkipCovers ==
    ASSUME origin \in SUBSET CursorKeys, position \in Positions, NEW p \in Positions,
           NEW forward \in BOOLEAN, Covers(p, forward),
           NEW r, IsFirst(r, Beyond(origin, p, forward), forward),
           position = C!At(r) \/ r \in DOMAIN writes
    PROVE  Covers(C!At(r), forward)
  <1>1. r \in origin /\ r \in Nat /\ Lies(p, r, forward) /\ (\A k \in origin : k \in Nat)
        /\ (\A k \in origin : Lies(p, k, forward) => IF forward THEN r <= k ELSE r >= k)
    BY Zenon, CursorsAssumption DEF IsFirst, Beyond
  <1>2. \A k : Lies(C!At(r), k, forward) <=> (IF forward THEN k > r ELSE k < r)
    BY Zenon DEF Lies, C!At
  <1>3. ASSUME NEW k \in origin, Lies(position, k, forward), k \notin DOMAIN writes
        PROVE  Lies(C!At(r), k, forward)
    <2>1. Lies(p, k, forward)
      BY Zenon, <1>3 DEF Covers
    <2>2. (IF forward THEN r <= k ELSE r >= k) /\ k \in Nat
      BY Zenon, <1>1, <2>1
    <2>3. ~Lies(C!At(r), r, forward)
      BY <1>1, <1>2
    <2>4. k # r
      BY Zenon, <1>3, <2>3
    <2> QED BY <1>1, <1>2, <2>2, <2>4
  <1>4. ASSUME NEW k \in origin, Lies(C!At(r), k, forward)
        PROVE  Lies(position, k, forward) \/ position = C!At(k)
    <2>1. (IF forward THEN k > r ELSE k < r) /\ k \in Nat
      BY Zenon, <1>1, <1>2, <1>4
    <2>2. p.kind \in {"Start", "At"} => p.key \in Nat
      BY Zenon, PositionKinds, CursorsAssumption
    <2>3. Lies(p, k, forward)
      BY <1>1, <2>1, <2>2 DEF Lies
    <2> QED BY Zenon, <2>3 DEF Covers
  <1> QED BY Zenon, <1>3, <1>4 DEF Covers

(* What the origin's cursor finds in an iteration, seen from the view: all that
   is left to the origin lies at or past it. *)
LEMMA FoundInView ==
    ASSUME CInv, step # None,
           NEW r, r = C!OriginStep(backend, origin, cursor, step.forward).row
    PROVE  LET V == Beyond(view, position, step.forward)
               P == Beyond(PutKeys, position, step.forward)
           IN /\ r \in CursorKeys \cup {None}
              /\ V \in SUBSET CursorKeys /\ P \in SUBSET V
              /\ r # None /\ position # C!At(r) /\ r \notin DOMAIN writes => r \in V \ P
              /\ \A k \in V \ P : r # None /\ (IF step.forward THEN r <= k ELSE r >= k)
  <1> DEFINE V == Beyond(view, position, step.forward)
             P == Beyond(PutKeys, position, step.forward)
  <1>1. /\ backend \in {"memory", "mdbx"} /\ position \in Positions
        /\ origin = C!NoTable \/ origin \in SUBSET CursorKeys
        /\ DOMAIN writes \in SUBSET CursorKeys /\ view \in SUBSET CursorKeys
        /\ \A k \in CursorKeys : C!GetRow(k) <=> k \in view
        /\ LoopInv
    BY Zenon DEF CInv, CursorTyped, C!BufferShowsWrites
  <1>2. step.forward \in BOOLEAN
    BY Zenon, <1>1 DEF LoopInv
  <1>3. \A k \in CursorKeys : k \in PutKeys <=> k \in DOMAIN writes /\ k \in view
    BY Zenon, <1>1 DEF PutKeys, C!GetRow
  <1>4. V \in SUBSET CursorKeys /\ P \in SUBSET V
    BY Zenon, <1>1, <1>3 DEF Beyond, PutKeys
  <1>5. ASSUME NEW k \in V \ P
        PROVE  k \in CursorKeys /\ k \notin DOMAIN writes /\ k \in C!RowsOf(origin)
               /\ Lies(position, k, step.forward)
    <2>1. k \in view /\ Lies(position, k, step.forward) /\ k \notin PutKeys
      BY Zenon, <1>5 DEF Beyond
    <2>2. k \in CursorKeys /\ k \notin DOMAIN writes
      BY Zenon, <1>1, <1>3, <2>1
    <2>3. C!GetRow(k)
      BY Zenon, <1>1, <2>1, <2>2
    <2> QED BY Zenon, <2>1, <2>2, <2>3 DEF C!GetRow
  <1>6. CASE origin = C!NoTable
    <2>1. r = None
      BY <1>1, <1>2, <1>6, NoTableStays
    <2>2. C!RowsOf(origin) = {}
      BY <1>6 DEF C!RowsOf
    <2>3. V \ P = {}
      BY Zenon, <1>5, <2>2
    <2> HIDE DEF V, P
    <2>4. /\ r \in CursorKeys \cup {None}
          /\ V \in SUBSET CursorKeys /\ P \in SUBSET V
          /\ r # None /\ position # C!At(r) /\ r \notin DOMAIN writes => r \in V \ P
          /\ \A k \in V \ P : r # None /\ (IF step.forward THEN r <= k ELSE r >= k)
      BY Zenon, <1>4, <2>1, <2>3
    <2> QED BY Zenon, <2>4 DEF V, P
  <1>7. CASE origin \in SUBSET CursorKeys
    <2>0. origin # C!NoTable /\ C!RowsOf(origin) = origin
      BY Zenon, <1>7, NotNoTable
    <2>1. PICK p \in Positions : Stands(backend, cursor, p) /\ Covers(p, step.forward)
      BY Zenon, <1>1, <2>0 DEF LoopInv
    <2> DEFINE B == Beyond(origin, p, step.forward)
    <2>2. r = Nearest(B, step.forward)
      BY <1>1, <1>2, <1>7, <2>1, OriginMoves
    <2>3. B \in SUBSET CursorKeys
      BY Zenon, <1>7 DEF Beyond
    <2>4. r \in CursorKeys \cup {None} /\ (r = None <=> B = {})
          /\ (r # None => IsFirst(r, B, step.forward))
      BY Zenon, <1>2, <2>2, <2>3, NearestIsFirst, NearestTyped
    <2>5. ASSUME r # None, position # C!At(r), r \notin DOMAIN writes PROVE r \in V \ P
      <3>1. r \in origin /\ Lies(p, r, step.forward) /\ r \in CursorKeys
        BY Zenon, <1>7, <2>4, <2>5 DEF IsFirst, Beyond
      <3>2. Lies(position, r, step.forward)
        BY Zenon, <2>1, <2>5, <3>1 DEF Covers
      <3>3. r \in view
        BY Zenon, <1>1, <2>0, <2>5, <3>1 DEF C!GetRow
      <3>4. r \notin PutKeys
        BY Zenon, <2>5 DEF PutKeys
      <3> QED BY Zenon, <3>2, <3>3, <3>4 DEF Beyond
    <2>6. ASSUME NEW k \in V \ P
          PROVE  r # None /\ (IF step.forward THEN r <= k ELSE r >= k)
      <3>1. k \in origin /\ k \notin DOMAIN writes /\ Lies(position, k, step.forward)
        BY Zenon, <1>5, <2>0, <2>6
      <3>2. k \in B
        BY Zenon, <2>1, <3>1 DEF Covers, Beyond
      <3> QED BY Zenon, <2>4, <3>2 DEF IsFirst
    <2> HIDE DEF V, P
    <2>7. /\ r \in CursorKeys \cup {None}
          /\ V \in SUBSET CursorKeys /\ P \in SUBSET V
          /\ r # None /\ position # C!At(r) /\ r \notin DOMAIN writes => r \in V \ P
          /\ \A k \in V \ P : r # None /\ (IF step.forward THEN r <= k ELSE r >= k)
      BY ZenonT(30), <1>4, <2>4, <2>5, <2>6
    <2> QED BY Zenon, <2>7 DEF V, P
  <1> QED BY Zenon, <1>1, <1>6, <1>7

LEMMA LoopStepKeeps ==
    ASSUME CInv, C!LoopStep
    PROVE  /\ CInv'
           /\ UNCHANGED <<position, call, row>> \/ (C!BufferShowsWrites /\ C!OnBuffer!Next)
  <1> DEFINE s == C!OriginStep(backend, origin, cursor, step.forward)
             V == Beyond(view, position, step.forward)
             P == Beyond(PutKeys, position, step.forward)
             nearer == IF s.row = None THEN step.staged
                       ELSE IF step.staged = None THEN s.row
                       ELSE IF (s.row < step.staged) = step.forward THEN s.row ELSE step.staged
             skipped == s.row # None /\ (position = C!At(s.row) \/ s.row \in DOMAIN writes)
  <1>1. /\ step # None /\ cursor' = s.cursor /\ RowsKept /\ backend' = backend
        /\ skipped => UNCHANGED <<position, step, call, row>>
        /\ ~skipped => /\ position' = C!Landed(nearer, step.forward)
                       /\ step' = None /\ row' = nearer
                       /\ call' = IF step.forward THEN "next" ELSE "prev"
    BY Zenon DEF C!LoopStep, C!Returns, RowsKept
  <1>2. /\ backend \in {"memory", "mdbx"} /\ position \in Positions
        /\ origin = C!NoTable \/ origin \in SUBSET CursorKeys
        /\ C!BufferShowsWrites /\ view \in SUBSET CursorKeys
        /\ LoopInv
    BY Zenon, <1>1 DEF CInv, CursorTyped
  <1>3. /\ step.forward \in BOOLEAN /\ step.staged = Nearest(P, step.forward)
        /\ step \in [forward : BOOLEAN, staged : CursorKeys \cup {None}]
        /\ position # C!Landed(None, step.forward)
    BY Zenon, <1>2 DEF LoopInv
  <1>4. ASSUME origin # C!NoTable
        PROVE  \E p \in Positions :
                  /\ Covers(p, step.forward)
                  /\ s.row = Nearest(Beyond(origin, p, step.forward), step.forward)
                  /\ Stands(backend, cursor', C!Landed(s.row, step.forward))
    <2>1. PICK p \in Positions : Stands(backend, cursor, p) /\ Covers(p, step.forward)
      BY Zenon, <1>2, <1>4 DEF LoopInv
    <2>2. /\ s.row = Nearest(Beyond(origin, p, step.forward), step.forward)
          /\ Stands(backend, s.cursor, C!Landed(s.row, step.forward))
      <3>1. /\ origin \in SUBSET CursorKeys /\ step.forward \in BOOLEAN
            /\ backend \in {"memory", "mdbx"} /\ Stands(backend, cursor, p)
        BY Zenon, <1>2, <1>3, <1>4, <2>1
      <3> QED BY Zenon, <3>1, OriginMoves
    <2> QED BY ZenonT(30), <1>1, <2>1, <2>2
  <1>5. CASE skipped
    <2>1. UNCHANGED <<position, step, call, row>>
      BY Zenon, <1>1, <1>5
    <2>2. origin # C!NoTable
      BY <1>2, <1>3, <1>5, NoTableStays
    <2>3. PICK p \in Positions :
                  /\ Covers(p, step.forward)
                  /\ s.row = Nearest(Beyond(origin, p, step.forward), step.forward)
                  /\ Stands(backend, cursor', C!Landed(s.row, step.forward))
      BY Zenon, <1>4, <2>2
    <2>4. C!Landed(s.row, step.forward) = C!At(s.row)
      BY Zenon, <1>5 DEF C!Landed
    <2>5. Beyond(origin, p, step.forward) \in SUBSET CursorKeys
      BY Zenon, <1>2, <2>2 DEF Beyond
    <2>6. IsFirst(s.row, Beyond(origin, p, step.forward), step.forward) /\ s.row \in CursorKeys
      BY ZenonT(30), <1>3, <1>5, <2>3, <2>5, NearestIsFirst, NearestTyped
    <2>7. Covers(C!At(s.row), step.forward)
      BY ZenonT(30), <1>2, <1>3, <1>5, <2>2, <2>3, <2>6, SkipCovers
    <2>8. Stands(backend', cursor', C!At(s.row)) /\ C!At(s.row) \in Positions
      BY Zenon, <1>1, <2>3, <2>4, <2>6 DEF Positions
    <2> HIDE DEF s
    <2>9. LoopInv'
      <3>1. PutKeys' = PutKeys
        BY Zenon, <1>1 DEF PutKeys, RowsKept
      <3>2. PICK q \in Positions : q = C!At(s.row)
        BY Zenon, <2>8
      <3>3. Covers(q, step.forward)'
        <4>1. Covers(q, step.forward)
          BY <2>7, <3>2
        <4> QED BY Zenon, <1>1, <2>1, <4>1 DEF Covers, RowsKept
      <3>4. Stands(backend', cursor', q)
        BY Zenon, <2>8, <3>2
      <3> QED BY Zenon, <1>2, <2>1, <3>1, <3>3, <3>4 DEF LoopInv
    <2>10. CursorTyped'
      BY Zenon, <1>1, <2>1 DEF CInv, CursorTyped, RowsKept
    <2>11. CInv'
      BY ZenonT(30), <1>1, <1>2, <2>1, <2>9, <2>10, PositionsAreSome, RowsKeptKeeps DEF CInv
    <2> QED BY <2>1, <2>11
  <1>6. CASE ~skipped
    <2>1. /\ position' = C!Landed(nearer, step.forward) /\ step' = None /\ row' = nearer
          /\ call' = IF step.forward THEN "next" ELSE "prev"
      BY Zenon, <1>1, <1>6
    <2>2. /\ s.row \in CursorKeys \cup {None}
          /\ V \in SUBSET CursorKeys /\ P \in SUBSET V
          /\ s.row # None => s.row \in V \ P
          /\ \A k \in V \ P : s.row # None /\ (IF step.forward THEN s.row <= k ELSE s.row >= k)
      BY Zenon, <1>1, <1>6, FoundInView
    <2>3. Nearest(V, step.forward) = nearer
      <3> HIDE DEF V, P, s
      <3> QED BY <1>3, <2>2, NearerIsNearest
    <2>4. position' \in Positions
      BY Zenon, <1>3, <2>1, <2>2, <2>3, LandedTyped
    <2>5. C!OnBuffer!Next
      <3> HIDE DEF nearer
      <3> QED BY ZenonT(30), <1>1, <1>2, <1>3, <2>1, <2>3, MovesOnBuffer DEF RowsKept
    <2>6. CursorTyped'
      BY ZenonT(30), <1>1, <1>2, <2>1, <2>4, PositionsAreSome, CursorsAssumption DEF CInv, CursorTyped, RowsKept
    <2>7. ASSUME position' \in {C!Before, C!After}, origin' # C!NoTable
          PROVE  Stands(backend', cursor', position')
      <3>1. nearer = None
        <4> HIDE DEF nearer
        <4> QED BY Zenon, <2>1, <2>7 DEF C!Landed, C!At, C!Before, C!After
      <3>2. s.row = None
        BY Zenon, <3>1
      <3>3. origin # C!NoTable
        BY Zenon, <1>1, <2>7 DEF RowsKept
      <3>4. Stands(backend, cursor', C!Landed(s.row, step.forward))
        BY Zenon, <1>4, <3>3
      <3> QED BY ZenonT(30), <1>1, <2>1, <3>1, <3>2, <3>4
    <2>8. CInv'
      BY ZenonT(30), <1>1, <2>1, <2>4, <2>6, <2>7, PositionsAreSome, RowsKeptKeeps DEF CInv
    <2> QED BY Zenon, <1>2, <2>5, <2>8
  <1> QED BY Zenon, <1>5, <1>6

-----------------------------------------------------------------------------
LEMMA CursorStep ==
    ASSUME CInv, [C!Next]_(C!vars)
    PROVE  /\ CInv'
           /\ [backend # None /\ position = None =>
                  IF origin = C!NoTable THEN row' = None ELSE C!OnOrigin!Next]_(C!vars)
           /\ [position # None => C!BufferShowsWrites /\ C!OnBuffer!Next]_<<position, call, row>>
  <1>0. step # None => position # None
    BY Zenon DEF CInv, CursorTyped
  <1>1. CASE UNCHANGED C!vars
    <2>1. UNCHANGED <<origin, writes, view, writing, backend, cursor, position, step, call, row>>
      BY Zenon, <1>1 DEF C!vars
    <2>2. CInv'
      BY Zenon, <2>1 DEF CInv, CursorTyped, C!BufferShowsWrites, C!GetRow, LoopInv, Covers, PutKeys
    <2> QED BY Zenon, <1>1, <2>1, <2>2
  <1>2. ASSUME NEW key \in CursorKeys, C!Put(key) \/ C!Insert(key) \/ C!Delete(key)
        PROVE  CInv' /\ backend = None /\ UNCHANGED <<position, call, row>>
    BY Zenon, <1>2, WriteKeeps DEF C!Put, C!Insert, C!Delete, C!Writing
  <1>3. ASSUME NEW key \in CursorKeys, NEW b \in {"memory", "mdbx"},
               C!OpenOrigin(key, b) \/ C!OpenBuffered(key, b)
        PROVE  CInv' /\ backend = None /\ position = None
    <2>1. backend = None
      BY Zenon, <1>3 DEF C!OpenOrigin, C!OpenBuffered, C!Open
    <2> QED BY Zenon, <1>3, <2>1, OpenKeeps DEF CInv, CursorTyped
  <1>4. ASSUME NEW forward \in BOOLEAN, C!StepOrigin(forward)
        PROVE  /\ CInv' /\ position = None
               /\ IF origin = C!NoTable THEN row' = None ELSE C!OnOrigin!Next
    BY Zenon, <1>4, StepOriginKeeps DEF C!StepOrigin
  <1>5. ASSUME NEW forward \in BOOLEAN, C!BeginStep(forward)
        PROVE  /\ CInv' /\ position # None
               /\ UNCHANGED <<position, call, row>> \/ (C!BufferShowsWrites /\ C!OnBuffer!Next)
    BY Zenon, <1>5, BeginStepKeeps DEF C!BeginStep
  <1>6. ASSUME C!LoopStep
        PROVE  /\ CInv' /\ position # None
               /\ UNCHANGED <<position, call, row>> \/ (C!BufferShowsWrites /\ C!OnBuffer!Next)
    BY Zenon, <1>0, <1>6, LoopStepKeeps DEF C!LoopStep
  <1> QED BY ZenonT(30), <1>1, <1>2, <1>3, <1>4, <1>5, <1>6 DEF C!Next

(* The cursors of both backends, and the merged cursor over either, behave as
   RowCursor over the rows they stand for: for any keys, any rows, any writes
   and any sequence of next and prev. *)
THEOREM CursorsImplementRowCursor == C!Spec => CursorsBehave
  <1>1. CInv /\ [C!Next]_(C!vars) => CInv'
    BY Zenon, CursorStep
  <1>2. C!Spec => []CInv
    BY <1>1, CInit, PTL DEF C!Spec
  <1>3. CInv /\ [C!Next]_(C!vars) =>
           [backend # None /\ position = None =>
               IF origin = C!NoTable THEN row' = None ELSE C!OnOrigin!Next]_(C!vars)
    BY Zenon, CursorStep
  <1>4. CInv /\ [C!Next]_(C!vars) =>
           [position # None => C!BufferShowsWrites /\ C!OnBuffer!Next]_<<position, call, row>>
    BY Zenon, CursorStep
  <1>5. C!Spec => C!BackendsBehave
    BY <1>2, <1>3, PTL DEF C!Spec, C!BackendsBehave
  <1>6. C!Spec => C!BufferBehaves
    BY <1>2, <1>4, PTL DEF C!Spec, C!BufferBehaves
  <1> QED BY <1>5, <1>6 DEF CursorsBehave
=============================================================================
