--------------------------- MODULE RecordsProofs ----------------------------
(***************************************************************************)
(* Proofs about Records, for any keys, names, values, handles and bounds.  *)
(*                                                                         *)
(* That a call never meets corrupt state rests on the consistency of every *)
(* state it can read, rollback targets included.  That committed IDs are   *)
(* never reused also needs that each state a current branch can commit     *)
(* descends from the head: its allocator is not behind and its identities  *)
(* are the head's or deleted.                                              *)
(***************************************************************************)
EXTENDS Records, TLAPS

(* c is h with records added above h's allocator, changed and deleted. *)
Descends(h, c) ==
    /\ c.next >= h.next
    /\ \A i \in Ids : i < h.next => c.identity[i] \in {h.identity[i], Missing}

(* The cells c are what a branch of that origin may hold. *)
Fine(origin, c) ==
    Consistent(c) /\ (origin = head.commit => Descends(head.cells, c))

FineBranch(r) ==
    /\ r \in Branch /\ r.origin <= head.commit /\ Len(r.stack) >= 1
    /\ Fine(r.origin, r.cells)
    /\ \A i \in 1..Len(r.stack) : Fine(r.origin, r.stack[i])

IInv ==
    /\ head \in [commit : Nat, cells : Cells] /\ DOMAIN branches = Handles
    /\ Consistent(head.cells)
    /\ \A b \in Handles : branches[b] # None => FineBranch(branches[b])

-----------------------------------------------------------------------------
(* Cells. *)

LEMMA CellsFields ==
    ASSUME NEW c \in Cells
    PROVE  /\ c.binding \in [Keys -> Ids \cup {Missing}]
           /\ c.identity \in [Ids -> Keys \cup {Missing}]
           /\ c.user \in [Ids -> RecordCells]
           /\ c.next \in Ids
BY DEF Cells

LEMMA CellsOf ==
    ASSUME NEW b \in [Keys -> Ids \cup {Missing}], NEW i \in [Ids -> Keys \cup {Missing}],
           NEW u \in [Ids -> RecordCells], NEW n \in Ids
    PROVE  [binding |-> b, identity |-> i, user |-> u, next |-> n] \in Cells
BY DEF Cells

LEMMA NoCellsTyped == NoCells \in RecordCells
BY DEF NoCells, RecordCells

LEMMA DescendsRefl ==
    ASSUME NEW c \in Cells
    PROVE  Descends(c, c)
<1>1. c.next \in Int
  BY CellsFields, RecordsAssumption DEF Ids
<1> QED  BY <1>1 DEF Descends

LEMMA GenesisConsistent == Genesis \in Cells /\ Consistent(Genesis)
<1>1. \A k \in SystemKeys : SystemId[k] \in Ids /\ SystemId[k] < FirstUserId
  BY RecordsAssumption DEF Ids
<1>2. FirstUserId \in Ids
  BY RecordsAssumption DEF Ids
<1>3. Genesis.identity \in [Ids -> Keys \cup {Missing}]
  BY DEF Genesis, Keys
<1>4. Genesis.binding \in [Keys -> Ids \cup {Missing}]
  BY <1>1 DEF Genesis
<1>5. Genesis.user \in [Ids -> RecordCells]
  BY NoCellsTyped DEF Genesis
<1>6. Genesis \in Cells
  BY <1>2, <1>3, <1>4, <1>5 DEF Genesis, Cells
<1>7. \A k \in SystemKeys : Genesis.binding[k] = SystemId[k] /\ Genesis.identity[SystemId[k]] = k
  <2> SUFFICES ASSUME NEW k \in SystemKeys
               PROVE  Genesis.binding[k] = SystemId[k] /\ Genesis.identity[SystemId[k]] = k
    OBVIOUS
  <2>1. k = CHOOSE j \in SystemKeys : SystemId[j] = SystemId[k]
    BY RecordsAssumption
  <2> QED  BY Zenon, <1>1, <2>1 DEF Genesis, Keys
<1>8. \A k \in UserKeys : Genesis.binding[k] = Missing
  BY RecordsAssumption DEF Genesis, Keys
<1>9. \A i \in Ids : \/ Genesis.identity[i] = Missing
                     \/ \E k \in SystemKeys : SystemId[k] = i /\ Genesis.identity[i] = k
  BY DEF Genesis
<1>10. \A i \in Ids : Genesis.user[i] = NoCells
  BY DEF Genesis
<1>11. Genesis.next = FirstUserId
  BY DEF Genesis
<1> HIDE DEF Genesis
<1>12. \A k \in Keys : Genesis.binding[k] # Missing => Genesis.identity[Genesis.binding[k]] = k
  BY <1>7, <1>8 DEF Keys
<1>13. \A i \in Ids : Genesis.identity[i] # Missing => Genesis.binding[Genesis.identity[i]] = i
  BY <1>7, <1>9
<1>14. \A i \in Ids : i >= FirstUserId => Genesis.identity[i] = Missing
  BY <1>1, <1>9, RecordsAssumption DEF Ids
<1>15. FirstUserId >= FirstUserId
  BY RecordsAssumption
<1> QED  BY <1>6, <1>7, <1>8, <1>10, <1>11, <1>12, <1>13, <1>14, <1>15 DEF Consistent

-----------------------------------------------------------------------------
(* The calls keep consistency and descent. *)

LEMMA ResolveOK ==
    ASSUME NEW c \in Cells, Consistent(c), NEW k \in Keys
    PROVE  /\ ~CorruptBinding(c, k) /\ ~CorruptIdentity(c, k)
           /\ Resolve(c, k) = IF c.binding[k] = Missing THEN "NotFound" ELSE "ok"
<1>1. k \in SystemKeys => c.binding[k] = SystemId[k] /\ c.binding[k] # Missing
  BY RecordsAssumption DEF Consistent, Ids
<1>2. k \in UserKeys /\ c.binding[k] # Missing => ~(c.binding[k] < FirstUserId)
  <2>1. c.binding[k] \in Ids \cup {Missing}
    BY CellsFields
  <2> QED  BY <2>1, RecordsAssumption DEF Consistent, Ids
<1>3. ~CorruptBinding(c, k)
  BY <1>1, <1>2 DEF CorruptBinding
<1>4. ~CorruptIdentity(c, k)
  BY DEF CorruptIdentity, Consistent
<1> QED  BY <1>3, <1>4 DEF Resolve

LEMMA CreateGuard ==
    ASSUME NEW c \in Cells, Consistent(c), NEW k \in Keys, NEW values \in RecordCells,
           CreateResult(c, k, values) = "ok"
    PROVE  k \in UserKeys /\ k \notin SystemKeys /\ c.binding[k] = Missing /\ c.next # MaxId
<1>1. k \in UserKeys /\ k \notin SystemKeys
  <2>1. CASE k \in SystemKeys
    <3>1. CreateResult(c, k, values) = "Reserved"
      BY <2>1, RecordsAssumption DEF CreateResult
    <3> QED  BY <3>1
  <2> QED  BY <2>1 DEF Keys
<1>2. Valid(values)
  <2>1. CASE ~Valid(values)
    <3>1. CreateResult(c, k, values) = "InvalidArgument"
      BY <1>1, <2>1 DEF CreateResult
    <3> QED  BY <3>1
  <2> QED  BY <2>1
<1>3. CreateResult(c, k, values) =
         IF Resolve(c, k) = "CorruptState" THEN "CorruptState"
         ELSE IF Resolve(c, k) = "ok" THEN "AlreadyExists"
         ELSE IF c.next < FirstUserId THEN "CorruptState"
         ELSE IF c.next = MaxId THEN "RecordIdExhausted"
         ELSE IF Occupied(c, c.next) THEN "CorruptState" ELSE "ok"
  BY <1>1, <1>2 DEF CreateResult
<1> QED  BY <1>1, <1>3, ResolveOK

LEMMA CreateKeeps ==
    ASSUME NEW c \in Cells, Consistent(c), NEW k \in Keys, NEW values \in RecordCells,
           CreateResult(c, k, values) = "ok"
    PROVE  /\ CreateCells(c, k, values) \in Cells /\ Consistent(CreateCells(c, k, values))
           /\ \A h \in Cells : Descends(h, c) => Descends(h, CreateCells(c, k, values))
<1> DEFINE d == CreateCells(c, k, values)
<1>1. k \in UserKeys /\ k \notin SystemKeys /\ c.binding[k] = Missing /\ c.next # MaxId
  BY CreateGuard
<1>2. /\ c.binding \in [Keys -> Ids \cup {Missing}] /\ c.identity \in [Ids -> Keys \cup {Missing}]
      /\ c.user \in [Ids -> RecordCells] /\ c.next \in Ids
  BY CellsFields
<1>3. c.next + 1 \in Ids /\ c.next \in Int /\ c.next >= FirstUserId /\ FirstUserId \in Int
  BY <1>1, <1>2, RecordsAssumption DEF Ids, Consistent
<1>4. d \in Cells
  BY <1>2, <1>3, CellsOf DEF CreateCells
<1>5. /\ d.binding = [c.binding EXCEPT ![k] = c.next] /\ d.identity = [c.identity EXCEPT ![c.next] = k]
      /\ d.user = [c.user EXCEPT ![c.next] = values] /\ d.next = c.next + 1
  BY DEF CreateCells
<1> HIDE DEF d
<1>6. Missing \notin Keys /\ Missing \notin Ids
  BY RecordsAssumption
<1>7. \A i \in Ids : i >= c.next => c.identity[i] = Missing
  BY DEF Consistent
<1>8. c.identity[c.next] = Missing
  BY <1>2, <1>3, <1>7
<1>9. \A j \in Keys : d.binding[j] # Missing => d.identity[d.binding[j]] = j
  BY <1>1, <1>2, <1>5, <1>6, <1>8 DEF Consistent
<1>10. \A i \in Ids : d.identity[i] # Missing => d.binding[d.identity[i]] = i
  BY <1>1, <1>2, <1>5, <1>6, <1>8 DEF Consistent
<1>11. \A i \in Ids : d.identity[i] = Missing => d.user[i] = NoCells
  BY <1>1, <1>2, <1>5, <1>6, <1>8 DEF Consistent
<1>12. \A i \in Ids : i >= d.next => d.identity[i] = Missing
  BY <1>2, <1>3, <1>5, <1>7, RecordsAssumption DEF Ids
<1>13. \A j \in SystemKeys : d.binding[j] = SystemId[j]
  BY <1>1, <1>2, <1>5 DEF Consistent, Keys
<1>14. \A j \in UserKeys : d.binding[j] # Missing => d.binding[j] >= FirstUserId
  BY <1>1, <1>2, <1>3, <1>5 DEF Consistent, Keys
<1>15. d.next >= FirstUserId
  BY <1>3, <1>5
<1>16. Consistent(d)
  BY <1>9, <1>10, <1>11, <1>12, <1>13, <1>14, <1>15 DEF Consistent
<1>17. ASSUME NEW h \in Cells, Descends(h, c)  PROVE Descends(h, d)
  <2>1. h.next \in Int /\ c.next >= h.next
    BY <1>17, CellsFields, RecordsAssumption DEF Ids, Descends
  <2>2. \A i \in Ids : i < h.next => d.identity[i] = c.identity[i]
    BY <1>2, <1>3, <1>5, <2>1, RecordsAssumption DEF Ids
  <2> QED  BY <1>3, <1>5, <1>17, <2>1, <2>2 DEF Descends
<1> QED  BY <1>4, <1>16, <1>17 DEF d

(* What patch and delete find: the record of a user key. *)
LEMMA Found ==
    ASSUME NEW c \in Cells, Consistent(c), NEW k \in Keys, Resolve(c, k) = "ok"
    PROVE  c.binding[k] \in Ids /\ c.identity[c.binding[k]] = k
<1>1. c.binding[k] # Missing
  BY ResolveOK
<1> QED  BY <1>1, CellsFields DEF Consistent

LEMMA PatchKeeps ==
    ASSUME NEW c \in Cells, Consistent(c), NEW k \in Keys, NEW set \in RecordCells,
           NEW removed, PatchResult(c, k, set, removed) = "ok"
    PROVE  /\ PatchCells(c, k, set, removed) \in Cells
           /\ Consistent(PatchCells(c, k, set, removed))
           /\ \A h \in Cells : Descends(h, c) => Descends(h, PatchCells(c, k, set, removed))
<1> DEFINE d == PatchCells(c, k, set, removed)
           new == [n \in Names |-> IF set[n] # Missing THEN set[n]
                                   ELSE IF n \in removed THEN Missing
                                   ELSE c.user[c.binding[k]][n]]
<1>1. Resolve(c, k) = "ok"
  BY DEF PatchResult
<1>2. c.binding[k] \in Ids /\ c.identity[c.binding[k]] = k /\ k # Missing
  BY <1>1, Found, RecordsAssumption
<1>3. /\ c.binding \in [Keys -> Ids \cup {Missing}] /\ c.identity \in [Ids -> Keys \cup {Missing}]
      /\ c.user \in [Ids -> RecordCells] /\ c.next \in Ids
  BY CellsFields
<1>4. new \in RecordCells
  <2>1. c.user[c.binding[k]] \in [Names -> Values \cup {Missing}]
    BY <1>2, <1>3 DEF RecordCells
  <2> QED  BY <2>1 DEF RecordCells
<1>5. /\ d.binding = c.binding /\ d.identity = c.identity /\ d.next = c.next
      /\ d.user = [c.user EXCEPT ![c.binding[k]] = new]
      /\ d = [c EXCEPT !.user = [c.user EXCEPT ![c.binding[k]] = new]]
  BY <1>2, <1>3 DEF PatchCells, Cells
<1> HIDE DEF d, new
<1>6. d \in Cells
  <2>1. [c.user EXCEPT ![c.binding[k]] = new] \in [Ids -> RecordCells]
    BY Zenon, <1>3, <1>4
  <2> QED  BY <1>5, <2>1 DEF Cells
<1>7. \A i \in Ids : d.identity[i] = Missing => d.user[i] = NoCells
  BY <1>2, <1>3, <1>5 DEF Consistent
<1>8. Consistent(d)
  BY <1>5, <1>7 DEF Consistent
<1>9. \A h \in Cells : Descends(h, c) => Descends(h, d)
  BY <1>5 DEF Descends
<1> QED  BY <1>6, <1>8, <1>9 DEF d

LEMMA DeleteKeeps ==
    ASSUME NEW c \in Cells, Consistent(c), NEW k \in Keys, DeleteResult(c, k) = "ok"
    PROVE  /\ DeleteCells(c, k) \in Cells /\ Consistent(DeleteCells(c, k))
           /\ \A h \in Cells : Descends(h, c) => Descends(h, DeleteCells(c, k))
<1> DEFINE d == DeleteCells(c, k)
           id == c.binding[k]
<1>1. k \notin SystemKeys /\ Resolve(c, k) = "ok"
  BY DEF DeleteResult
<1>2. id \in Ids /\ c.identity[id] = k /\ Missing \notin Keys /\ Missing \notin Ids
  BY <1>1, Found, RecordsAssumption
<1>3. /\ c.binding \in [Keys -> Ids \cup {Missing}] /\ c.identity \in [Ids -> Keys \cup {Missing}]
      /\ c.user \in [Ids -> RecordCells] /\ c.next \in Ids
  BY CellsFields
<1>4. /\ d.binding = [c.binding EXCEPT ![k] = Missing]
      /\ d.identity = [c.identity EXCEPT ![id] = Missing]
      /\ d.user = [c.user EXCEPT ![id] = NoCells] /\ d.next = c.next
  BY DEF DeleteCells, Cells
<1>5. d \in Cells
  <2>1. d = [c EXCEPT !.binding = [c.binding EXCEPT ![k] = Missing],
                      !.identity = [c.identity EXCEPT ![id] = Missing],
                      !.user = [c.user EXCEPT ![id] = NoCells]]
    BY DEF DeleteCells, Cells
  <2>2. /\ [c.binding EXCEPT ![k] = Missing] \in [Keys -> Ids \cup {Missing}]
        /\ [c.identity EXCEPT ![id] = Missing] \in [Ids -> Keys \cup {Missing}]
        /\ [c.user EXCEPT ![id] = NoCells] \in [Ids -> RecordCells]
    BY Zenon, <1>3, NoCellsTyped
  <2> QED  BY Zenon, <2>1, <2>2 DEF Cells
<1> HIDE DEF d, id
<1>6. \A j \in Keys : d.binding[j] # Missing => d.identity[d.binding[j]] = j
  <2> SUFFICES ASSUME NEW j \in Keys, d.binding[j] # Missing  PROVE d.identity[d.binding[j]] = j
    OBVIOUS
  <2>1. j # k /\ d.binding[j] = c.binding[j] /\ c.binding[j] \in Ids
    BY <1>3, <1>4
  <2>2. c.identity[c.binding[j]] = j
    BY <2>1 DEF Consistent
  <2>3. c.binding[j] # id
    BY <1>2, <2>1, <2>2
  <2> QED  BY <1>3, <1>4, <2>1, <2>2, <2>3
<1>7. \A i \in Ids : d.identity[i] # Missing => d.binding[d.identity[i]] = i
  <2> SUFFICES ASSUME NEW i \in Ids, d.identity[i] # Missing  PROVE d.binding[d.identity[i]] = i
    OBVIOUS
  <2>1. i # id /\ d.identity[i] = c.identity[i] /\ c.identity[i] \in Keys
    BY <1>3, <1>4
  <2>2. c.binding[c.identity[i]] = i
    BY <2>1 DEF Consistent
  <2>3. c.identity[i] # k
    BY <2>1, <2>2 DEF id
  <2> QED  BY <1>3, <1>4, <2>1, <2>2, <2>3
<1>8. \A i \in Ids : d.identity[i] = Missing => d.user[i] = NoCells
  BY <1>2, <1>3, <1>4 DEF Consistent
<1>9. \A i \in Ids : i >= d.next => d.identity[i] = Missing
  BY <1>3, <1>4 DEF Consistent
<1>10. \A j \in SystemKeys : d.binding[j] = SystemId[j]
  BY <1>1, <1>3, <1>4 DEF Consistent, Keys
<1>11. \A j \in UserKeys : d.binding[j] # Missing => d.binding[j] >= FirstUserId
  BY <1>3, <1>4 DEF Consistent, Keys
<1>12. Consistent(d)
  BY <1>4, <1>6, <1>7, <1>8, <1>9, <1>10, <1>11 DEF Consistent
<1>13. \A h \in Cells : Descends(h, c) => Descends(h, d)
  BY <1>3, <1>4 DEF Descends
<1> QED  BY <1>5, <1>12, <1>13 DEF d

-----------------------------------------------------------------------------
(* Branches. *)

LEMMA LiveFine ==
    ASSUME IInv, NEW b \in Handles, Live(b)
    PROVE  /\ FineBranch(branches[b]) /\ branches[b].origin = head.commit
           /\ branches[b].cells \in Cells /\ branches[b].stack \in Seq(Cells)
           /\ branches[b].consumed \in BOOLEAN /\ head.cells \in Cells /\ head.commit \in Nat
<1>1. FineBranch(branches[b]) /\ branches[b] \in Branch /\ branches[b].origin = head.commit
  BY DEF IInv, Live, FineBranch
<1>2. head.cells \in Cells /\ head.commit \in Nat
  BY DEF IInv
<1> QED  BY <1>1, <1>2 DEF Branch

(* A write group that leaves fine cells leaves a fine branch. *)
LEMMA WriteKeeps ==
    ASSUME IInv, NEW b \in Handles, Live(b), NEW STATE c, c \in Cells, Fine(head.commit, c),
           NEW STATE wrote, wrote \in BOOLEAN, WriteGroup(b, c, wrote)
    PROVE  IInv'
<1> DEFINE old == branches[b]
           r == [old EXCEPT !.cells = c, !.consumed = @ /\ ~wrote]
<1>1. FineBranch(old) /\ old \in Branch /\ old.origin = head.commit
  BY LiveFine DEF FineBranch
<1>2. r \in Branch
  <2>1. (old.consumed /\ ~wrote) \in BOOLEAN
    OBVIOUS
  <2> QED  BY Zenon, <1>1, <2>1 DEF Branch
<1>3. r.origin = old.origin /\ r.cells = c /\ r.stack = old.stack
  BY <1>1 DEF Branch
<1>4. branches' = [branches EXCEPT ![b] = r] /\ head' = head
  BY Zenon DEF WriteGroup, IInv
<1> HIDE DEF r
<1>5. FineBranch(r)
  BY <1>1, <1>2, <1>3 DEF FineBranch
<1> QED  BY <1>4, <1>5 DEF IInv, FineBranch, Fine

LEMMA CallsKeep ==
    ASSUME IInv, NEW b \in Handles, NEW k \in Keys, NEW values \in RecordCells, NEW removed,
           Create(b, k, values) \/ Patch(b, k, values, removed) \/ Delete(b, k)
    PROVE  IInv'
<1> DEFINE c == branches[b].cells
<1>1. Live(b)
  BY Zenon DEF Create, Patch, Delete
<1>2. c \in Cells /\ Consistent(c) /\ Descends(head.cells, c) /\ head.cells \in Cells
  BY <1>1, LiveFine DEF FineBranch, Fine
<1>3. CASE Create(b, k, values)
  <2>1. CreateResult(c, k, values) = "ok" /\ WriteGroup(b, CreateCells(c, k, values), TRUE)
    BY Zenon, <1>3 DEF Create
  <2>2. CreateCells(c, k, values) \in Cells /\ Fine(head.commit, CreateCells(c, k, values))
    BY Zenon, <1>2, <2>1, CreateKeeps DEF Fine
  <2> QED  BY Zenon, <1>1, <2>1, <2>2, WriteKeeps
<1>4. CASE Patch(b, k, values, removed)
  <2> DEFINE p == PatchCells(c, k, values, removed)
  <2>1. PatchResult(c, k, values, removed) = "ok" /\ WriteGroup(b, p, p # c)
    BY <1>4 DEF Patch
  <2>2. p \in Cells /\ Fine(head.commit, p)
    BY Zenon, <1>2, <2>1, PatchKeeps DEF Fine
  <2>3. (p # c) \in BOOLEAN
    OBVIOUS
  <2> HIDE DEF p
  <2> QED  BY Zenon, <1>1, <2>1, <2>2, <2>3, WriteKeeps
<1>5. CASE Delete(b, k)
  <2>1. DeleteResult(c, k) = "ok" /\ WriteGroup(b, DeleteCells(c, k), TRUE)
    BY Zenon, <1>5 DEF Delete
  <2>2. DeleteCells(c, k) \in Cells /\ Fine(head.commit, DeleteCells(c, k))
    BY <1>2, <2>1, DeleteKeeps DEF Fine
  <2> QED  BY Zenon, <1>1, <2>1, <2>2, WriteKeeps
<1> QED  BY <1>3, <1>4, <1>5

LEMMA BeginKeeps ==
    ASSUME IInv, NEW b \in Handles, Begin(b)
    PROVE  IInv'
<1> DEFINE r == [origin |-> head.commit, cells |-> head.cells,
                 stack |-> <<head.cells>>, consumed |-> FALSE]
<1>1. head.commit \in Nat /\ head.cells \in Cells /\ Consistent(head.cells)
  BY DEF IInv
<1>2. Fine(head.commit, head.cells)
  BY <1>1, DescendsRefl DEF Fine
<1>3. <<head.cells>> \in Seq(Cells) /\ Len(<<head.cells>>) = 1
  BY <1>1
<1>4. r \in Branch /\ r.origin <= head.commit /\ r.stack = <<head.cells>> /\ r.cells = head.cells
  BY <1>1, <1>3 DEF Branch
<1>5. branches' = [branches EXCEPT ![b] = r] /\ head' = head
  BY DEF Begin
<1>6. FineBranch(r)
  BY <1>2, <1>3, <1>4 DEF FineBranch
<1> HIDE DEF r
<1> QED  BY <1>5, <1>6 DEF IInv, FineBranch, Fine

LEMMA CheckpointKeeps ==
    ASSUME IInv, NEW b \in Handles, Checkpoint(b)
    PROVE  IInv'
<1> DEFINE old == branches[b]
           frames == IF old.consumed THEN old.stack ELSE Append(old.stack, old.cells)
           r == [old EXCEPT !.stack = frames, !.consumed = FALSE]
<1>1. /\ FineBranch(old) /\ old \in Branch /\ old.cells \in Cells /\ old.stack \in Seq(Cells)
      /\ old.origin = head.commit
  BY LiveFine DEF FineBranch, Checkpoint
<1>2. /\ frames \in Seq(Cells) /\ Len(frames) >= 1
      /\ \A i \in 1..Len(frames) : Fine(old.origin, frames[i])
  <2>1. CASE old.consumed
    BY <1>1, <2>1 DEF FineBranch
  <2>2. CASE ~old.consumed
    <3>1. frames = Append(old.stack, old.cells)
      BY <2>2
    <3>2. Len(frames) = Len(old.stack) + 1 /\ frames \in Seq(Cells)
      BY <1>1, <3>1
    <3>3. \A i \in 1..Len(frames) : frames[i] = IF i <= Len(old.stack) THEN old.stack[i] ELSE old.cells
      BY <1>1, <3>1, <3>2
    <3>4. Len(old.stack) \in Nat /\ Len(old.stack) >= 1
      BY <1>1 DEF FineBranch
    <3> HIDE DEF frames
    <3>5. \A i \in 1..Len(frames) : Fine(old.origin, frames[i])
      BY <1>1, <3>2, <3>3, <3>4 DEF FineBranch
    <3> QED  BY <3>2, <3>4, <3>5
  <2> QED  BY Zenon, <2>1, <2>2
<1>3. branches' = [branches EXCEPT ![b] = r] /\ head' = head
  BY Zenon DEF Checkpoint, IInv
<1> HIDE DEF frames
<1>4. r \in Branch /\ r.origin = old.origin /\ r.cells = old.cells /\ r.stack = frames
  BY Zenon, <1>1, <1>2 DEF Branch
<1> HIDE DEF r
<1>5. FineBranch(r)
  BY <1>1, <1>2, <1>4 DEF FineBranch
<1> QED  BY <1>3, <1>5 DEF IInv, FineBranch, Fine

LEMMA RollbackKeeps ==
    ASSUME IInv, NEW b \in Handles, Rollback(b)
    PROVE  IInv'
<1> DEFINE old == branches[b]
           kept == IF old.consumed THEN SubSeq(old.stack, 1, Len(old.stack) - 1) ELSE old.stack
           r == [old EXCEPT !.stack = kept, !.cells = kept[Len(kept)], !.consumed = TRUE]
<1>1. /\ FineBranch(old) /\ old \in Branch /\ old.stack \in Seq(Cells)
      /\ old.origin = head.commit /\ Len(old.stack) \in Nat
      /\ old.consumed => Len(old.stack) > 1
  BY LiveFine DEF FineBranch, Rollback
<1>2. /\ kept \in Seq(Cells) /\ Len(kept) >= 1 /\ Len(kept) \in Nat
      /\ \A i \in 1..Len(kept) : Fine(old.origin, kept[i])
  <2>1. CASE ~old.consumed
    BY <1>1, <2>1 DEF FineBranch
  <2>2. CASE old.consumed
    <3>1. kept = SubSeq(old.stack, 1, Len(old.stack) - 1)
      BY <2>2
    <3>2. kept \in Seq(Cells) /\ Len(kept) = Len(old.stack) - 1
      BY <1>1, <2>2, <3>1
    <3>3. \A i \in 1..Len(kept) : i \in 1..Len(old.stack) /\ kept[i] = old.stack[i]
      BY <1>1, <2>2, <3>1, <3>2
    <3> HIDE DEF kept
    <3>4. \A i \in 1..Len(kept) : Fine(old.origin, kept[i])
      BY <1>1, <3>3 DEF FineBranch
    <3> QED  BY <1>1, <2>2, <3>2, <3>4
  <2> QED  BY <2>1, <2>2
<1>3. branches' = [branches EXCEPT ![b] = r] /\ head' = head
  BY Zenon DEF Rollback, IInv
<1> HIDE DEF kept
<1>4. kept[Len(kept)] \in Cells /\ Fine(old.origin, kept[Len(kept)])
  BY <1>2
<1>5. r \in Branch /\ r.origin = old.origin /\ r.cells = kept[Len(kept)] /\ r.stack = kept
  BY Zenon, <1>1, <1>2, <1>4 DEF Branch
<1> HIDE DEF r
<1>6. FineBranch(r)
  BY <1>1, <1>2, <1>4, <1>5 DEF FineBranch
<1> QED  BY <1>3, <1>6 DEF IInv, FineBranch, Fine

LEMMA CommitKeeps ==
    ASSUME IInv, NEW b \in Handles, Commit(b)
    PROVE  IInv'
<1>1. /\ FineBranch(branches[b]) /\ branches[b].cells \in Cells /\ head.commit \in Nat
      /\ Consistent(branches[b].cells)
  BY Zenon, LiveFine DEF Commit, FineBranch, Fine
<1>2. /\ head' \in [commit : Nat, cells : Cells] /\ Consistent(head'.cells)
      /\ head'.commit = head.commit + 1
  BY <1>1 DEF Commit
<1>3. branches' = [branches EXCEPT ![b] = None]
  BY DEF Commit
<1>4. ASSUME NEW q \in Handles, branches'[q] # None  PROVE FineBranch(branches[q])'
  <2>1. branches'[q] = branches[q]
    BY <1>3, <1>4 DEF IInv
  <2>2. FineBranch(branches[q])
    BY <1>4, <2>1 DEF IInv
  <2>3. branches[q].origin <= head'.commit /\ branches[q].origin # head'.commit
    <3>1. branches[q].origin \in Nat /\ branches[q].origin <= head.commit
      BY <2>2 DEF FineBranch, Branch
    <3> QED  BY <1>1, <1>2, <3>1
  <2> QED  BY <2>1, <2>2, <2>3 DEF FineBranch, Fine
<1>5. DOMAIN branches' = Handles
  BY <1>3 DEF IInv
<1> QED  BY <1>2, <1>4, <1>5 DEF IInv

LEMMA DropKeeps ==
    ASSUME IInv, NEW b \in Handles, Evict(b) \/ Discard(b)
    PROVE  IInv'
<1>1. branches' = [branches EXCEPT ![b] = None] /\ head' = head
  BY DEF Evict, Discard
<1> QED  BY <1>1 DEF IInv, FineBranch, Fine

-----------------------------------------------------------------------------
(* Theorems. *)

LEMMA InitIInv == Init => IInv
BY GenesisConsistent DEF Init, IInv

LEMMA Inductive == IInv /\ [Next]_vars => IInv'
<1> SUFFICES ASSUME IInv, [Next]_vars  PROVE IInv'
  OBVIOUS
<1>1. CASE UNCHANGED vars
  BY <1>1 DEF vars, IInv, FineBranch, Fine
<1>2. ASSUME NEW b \in Handles,
             \/ Begin(b) \/ Evict(b) \/ Checkpoint(b) \/ Rollback(b) \/ Commit(b) \/ Discard(b)
      PROVE  IInv'
  BY <1>2, BeginKeeps, CheckpointKeeps, RollbackKeeps, CommitKeeps, DropKeeps
<1>3. ASSUME NEW b \in Handles, NEW k \in Keys, Delete(b, k)  PROVE IInv'
  BY <1>3, NoCellsTyped, CallsKeep
<1>4. ASSUME NEW b \in Handles, NEW k \in Keys, NEW values \in RecordCells, NEW removed,
             Create(b, k, values) \/ Patch(b, k, values, removed)
      PROVE  IInv'
  BY <1>4, CallsKeep
<1> QED  BY <1>1, <1>2, <1>3, <1>4 DEF Next

LEMMA Invariance == Spec => []IInv
BY InitIInv, Inductive, PTL DEF Spec

(* The head and the branches keep their types. *)
THEOREM TypeCorrect == Spec => []TypeOK
<1>1. IInv => TypeOK
  BY DEF IInv, TypeOK, FineBranch
<1> QED  BY <1>1, Invariance, PTL

(* The head, every branch and every rollback target are consistent: bindings and
   #key cells are inverse, and every ID from the allocator on is free. *)
THEOREM ConsistencyCorrect == Spec => []AllConsistent
<1>1. ASSUME IInv  PROVE AllConsistent
  <2>1. ASSUME NEW b \in Handles, branches[b] # None
        PROVE  /\ Consistent(branches[b].cells)
               /\ \A i \in DOMAIN branches[b].stack : Consistent(branches[b].stack[i])
    <3>1. FineBranch(branches[b]) /\ branches[b].stack \in Seq(Cells)
      BY <1>1, <2>1 DEF IInv, FineBranch, Branch
    <3>2. DOMAIN branches[b].stack = 1..Len(branches[b].stack)
      BY <3>1
    <3> QED  BY <3>1, <3>2 DEF FineBranch, Fine
  <2>2. TypeOK
    BY <1>1 DEF IInv, TypeOK, FineBranch
  <2> QED  BY <1>1, <2>1, <2>2 DEF IInv, AllConsistent
<1> QED  BY <1>1, Invariance, PTL

(* No create, patch, delete or get ever returns CorruptState in an initialised
   database. *)
THEOREM CorruptionCorrect == Spec => []NeverCorrupt
<1>1. ASSUME NEW c \in Cells, Consistent(c), NEW k \in Keys
      PROVE  Resolve(c, k) # "CorruptState" /\ CreateResult(c, k, NoCells) # "CorruptState"
  <2>1. Resolve(c, k) \in {"NotFound", "ok"}
    BY <1>1, ResolveOK
  <2>2. c.next \in Ids /\ ~(c.next < FirstUserId) /\ c.next >= c.next
    BY <1>1, CellsFields, RecordsAssumption DEF Consistent, Ids
  <2>3. ~Occupied(c, c.next)
    <3>1. c.identity[c.next] = Missing /\ c.user[c.next] = NoCells
      BY <1>1, <2>2 DEF Consistent
    <3> QED  BY <3>1 DEF Occupied, NoCells
  <2>4. Valid(NoCells)
    BY DEF Valid, NoCells
  <2>5. CASE k \in SystemKeys
    <3>1. CreateResult(c, k, NoCells) = "Reserved"
      BY <2>5, RecordsAssumption DEF CreateResult
    <3> QED  BY <2>1, <3>1
  <2>6. CASE k \notin SystemKeys
    <3>1. CreateResult(c, k, NoCells) =
             IF Resolve(c, k) = "CorruptState" THEN "CorruptState"
             ELSE IF Resolve(c, k) = "ok" THEN "AlreadyExists"
             ELSE IF c.next < FirstUserId THEN "CorruptState"
             ELSE IF c.next = MaxId THEN "RecordIdExhausted"
             ELSE IF Occupied(c, c.next) THEN "CorruptState" ELSE "ok"
      BY <2>4, <2>6 DEF CreateResult
    <3> QED  BY <2>1, <2>2, <2>3, <3>1
  <2> QED  BY <2>5, <2>6
<1>2. ASSUME IInv  PROVE \A c \in Views : c \in Cells /\ Consistent(c)
  BY Zenon, <1>2, LiveFine DEF Views, IInv, FineBranch, Fine
<1>3. IInv => NeverCorrupt
  BY <1>1, <1>2 DEF NeverCorrupt
<1> QED  BY <1>3, Invariance, PTL

(* A committed record ID is never given to another key, whichever branches race. *)
THEOREM IdsCorrect == Spec => IdsNeverReused
<1>1. ASSUME IInv, [Next]_vars  PROVE Descends(head.cells, head'.cells)
  <2>1. CASE head' = head
    <3>1. head.cells \in Cells
      BY <1>1 DEF IInv
    <3> QED  BY <2>1, <3>1, DescendsRefl
  <2>2. ASSUME NEW b \in Handles, Commit(b)  PROVE Descends(head.cells, head'.cells)
    <3>1. head'.cells = branches[b].cells /\ Live(b)
      BY <2>2 DEF Commit
    <3>2. Descends(head.cells, branches[b].cells)
      BY <1>1, <3>1, LiveFine DEF FineBranch, Fine
    <3> QED  BY <3>1, <3>2
  <2>3. head' = head \/ \E b \in Handles : Commit(b)
    <3>1. ASSUME NEW b \in Handles,
                 Begin(b) \/ Evict(b) \/ Checkpoint(b) \/ Rollback(b) \/ Discard(b)
          PROVE  head' = head
      BY Zenon, <3>1 DEF Begin, Evict, Checkpoint, Rollback, Discard
    <3>2. ASSUME NEW b \in Handles, NEW k \in Keys, NEW values, NEW removed,
                 Delete(b, k) \/ Create(b, k, values) \/ Patch(b, k, values, removed)
          PROVE  head' = head
      BY <3>2 DEF Delete, Create, Patch, WriteGroup
    <3> QED  BY <1>1, <3>1, <3>2 DEF Next, vars
  <2> QED  BY <2>1, <2>2, <2>3
<1>2. IInv /\ [Next]_vars =>
         [/\ head'.cells.next >= head.cells.next
          /\ \A i \in Ids : i < head.cells.next =>
                head'.cells.identity[i] \in {head.cells.identity[i], Missing}]_vars
  BY <1>1 DEF Descends
<1> QED  BY <1>2, Invariance, PTL DEF Spec, IdsNeverReused

-----------------------------------------------------------------------------
(* Refinement: what the calls do to the documents. *)

LEMMA DocsTyped ==
    ASSUME NEW c \in Cells
    PROVE  DocsOf(c) \in Documents
<1>1. \A k \in UserKeys : Read(c, k) \in RecordCells \cup {Absent}
  <2>1. c.binding \in [Keys -> Ids \cup {Missing}] /\ c.user \in [Ids -> RecordCells]
    BY CellsFields
  <2> QED  BY <2>1 DEF Read, Keys
<1> QED  BY <1>1 DEF DocsOf, Documents

LEMMA CreateDocs ==
    ASSUME NEW c \in Cells, Consistent(c), NEW k \in Keys, NEW values \in RecordCells,
           CreateResult(c, k, values) = "ok"
    PROVE  /\ k \in UserKeys /\ DocsOf(c)[k] = Absent
           /\ DocsOf(CreateCells(c, k, values)) = [DocsOf(c) EXCEPT ![k] = values]
<1> DEFINE d == CreateCells(c, k, values)
<1>1. k \in UserKeys /\ c.binding[k] = Missing
  BY CreateGuard
<1>2. DocsOf(c)[k] = Absent
  BY <1>1 DEF DocsOf, Read
<1>3. /\ c.binding \in [Keys -> Ids \cup {Missing}] /\ c.user \in [Ids -> RecordCells]
      /\ c.next \in Ids /\ Missing \notin Ids /\ Missing \notin Keys
  BY CellsFields, RecordsAssumption
<1>4. c.identity[c.next] = Missing
  <2>1. c.next >= c.next
    BY <1>3, RecordsAssumption DEF Ids
  <2> QED  BY <1>3, <2>1 DEF Consistent
<1>5. \A j \in UserKeys : c.binding[j] # c.next
  BY <1>3, <1>4 DEF Consistent, Keys
<1>6. d.binding = [c.binding EXCEPT ![k] = c.next] /\ d.user = [c.user EXCEPT ![c.next] = values]
  BY DEF CreateCells
<1> HIDE DEF d
<1>7. \A j \in UserKeys : Read(d, j) = IF j = k THEN values ELSE Read(c, j)
  BY <1>1, <1>3, <1>5, <1>6 DEF Read, Keys
<1>8. DocsOf(d) = [DocsOf(c) EXCEPT ![k] = values]
  BY Zenon, <1>1, <1>7 DEF DocsOf
<1> QED  BY <1>1, <1>2, <1>8 DEF d

(* Records of different keys have different IDs. *)
LEMMA OwnId ==
    ASSUME NEW c \in Cells, Consistent(c), NEW j \in Keys, NEW k \in Keys,
           c.binding[k] # Missing, c.binding[j] = c.binding[k]
    PROVE  j = k
BY DEF Consistent

LEMMA PatchDocs ==
    ASSUME NEW c \in Cells, Consistent(c), NEW k \in Keys, NEW set \in RecordCells,
           NEW removed, PatchResult(c, k, set, removed) = "ok"
    PROVE  /\ k \in UserKeys /\ DocsOf(c)[k] # Absent
           /\ \E new \in RecordCells :
                 DocsOf(PatchCells(c, k, set, removed)) = [DocsOf(c) EXCEPT ![k] = new]
<1> DEFINE d == PatchCells(c, k, set, removed)
           new == [n \in Names |-> IF set[n] # Missing THEN set[n]
                                   ELSE IF n \in removed THEN Missing
                                   ELSE c.user[c.binding[k]][n]]
<1>1. k \notin SystemKeys /\ k \in UserKeys /\ Resolve(c, k) = "ok"
  BY DEF PatchResult, Keys
<1>2. c.binding[k] \in Ids /\ c.binding[k] # Missing
  BY <1>1, Found, RecordsAssumption
<1>3. c.binding \in [Keys -> Ids \cup {Missing}] /\ c.user \in [Ids -> RecordCells]
  BY CellsFields
<1>4. new \in RecordCells
  <2>1. c.user[c.binding[k]] \in [Names -> Values \cup {Missing}]
    BY <1>2, <1>3 DEF RecordCells
  <2> QED  BY <2>1 DEF RecordCells
<1>5. d.binding = c.binding /\ d.user = [c.user EXCEPT ![c.binding[k]] = new]
  BY <1>2, <1>3 DEF PatchCells, Cells
<1> HIDE DEF d, new
<1>6. DocsOf(c)[k] # Absent
  <2>1. DocsOf(c)[k] = c.user[c.binding[k]]
    BY <1>1, <1>2 DEF DocsOf, Read
  <2> QED  BY <1>2, <1>3, <2>1, RecordsAssumption
<1>7. \A j \in UserKeys : j # k /\ c.binding[j] # Missing => c.binding[j] # c.binding[k]
  BY <1>1, <1>2, OwnId DEF Keys
<1>8. \A j \in UserKeys : Read(d, j) = IF j = k THEN new ELSE Read(c, j)
  BY Zenon, <1>1, <1>2, <1>3, <1>5, <1>7 DEF Read, Keys
<1>9. DocsOf(d) = [DocsOf(c) EXCEPT ![k] = new]
  BY Zenon, <1>1, <1>8 DEF DocsOf
<1> QED  BY Zenon, <1>1, <1>4, <1>6, <1>9 DEF d

LEMMA DeleteDocs ==
    ASSUME NEW c \in Cells, Consistent(c), NEW k \in Keys, DeleteResult(c, k) = "ok"
    PROVE  /\ k \in UserKeys /\ DocsOf(c)[k] # Absent
           /\ DocsOf(DeleteCells(c, k)) = [DocsOf(c) EXCEPT ![k] = Absent]
<1> DEFINE d == DeleteCells(c, k)
<1>1. k \notin SystemKeys /\ k \in UserKeys /\ Resolve(c, k) = "ok"
  BY DEF DeleteResult, Keys
<1>2. c.binding[k] \in Ids /\ c.binding[k] # Missing
  BY <1>1, Found, RecordsAssumption
<1>3. c.binding \in [Keys -> Ids \cup {Missing}] /\ c.user \in [Ids -> RecordCells]
  BY Zenon, CellsFields
<1>4. /\ d.binding = [c.binding EXCEPT ![k] = Missing]
      /\ d.user = [c.user EXCEPT ![c.binding[k]] = NoCells]
  BY DEF DeleteCells, Cells
<1> HIDE DEF d
<1>5. DocsOf(c)[k] # Absent
  <2>1. DocsOf(c)[k] = c.user[c.binding[k]]
    BY <1>1, <1>2 DEF DocsOf, Read
  <2> QED  BY <1>2, <1>3, <2>1, RecordsAssumption
<1>6. \A j \in UserKeys : j # k /\ c.binding[j] # Missing => c.binding[j] # c.binding[k]
  BY <1>1, <1>2, OwnId DEF Keys
<1>7. \A j \in UserKeys : Read(d, j) = IF j = k THEN Absent ELSE Read(c, j)
  BY <1>1, <1>2, <1>3, <1>4, <1>6 DEF Read, Keys
<1>8. DocsOf(d) = [DocsOf(c) EXCEPT ![k] = Absent]
  BY Zenon, <1>1, <1>7 DEF DocsOf
<1> QED  BY <1>1, <1>5, <1>8 DEF d

-----------------------------------------------------------------------------
(* Refinement: branches. *)

StackView(q) == [i \in DOMAIN q |-> DocsOf(q[i])]

LEMMA StackTyped ==
    ASSUME NEW q \in Seq(Cells)
    PROVE  StackView(q) \in Seq(Documents) /\ Len(StackView(q)) = Len(q)
<1>1. DOMAIN q = 1..Len(q) /\ Len(q) \in Nat /\ \A i \in 1..Len(q) : q[i] \in Cells
  OBVIOUS
<1>2. StackView(q) \in [1..Len(q) -> Documents]
  BY <1>1, DocsTyped DEF StackView
<1> QED  BY <1>1, <1>2

LEMMA ViewOf ==
    ASSUME NEW STATE r, r \in Branch
    PROVE  /\ View(r) = [origin |-> r.origin, docs |-> DocsOf(r.cells),
                         stack |-> StackView(r.stack), consumed |-> r.consumed]
           /\ View(r) # None
<1>1. View(r) = [origin |-> r.origin, docs |-> DocsOf(r.cells),
                 stack |-> StackView(r.stack), consumed |-> r.consumed]
  BY Zenon, RecordsAssumption DEF View, StackView
<1>2. /\ r.origin \in Nat /\ r.consumed \in BOOLEAN /\ DocsOf(r.cells) \in Documents
      /\ StackView(r.stack) \in Seq(Documents)
  BY DocsTyped, StackTyped DEF Branch
<1>3. View(r) \in [origin : Nat, docs : Documents, stack : Seq(Documents), consumed : BOOLEAN]
  BY <1>1, <1>2
<1> QED  BY Zenon, <1>1, <1>3, RecordsAssumption

(* A live branch is a live branch of documents. *)
LEMMA LiveView ==
    ASSUME IInv, NEW b \in Handles, Live(b)
    PROVE  /\ D!Live(b)
           /\ Open[b] = [origin |-> branches[b].origin, docs |-> DocsOf(branches[b].cells),
                         stack |-> StackView(branches[b].stack), consumed |-> branches[b].consumed]
<1>1. branches[b] \in Branch /\ branches[b] # None /\ branches[b].origin = head.commit
  BY LiveFine DEF Live, FineBranch
<1>2. Open[b] = View(branches[b]) /\ Published.commit = head.commit
  BY DEF Open, Published
<1> QED  BY <1>1, <1>2, ViewOf DEF D!Live

(* A step that changes one branch changes one branch of documents. *)
LEMMA OpenEffect ==
    ASSUME IInv, NEW b \in Handles, NEW STATE r, branches' = [branches EXCEPT ![b] = r]
    PROVE  Open' = [Open EXCEPT ![b] = View(r)]
<1>1. \A q \in Handles : branches'[q] = IF q = b THEN r ELSE branches[q]
  BY DEF IInv
<1>2. Open' = [q \in Handles |-> View(branches'[q])]
  BY DEF Open, View, DocsOf, Read
<1>3. \A q \in Handles : Open[q] = View(branches[q])
  BY DEF Open
<1>4. \A q \in Handles : View(branches'[q]) = IF q = b THEN View(r) ELSE View(branches[q])
  BY <1>1
<1>5. DOMAIN Open = Handles
  BY DEF Open
<1> QED  BY Zenon, <1>2, <1>3, <1>4, <1>5 DEF Open

(* A branch of documents is given by its fields. *)
LEMMA SameView ==
    ASSUME NEW o, NEW f, NEW q, NEW e,
           NEW v \in [origin : {o}, docs : {f}, stack : {q}, consumed : {e}]
    PROVE  v = [origin |-> o, docs |-> f, stack |-> q, consumed |-> e]
<1> DEFINE w == [origin |-> o, docs |-> f, stack |-> q, consumed |-> e]
<1>1. w \in [origin : {o}, docs : {f}, stack : {q}, consumed : {e}]
  OBVIOUS
<1> HIDE DEF w
<1>2. v = w
  BY <1>1
<1> QED  BY <1>2 DEF w

(* A step of module Documents that leaves its branch as it is is a stutter. *)
LEMMA StepOrStutter ==
    ASSUME NEW b \in Handles, D!Step(b)
    PROVE  D!Next \/ UNCHANGED D!vars
<1> SUFFICES ASSUME Open'[b] = Open[b]  PROVE UNCHANGED D!vars
  BY DEF D!Next
<1>0. Open = [x \in Handles |-> Open[x]]
  BY DEF Open
<1>1. ASSUME NEW v, Open' = [Open EXCEPT ![b] = v], Published' = Published
      PROVE  UNCHANGED D!vars
  <2>1. v = Open[b]
    BY <1>0, <1>1
  <2>2. Open' = Open
    BY <1>0, <1>1, <2>1
  <2> QED  BY <1>1, <2>2 DEF D!vars
<1>2. CASE D!Begin(b)
  BY Zenon, <1>1, <1>2 DEF D!Begin
<1>3. CASE D!Checkpoint(b)
  BY Zenon, <1>1, <1>3 DEF D!Checkpoint
<1>4. CASE D!Rollback(b)
  BY ZenonT(30), <1>1, <1>4 DEF D!Rollback
<1>5. CASE D!Drop(b)
  BY Zenon, <1>1, <1>5 DEF D!Drop
<1>6. CASE D!Commit(b)
  BY <1>0, <1>6 DEF D!Commit, D!Live
<1>7. ASSUME NEW k, NEW d, D!Put(b, k, d)  PROVE UNCHANGED D!vars
  BY Zenon, <1>1, <1>7 DEF D!Put
<1> QED  BY Zenon, <1>2, <1>3, <1>4, <1>5, <1>6, <1>7 DEF D!Step, D!Delete

(* A write group that changes one document. *)
LEMMA PutRefines ==
    ASSUME IInv, NEW b \in Handles, Live(b), NEW STATE c, c \in Cells, NEW k \in UserKeys,
           NEW STATE d, DocsOf(c) = [DocsOf(branches[b].cells) EXCEPT ![k] = d],
           WriteGroup(b, c, TRUE)
    PROVE  D!Put(b, k, d)
<1> DEFINE old == branches[b]
           r == [old EXCEPT !.cells = c, !.consumed = FALSE]
           w == [Open[b] EXCEPT !.docs = [Open[b].docs EXCEPT ![k] = d], !.consumed = FALSE]
<1>1. old \in Branch
  BY LiveFine DEF FineBranch
<1>2. /\ r \in Branch /\ r.origin = old.origin /\ r.cells = c /\ r.stack = old.stack
      /\ r.consumed = FALSE
  BY Zenon, <1>1 DEF Branch
<1>3. branches' = [branches EXCEPT ![b] = r] /\ head' = head
  BY Zenon DEF WriteGroup, IInv
<1>4. Open[b] = [origin |-> old.origin, docs |-> DocsOf(old.cells),
                 stack |-> StackView(old.stack), consumed |-> old.consumed]
  BY Zenon, LiveView
<1> HIDE DEF r
<1>5. View(r) = w
  <2>1. View(r) = [origin |-> r.origin, docs |-> DocsOf(r.cells),
                   stack |-> StackView(r.stack), consumed |-> r.consumed]
    BY Zenon, <1>2, ViewOf
  <2>2. w = [origin |-> old.origin, docs |-> [DocsOf(old.cells) EXCEPT ![k] = d],
             stack |-> StackView(old.stack), consumed |-> FALSE]
    <3>1. Open[b].docs = DocsOf(old.cells)
      BY <1>4
    <3>2. Open[b] \in [origin : {old.origin}, docs : {DocsOf(old.cells)},
                       stack : {StackView(old.stack)}, consumed : {old.consumed}]
      BY <1>4
    <3>3. w \in [origin : {old.origin}, docs : {[DocsOf(old.cells) EXCEPT ![k] = d]},
                 stack : {StackView(old.stack)}, consumed : {FALSE}]
      BY Zenon, <3>1, <3>2
    <3> HIDE DEF w
    <3> QED  BY Zenon, <3>3, SameView
  <2> QED  BY Zenon, <1>2, <2>1, <2>2
<1>6. Open' = [Open EXCEPT ![b] = w]
  BY Zenon, <1>3, <1>5, OpenEffect
<1>7. Open' = [Open EXCEPT ![b].docs[k] = d, ![b].consumed = FALSE]
  BY Zenon, <1>6 DEF Open
<1>8. Published' = Published
  BY Zenon, <1>3 DEF Published, DocsOf, Read
<1>9. D!Live(b)
  BY Zenon, LiveView
<1> QED  BY <1>7, <1>8, <1>9 DEF D!Put

LEMMA CallsRefine ==
    ASSUME IInv, NEW b \in Handles, NEW k \in Keys, NEW values \in RecordCells, NEW removed,
           Create(b, k, values) \/ Patch(b, k, values, removed) \/ Delete(b, k)
    PROVE  D!Next \/ UNCHANGED D!vars
<1> DEFINE c == branches[b].cells
<1>1. Live(b) /\ D!Live(b)
  BY Zenon, LiveView DEF Create, Patch, Delete
<1>2. c \in Cells /\ Consistent(c) /\ Open[b].docs = DocsOf(c)
  <2>1. Open[b].docs = DocsOf(c)
    <3>1. Open[b] = [origin |-> branches[b].origin, docs |-> DocsOf(c),
                     stack |-> StackView(branches[b].stack), consumed |-> branches[b].consumed]
      BY Zenon, <1>1, LiveView
    <3> QED  BY <3>1
  <2> QED  BY Zenon, <1>1, <2>1, LiveFine DEF FineBranch, Fine
<1>3. CASE Create(b, k, values)
  <2>1. CreateResult(c, k, values) = "ok" /\ WriteGroup(b, CreateCells(c, k, values), TRUE)
    BY Zenon, <1>3 DEF Create
  <2>2. /\ k \in UserKeys /\ DocsOf(c)[k] = Absent /\ CreateCells(c, k, values) \in Cells
        /\ DocsOf(CreateCells(c, k, values)) = [DocsOf(c) EXCEPT ![k] = values]
    BY ZenonT(30), <1>2, <2>1, CreateDocs, CreateKeeps
  <2>3. D!Put(b, k, values)
    BY Zenon, <1>1, <2>1, <2>2, PutRefines
  <2> QED  BY <2>2, <2>3, StepOrStutter DEF D!Step, D!Document, RecordCells
<1>4. CASE Patch(b, k, values, removed)
  <2> DEFINE p == PatchCells(c, k, values, removed)
  <2>0. PatchResult(c, k, values, removed) = "ok"
    BY <1>4 DEF Patch
  <2>1. WriteGroup(b, p, p # c)
    BY <1>4 DEF Patch
  <2> HIDE DEF c
  <2>2. k \in UserKeys /\ DocsOf(c)[k] # Absent /\ p \in Cells
    <3>1. p \in Cells
      BY <1>2, <2>0, PatchKeeps
    <3>2. k \in UserKeys /\ DocsOf(c)[k] # Absent
      BY <1>2, <2>0, PatchDocs
    <3> QED  BY <3>1, <3>2
  <2>3. PICK new \in RecordCells : DocsOf(p) = [DocsOf(c) EXCEPT ![k] = new]
    BY <1>2, <2>0, PatchDocs
  <2> USE DEF c
  <2> HIDE DEF p
  <2>4. CASE p # c
    <3>1. WriteGroup(b, p, TRUE)
      BY Zenon, <2>1, <2>4 DEF WriteGroup
    <3>2. D!Put(b, k, new)
      BY Zenon, <1>1, <2>2, <2>3, <3>1, PutRefines
    <3> QED  BY <2>2, <3>2, StepOrStutter DEF D!Step, D!Document, RecordCells
  <2>5. CASE p = c
    <3>1. branches[b] \in Branch
      BY Zenon, <1>1, LiveFine DEF FineBranch
    <3>2. /\ branches' = [branches EXCEPT ![b] = [branches[b] EXCEPT !.cells = c, !.consumed = @ /\ TRUE]]
          /\ head' = head
      BY Zenon, <2>1, <2>5 DEF WriteGroup, IInv
    <3>3. [branches[b] EXCEPT !.cells = c, !.consumed = @ /\ TRUE] = branches[b]
      BY Zenon, <3>1 DEF Branch
    <3>4. Open' = [Open EXCEPT ![b] = View(branches[b])]
      BY Zenon, <3>2, <3>3, OpenEffect
    <3>5. Open' = Open
      BY Zenon, <3>4 DEF Open
    <3>6. Published' = Published
      BY <3>2 DEF Published, DocsOf, Read
    <3> QED  BY <3>5, <3>6 DEF D!vars
  <2> QED  BY <2>4, <2>5
<1>5. CASE Delete(b, k)
  <2>1. DeleteResult(c, k) = "ok" /\ WriteGroup(b, DeleteCells(c, k), TRUE)
    BY Zenon, <1>5 DEF Delete
  <2>2. /\ k \in UserKeys /\ DocsOf(c)[k] # Absent /\ DeleteCells(c, k) \in Cells
        /\ DocsOf(DeleteCells(c, k)) = [DocsOf(c) EXCEPT ![k] = Absent]
    BY Zenon, <1>2, <2>1, DeleteDocs, DeleteKeeps
  <2>3. D!Put(b, k, Absent)
    BY Zenon, <1>1, <2>1, <2>2, PutRefines
  <2>4. D!Delete(b, k)
    BY Zenon, <1>1, <1>2, <2>2, <2>3 DEF D!Delete
  <2> QED  BY <2>2, <2>4, StepOrStutter DEF D!Step
<1> QED  BY <1>3, <1>4, <1>5

(* Frames are saved and dropped alike on both sides. *)
LEMMA SameSeq ==
    ASSUME NEW S, NEW a \in Seq(S), NEW b \in Seq(S), Len(a) = Len(b),
           \A i \in 1..Len(a) : a[i] = b[i]
    PROVE  a = b
<1>1. a \in [1..Len(a) -> S] /\ b \in [1..Len(a) -> S]
  OBVIOUS
<1> QED  BY <1>1

LEMMA StackOne ==
    ASSUME NEW c \in Cells
    PROVE  StackView(<<c>>) = <<DocsOf(c)>>
<1>1. <<c>> \in Seq(Cells) /\ Len(<<c>>) = 1 /\ DOMAIN <<c>> = 1..1 /\ <<c>>[1] = c
  OBVIOUS
<1>2. StackView(<<c>>) \in Seq(Documents) /\ Len(StackView(<<c>>)) = 1
  BY Zenon, <1>1, StackTyped
<1>3. StackView(<<c>>)[1] = DocsOf(c)
  BY <1>1 DEF StackView
<1>4. <<DocsOf(c)>> \in Seq(Documents) /\ Len(<<DocsOf(c)>>) = 1 /\ <<DocsOf(c)>>[1] = DocsOf(c)
  BY DocsTyped
<1> QED  BY <1>2, <1>3, <1>4, SameSeq

LEMMA StackAppend ==
    ASSUME NEW q \in Seq(Cells), NEW c \in Cells
    PROVE  StackView(Append(q, c)) = Append(StackView(q), DocsOf(c))
<1> DEFINE a == Append(q, c)
           v == StackView(q)
           w == Append(v, DocsOf(c))
<1>1. /\ a \in Seq(Cells) /\ Len(a) = Len(q) + 1 /\ Len(q) \in Nat
      /\ DOMAIN a = 1..Len(a) /\ DOMAIN q = 1..Len(q)
      /\ \A i \in 1..Len(q) : a[i] = q[i]
      /\ a[Len(q) + 1] = c
  OBVIOUS
<1>2. v \in Seq(Documents) /\ Len(v) = Len(q) /\ DocsOf(c) \in Documents
  BY StackTyped, DocsTyped
<1>3. \A i \in 1..Len(q) : v[i] = DocsOf(q[i])
  BY <1>1 DEF StackView
<1> HIDE DEF v
<1>4. /\ w \in Seq(Documents) /\ Len(w) = Len(q) + 1 /\ \A i \in 1..Len(q) : w[i] = v[i]
      /\ w[Len(q) + 1] = DocsOf(c)
  BY <1>2
<1> HIDE DEF a, w
<1>5. StackView(a) \in Seq(Documents) /\ Len(StackView(a)) = Len(q) + 1
  BY <1>1, StackTyped
<1>6. \A i \in 1..(Len(q) + 1) : StackView(a)[i] = DocsOf(a[i])
  BY <1>1 DEF StackView
<1>7. \A i \in 1..(Len(q) + 1) : StackView(a)[i] = w[i]
  <2> SUFFICES ASSUME NEW i \in 1..(Len(q) + 1)  PROVE StackView(a)[i] = w[i]
    OBVIOUS
  <2>1. CASE i = Len(q) + 1
    BY <1>1, <1>4, <1>6, <2>1
  <2>2. CASE i \in 1..Len(q)
    BY Zenon, <1>1, <1>3, <1>4, <1>6, <2>2
  <2> QED  BY <1>1, <2>1, <2>2
<1>8. StackView(a) = w
  BY <1>4, <1>5, <1>7, SameSeq
<1> QED  BY <1>8 DEF a, v, w

LEMMA StackPop ==
    ASSUME NEW q \in Seq(Cells), Len(q) > 1
    PROVE  StackView(SubSeq(q, 1, Len(q) - 1))
              = SubSeq(StackView(q), 1, Len(StackView(q)) - 1)
<1> DEFINE a == SubSeq(q, 1, Len(q) - 1)
           v == StackView(q)
           w == SubSeq(v, 1, Len(v) - 1)
<1>1. /\ a \in Seq(Cells) /\ Len(a) = Len(q) - 1 /\ Len(q) \in Nat
      /\ DOMAIN a = 1..Len(a) /\ DOMAIN q = 1..Len(q)
      /\ \A i \in 1..(Len(q) - 1) : a[i] = q[i] /\ i \in 1..Len(q)
  OBVIOUS
<1>2. v \in Seq(Documents) /\ Len(v) = Len(q)
  BY StackTyped
<1>3. \A i \in 1..Len(q) : v[i] = DocsOf(q[i])
  BY <1>1 DEF StackView
<1> HIDE DEF v
<1>4. w \in Seq(Documents) /\ Len(w) = Len(q) - 1 /\ \A i \in 1..(Len(q) - 1) : w[i] = v[i]
  BY <1>2
<1> HIDE DEF a, w
<1>5. StackView(a) \in Seq(Documents) /\ Len(StackView(a)) = Len(q) - 1
  BY <1>1, StackTyped
<1>6. \A i \in 1..(Len(q) - 1) : StackView(a)[i] = DocsOf(a[i])
  BY <1>1 DEF StackView
<1>7. \A i \in 1..(Len(q) - 1) : StackView(a)[i] = w[i]
  BY <1>1, <1>3, <1>4, <1>6
<1>8. StackView(a) = w
  BY <1>4, <1>5, <1>7, SameSeq
<1> QED  BY <1>8 DEF a, v, w

LEMMA BeginRefines ==
    ASSUME IInv, NEW b \in Handles, Begin(b)
    PROVE  D!Begin(b)
<1> DEFINE r == [origin |-> head.commit, cells |-> head.cells,
                 stack |-> <<head.cells>>, consumed |-> FALSE]
<1>1. head.commit \in Nat /\ head.cells \in Cells
  BY DEF IInv
<1>2. r \in Branch
  BY <1>1 DEF Branch
<1>3. View(r) = [origin |-> head.commit, docs |-> DocsOf(head.cells),
                 stack |-> <<DocsOf(head.cells)>>, consumed |-> FALSE]
  <2>1. r.origin = head.commit /\ r.cells = head.cells /\ r.stack = <<head.cells>> /\ r.consumed = FALSE
    OBVIOUS
  <2> HIDE DEF r
  <2> QED  BY Zenon, <1>1, <1>2, <2>1, ViewOf, StackOne
<1>4. branches' = [branches EXCEPT ![b] = r] /\ head' = head /\ branches[b] = None
  BY DEF Begin
<1> HIDE DEF r
<1>5. Open' = [Open EXCEPT ![b] = View(r)]
  BY Zenon, <1>4, OpenEffect
<1>6. Open[b] = None
  BY <1>4 DEF Open, View
<1>7. Published.commit = head.commit /\ Published.docs = DocsOf(head.cells)
  BY DEF Published
<1>8. Published' = Published
  BY <1>4 DEF Published, DocsOf, Read
<1> QED  BY Zenon, <1>3, <1>5, <1>6, <1>7, <1>8 DEF D!Begin

LEMMA DropRefines ==
    ASSUME IInv, NEW b \in Handles, Evict(b) \/ Discard(b)
    PROVE  D!Drop(b)
<1>1. branches' = [branches EXCEPT ![b] = None] /\ head' = head /\ branches[b] # None
  BY DEF Evict, Discard, Live
<1>2. branches[b] \in Branch
  BY Zenon, <1>1 DEF IInv, FineBranch
<1>3. Open[b] # None
  BY <1>2, ViewOf DEF Open
<1>4. Open' = [Open EXCEPT ![b] = View(None)]
  BY Zenon, <1>1, OpenEffect
<1>5. View(None) = None
  BY DEF View
<1>6. Published' = Published
  BY Zenon, <1>1 DEF Published, DocsOf, Read
<1> QED  BY <1>3, <1>4, <1>5, <1>6 DEF D!Drop

LEMMA CommitRefines ==
    ASSUME IInv, NEW b \in Handles, Commit(b)
    PROVE  D!Commit(b)
<1>1. Live(b) /\ head' = [commit |-> head.commit + 1, cells |-> branches[b].cells]
      /\ branches' = [branches EXCEPT ![b] = None]
  BY DEF Commit
<1>2. /\ D!Live(b)
      /\ Open[b] = [origin |-> branches[b].origin, docs |-> DocsOf(branches[b].cells),
                    stack |-> StackView(branches[b].stack), consumed |-> branches[b].consumed]
  BY Zenon, <1>1, LiveView
<1>3. Open[b].docs = DocsOf(branches[b].cells)
  BY <1>2
<1>4. Open' = [Open EXCEPT ![b] = View(None)]
  BY Zenon, <1>1, OpenEffect
<1>5. View(None) = None
  BY DEF View
<1>6. head'.commit = head.commit + 1 /\ head'.cells = branches[b].cells
  BY <1>1
<1>7. Published' = [commit |-> head.commit + 1, docs |-> DocsOf(branches[b].cells)]
  BY <1>6 DEF Published, DocsOf, Read
<1>8. Published.commit = head.commit
  BY DEF Published
<1> QED  BY Zenon, <1>2, <1>3, <1>4, <1>5, <1>7, <1>8 DEF D!Commit

LEMMA CheckpointRefines ==
    ASSUME IInv, NEW b \in Handles, Checkpoint(b)
    PROVE  D!Checkpoint(b)
<1> DEFINE old == branches[b]
           frames == IF old.consumed THEN old.stack ELSE Append(old.stack, old.cells)
           r == [old EXCEPT !.stack = frames, !.consumed = FALSE]
           o == Open[b]
           g == IF o.consumed THEN o.stack ELSE Append(o.stack, o.docs)
           w == [o EXCEPT !.stack = g, !.consumed = FALSE]
<1>1. /\ Live(b) /\ old \in Branch /\ old.cells \in Cells /\ old.stack \in Seq(Cells)
      /\ old.consumed \in BOOLEAN
  BY LiveFine DEF FineBranch, Checkpoint
<1>2. branches' = [branches EXCEPT ![b] = r] /\ head' = head
  BY Zenon DEF Checkpoint, IInv
<1>3. frames \in Seq(Cells)
  BY <1>1
<1>4. /\ D!Live(b)
      /\ o = [origin |-> old.origin, docs |-> DocsOf(old.cells),
              stack |-> StackView(old.stack), consumed |-> old.consumed]
  BY Zenon, <1>1, LiveView
<1>5. o.docs = DocsOf(old.cells) /\ o.stack = StackView(old.stack) /\ o.consumed = old.consumed
  BY <1>4
<1>6. o \in [origin : {old.origin}, docs : {DocsOf(old.cells)},
             stack : {StackView(old.stack)}, consumed : {old.consumed}]
  BY <1>4
<1>7. StackView(frames) = g
  BY Zenon, <1>1, <1>5, StackAppend
<1> HIDE DEF frames, g, o
<1>8. /\ r \in Branch /\ r.origin = old.origin /\ r.cells = old.cells /\ r.stack = frames
      /\ r.consumed = FALSE
  BY Zenon, <1>1, <1>3 DEF Branch
<1> HIDE DEF r
<1>9. View(r) = w
  <2>1. View(r) = [origin |-> old.origin, docs |-> DocsOf(old.cells),
                   stack |-> g, consumed |-> FALSE]
    BY Zenon, <1>7, <1>8, ViewOf
  <2>2. w \in [origin : {old.origin}, docs : {DocsOf(old.cells)}, stack : {g}, consumed : {FALSE}]
    BY Zenon, <1>6
  <2> HIDE DEF w
  <2> QED  BY Zenon, <2>1, <2>2, SameView
<1>10. Open' = [Open EXCEPT ![b] = w]
  BY Zenon, <1>2, <1>9, OpenEffect
<1>11. Open' = [Open EXCEPT ![b].stack = IF Open[b].consumed THEN @ ELSE Append(@, Open[b].docs),
                            ![b].consumed = FALSE]
  BY Zenon, <1>10 DEF Open, g, o
<1>12. Published' = Published
  BY <1>2 DEF Published, DocsOf, Read
<1> QED  BY <1>4, <1>11, <1>12 DEF D!Checkpoint

LEMMA RollbackRefines ==
    ASSUME IInv, NEW b \in Handles, Rollback(b)
    PROVE  D!Rollback(b)
<1> DEFINE old == branches[b]
           kept == IF old.consumed THEN SubSeq(old.stack, 1, Len(old.stack) - 1) ELSE old.stack
           r == [old EXCEPT !.stack = kept, !.cells = kept[Len(kept)], !.consumed = TRUE]
           o == Open[b]
           g == IF o.consumed THEN SubSeq(o.stack, 1, Len(o.stack) - 1) ELSE o.stack
           w == [o EXCEPT !.stack = g, !.docs = g[Len(g)], !.consumed = TRUE]
<1>1. /\ Live(b) /\ old \in Branch /\ old.cells \in Cells /\ old.stack \in Seq(Cells)
      /\ Len(old.stack) \in Nat /\ Len(old.stack) >= 1 /\ old.consumed \in BOOLEAN
      /\ old.consumed => Len(old.stack) > 1
  BY LiveFine DEF FineBranch, Rollback
<1>2. branches' = [branches EXCEPT ![b] = r] /\ head' = head
  BY Zenon DEF Rollback, IInv
<1>3. kept \in Seq(Cells) /\ Len(kept) \in Nat /\ Len(kept) >= 1
  <2>1. CASE ~old.consumed
    BY <1>1, <2>1
  <2>2. CASE old.consumed
    <3>1. SubSeq(old.stack, 1, Len(old.stack) - 1) \in Seq(Cells)
          /\ Len(SubSeq(old.stack, 1, Len(old.stack) - 1)) = Len(old.stack) - 1
      BY <1>1, <2>2
    <3> QED  BY <1>1, <2>2, <3>1
  <2> QED  BY <2>1, <2>2
<1>4. /\ D!Live(b)
      /\ o = [origin |-> old.origin, docs |-> DocsOf(old.cells),
              stack |-> StackView(old.stack), consumed |-> old.consumed]
  BY Zenon, <1>1, LiveView
<1>5. o.docs = DocsOf(old.cells) /\ o.stack = StackView(old.stack) /\ o.consumed = old.consumed
  BY <1>4
<1>6. o \in [origin : {old.origin}, docs : {DocsOf(old.cells)},
             stack : {StackView(old.stack)}, consumed : {old.consumed}]
  BY <1>4
<1>7. Len(o.stack) = Len(old.stack)
  BY Zenon, <1>1, <1>5, StackTyped
<1>8. StackView(kept) = g
  <2>1. CASE ~old.consumed
    BY <1>5, <2>1
  <2>2. CASE old.consumed
    <3>1. kept = SubSeq(old.stack, 1, Len(old.stack) - 1)
          /\ g = SubSeq(StackView(old.stack), 1, Len(StackView(old.stack)) - 1)
      BY <1>5, <2>2
    <3> QED  BY Zenon, <1>1, <2>2, <3>1, StackPop
  <2> QED  BY Zenon, <2>1, <2>2
<1> HIDE DEF kept, g, o
<1>9. g[Len(g)] = DocsOf(kept[Len(kept)]) /\ kept[Len(kept)] \in Cells
  <2>1. Len(g) = Len(kept) /\ Len(kept) \in DOMAIN kept /\ kept[Len(kept)] \in Cells
    BY <1>3, <1>8, StackTyped
  <2>2. StackView(kept)[Len(kept)] = DocsOf(kept[Len(kept)])
    BY <2>1 DEF StackView
  <2> QED  BY <1>8, <2>1, <2>2
<1>10. /\ r \in Branch /\ r.origin = old.origin /\ r.cells = kept[Len(kept)] /\ r.stack = kept
       /\ r.consumed = TRUE
  BY Zenon, <1>1, <1>3, <1>9 DEF Branch
<1> HIDE DEF r
<1>11. View(r) = w
  <2>1. View(r) = [origin |-> old.origin, docs |-> g[Len(g)], stack |-> g, consumed |-> TRUE]
    BY ZenonT(30), <1>8, <1>9, <1>10, ViewOf
  <2>2. w \in [origin : {old.origin}, docs : {g[Len(g)]}, stack : {g}, consumed : {TRUE}]
    BY Zenon, <1>6
  <2> HIDE DEF w
  <2> QED  BY Zenon, <2>1, <2>2, SameView
<1>12. Open' = [Open EXCEPT ![b] = w]
  BY Zenon, <1>2, <1>11, OpenEffect
<1>13. Open' = [Open EXCEPT ![b].stack = g, ![b].docs = g[Len(g)], ![b].consumed = TRUE]
  BY Zenon, <1>12 DEF Open, o
<1>14. Published' = Published
  BY <1>2 DEF Published, DocsOf, Read
<1>15. Open[b].consumed => Len(Open[b].stack) > 1
  BY Zenon, <1>1, <1>5, <1>7 DEF o
<1>16. g = IF Open[b].consumed THEN SubSeq(Open[b].stack, 1, Len(Open[b].stack) - 1)
           ELSE Open[b].stack
  BY DEF g, o
<1> QED  BY <1>4, <1>13, <1>14, <1>15, <1>16 DEF D!Rollback

LEMMA StepRefines == IInv /\ [Next]_vars => [D!Next]_(D!vars)
<1> SUFFICES ASSUME IInv, [Next]_vars  PROVE D!Next \/ UNCHANGED D!vars
  OBVIOUS
<1>1. CASE UNCHANGED vars
  <2>1. head' = head /\ branches' = branches
    BY <1>1 DEF vars
  <2>2. Published' = Published
    BY Zenon, <2>1 DEF Published, DocsOf, Read
  <2>3. Open' = Open
    BY <2>1 DEF Open, View, DocsOf, Read
  <2> QED  BY <2>2, <2>3 DEF D!vars
<1>2. ASSUME NEW b \in Handles,
             \/ Begin(b) \/ Evict(b) \/ Checkpoint(b) \/ Rollback(b) \/ Commit(b) \/ Discard(b)
      PROVE  D!Next \/ UNCHANGED D!vars
  <2>1. D!Begin(b) \/ D!Checkpoint(b) \/ D!Rollback(b) \/ D!Commit(b) \/ D!Drop(b)
    BY <1>2, BeginRefines, CheckpointRefines, RollbackRefines, CommitRefines, DropRefines
  <2> QED  BY <2>1, StepOrStutter DEF D!Step
<1>3. ASSUME NEW b \in Handles, NEW k \in Keys, Delete(b, k)
      PROVE  D!Next \/ UNCHANGED D!vars
  BY <1>3, NoCellsTyped, CallsRefine
<1>4. ASSUME NEW b \in Handles, NEW k \in Keys, NEW values \in RecordCells, NEW removed,
             Create(b, k, values) \/ Patch(b, k, values, removed)
      PROVE  D!Next \/ UNCHANGED D!vars
  BY <1>4, CallsRefine
<1> QED  BY <1>1, <1>2, <1>3, <1>4 DEF Next

LEMMA InitRefines == Init => D!Init
<1> SUFFICES ASSUME Init  PROVE D!Init
  OBVIOUS
<1>1. \A k \in UserKeys : Genesis.binding[k] = Missing
  BY RecordsAssumption DEF Genesis, Keys
<1>2. DocsOf(Genesis) = [k \in UserKeys |-> Absent]
  BY <1>1 DEF DocsOf, Read
<1>3. head.commit = 0 /\ head.cells = Genesis /\ branches = [b \in Handles |-> None]
  BY DEF Init
<1>4. Published = [commit |-> 0, docs |-> [k \in UserKeys |-> Absent]]
  BY <1>2, <1>3 DEF Published
<1>5. Open = [b \in Handles |-> None]
  BY <1>3 DEF Open, View
<1> QED  BY <1>4, <1>5 DEF D!Init

(* Users of the record layer see plain documents addressed by key: whatever is
   created, patched, deleted, rolled back and committed through record IDs,
   bindings and the allocator is a behaviour of module Documents. *)
THEOREM RecordsImplementDocuments == Spec => ImplementsDocuments
BY InitRefines, StepRefines, Invariance, PTL DEF Spec, D!Spec, ImplementsDocuments
=============================================================================
