------------------------------- MODULE Records ------------------------------
(***************************************************************************)
(* The record layer (crates/record): create, patch, delete and get over    *)
(* the cells of a branch or of the head.                                   *)
(*                                                                         *)
(* A record is a set of cells under a numeric ID.  Three more cells tie it *)
(* to its key: its own #key cell, a binding cell of the reserved record    *)
(* #recordKeys, and the allocator cell of #alloc, which all branches of a  *)
(* head read, change and roll back independently.  A branch behaves as     *)
(* modules Frames and Versions promise.                                    *)
(***************************************************************************)
EXTENDS Integers, Sequences, FiniteSets

CONSTANTS
    Handles,     \* branch IDs
    UserKeys,    \* record keys of users
    SystemKeys,  \* system::ALL, the exact reserved keys
    SystemId,    \* system::by_key, [SystemKeys -> reserved record IDs]
    FirstUserId, \* FIRST_USER_RECORD_ID
    MaxId,       \* u64::MAX of record IDs
    Names,       \* cell names
    BadNames,    \* those the grammar or the length limit refuses
    Values,      \* cell values
    BadValues,   \* those over a length limit
    Missing,     \* no cell
    None,        \* a handle that names no live branch
    Absent,      \* no record: NotFound
    MaxCommit,   \* bound on commits
    MaxFrames    \* bound at a checkpoint on all open frames and commits together

VARIABLES
    head,        \* [commit |-> number, cells |-> committed cells]
    branches     \* [Handles -> a branch or None]

vars == <<head, branches>>

Keys == UserKeys \cup SystemKeys

Ids == 0..MaxId

RecordCells == [Names -> Values \cup {Missing}]

(* What the cells of users' records amount to. *)
Documents == [UserKeys -> RecordCells \cup {Absent}]

(* The cells the record layer reads and writes, by kind of address. *)
Cells ==
    [binding  : [Keys -> Ids \cup {Missing}],   \* (#recordKeys, key)
     identity : [Ids -> Keys \cup {Missing}],   \* (id, #key)
     user     : [Ids -> RecordCells],           \* (id, name)
     next     : Ids]                            \* (#alloc, #nextRecordID)

Branch == [origin : Nat, cells : Cells, stack : Seq(Cells), consumed : BOOLEAN]

ASSUME RecordsAssumption ==
    /\ UserKeys \cap SystemKeys = {}
    /\ FirstUserId \in Nat /\ MaxId \in Nat /\ FirstUserId <= MaxId
    /\ SystemId \in [SystemKeys -> 0..(FirstUserId - 1)]
    /\ \A j, k \in SystemKeys : SystemId[j] = SystemId[k] => j = k
    /\ BadNames \subseteq Names /\ BadValues \subseteq Values
    /\ Missing \notin Values /\ Missing \notin Keys /\ Missing \notin Ids
    /\ MaxCommit \in Nat /\ MaxFrames \in Nat
    /\ Absent \notin RecordCells
    /\ None \notin Branch
    /\ None \notin [origin : Nat, docs : Documents, stack : Seq(Documents), consumed : BOOLEAN]

TypeOK ==
    /\ head \in [commit : Nat, cells : Cells]
    /\ \A b \in Handles : branches[b] = None \/ branches[b] \in Branch
    /\ DOMAIN branches = Handles

NoCells == [n \in Names |-> Missing]

(* What genesis writes: the reserved records, their bindings, the allocator. *)
Genesis ==
    [binding  |-> [k \in Keys |-> IF k \in SystemKeys THEN SystemId[k] ELSE Missing],
     identity |-> [i \in Ids |-> IF \E k \in SystemKeys : SystemId[k] = i
                                 THEN CHOOSE k \in SystemKeys : SystemId[k] = i
                                 ELSE Missing],
     user     |-> [i \in Ids |-> NoCells],
     next     |-> FirstUserId]

Init ==
    /\ head = [commit |-> 0, cells |-> Genesis]
    /\ branches = [b \in Handles |-> None]

-----------------------------------------------------------------------------
(* Reading the cells c of a branch or of a committed snapshot. *)

CorruptBinding(c, k) ==
    \/ c.binding[k] = Missing /\ k \in SystemKeys
    \/ c.binding[k] # Missing /\ k \in SystemKeys /\ c.binding[k] # SystemId[k]
    \/ c.binding[k] # Missing /\ k \in UserKeys /\ c.binding[k] < FirstUserId

CorruptIdentity(c, k) ==
    c.binding[k] # Missing /\ c.identity[c.binding[k]] # k

(* resolve: the key is bound to no record, to a record, or inconsistently. *)
Resolve(c, k) ==
    IF CorruptBinding(c, k) \/ CorruptIdentity(c, k) THEN "CorruptState"
    ELSE IF c.binding[k] = Missing THEN "NotFound" ELSE "ok"

(* get: all user cells of the record, after resolve has succeeded. *)
Read(c, k) ==
    IF c.binding[k] = Missing THEN Absent ELSE c.user[c.binding[k]]

(* A scan of the record's prefix finds a row. *)
Occupied(c, i) ==
    c.identity[i] # Missing \/ \E n \in Names : c.user[i][n] # Missing

Valid(values) ==
    \A n \in Names : values[n] # Missing => n \notin BadNames /\ values[n] \notin BadValues

-----------------------------------------------------------------------------
(* Create, patch and delete: what they return and the cells they leave. *)

CreateResult(c, k, values) ==
    CASE k \in SystemKeys                  -> "Reserved"
      [] k \in UserKeys /\ ~Valid(values)  -> "InvalidArgument"
      [] OTHER ->
          IF Resolve(c, k) = "CorruptState" THEN "CorruptState"
          ELSE IF Resolve(c, k) = "ok" THEN "AlreadyExists"
          ELSE IF c.next < FirstUserId THEN "CorruptState"
          ELSE IF c.next = MaxId THEN "RecordIdExhausted"
          ELSE IF Occupied(c, c.next) THEN "CorruptState" ELSE "ok"

CreateLowestFree(c, k, values) ==                           \* faulty variant
    LET id == CHOOSE i \in FirstUserId..MaxId :
                  ~Occupied(c, i) /\ \A j \in FirstUserId..(i - 1) : Occupied(c, j)
    IN [binding  |-> [c.binding EXCEPT ![k] = id],
        identity |-> [c.identity EXCEPT ![id] = k],
        user     |-> [c.user EXCEPT ![id] = values],
        next     |-> IF id >= c.next THEN id + 1 ELSE c.next]

CreateKeepsAllocator(c, k, values) ==                       \* faulty variant
    [binding  |-> [c.binding EXCEPT ![k] = c.next],
     identity |-> [c.identity EXCEPT ![c.next] = k],
     user     |-> [c.user EXCEPT ![c.next] = values],
     next     |-> c.next]

CreateCells(c, k, values) ==
    [binding  |-> [c.binding EXCEPT ![k] = c.next],
     identity |-> [c.identity EXCEPT ![c.next] = k],
     user     |-> [c.user EXCEPT ![c.next] = values],
     next     |-> c.next + 1]

(* set and removed are disjoint: a RecordPatch has one edit per name. *)
PatchResult(c, k, set, removed) ==
    CASE k \in SystemKeys -> "Reserved"
      [] OTHER ->
          IF Resolve(c, k) # "ok" THEN Resolve(c, k)
          ELSE IF ~Valid(set) \/ removed \cap BadNames # {}
          THEN "InvalidArgument" ELSE "ok"

PatchCells(c, k, set, removed) ==
    [c EXCEPT !.user[c.binding[k]] =
        [n \in Names |-> IF set[n] # Missing THEN set[n]
                         ELSE IF n \in removed THEN Missing ELSE @[n]]]

DeleteResult(c, k) ==
    IF k \in SystemKeys THEN "Reserved" ELSE Resolve(c, k)

DeleteBindingOnly(c, k) ==                                  \* faulty variant
    [c EXCEPT !.binding[k] = Missing,
              !.identity[c.binding[k]] = Missing]

DeleteCells(c, k) ==
    [c EXCEPT !.binding[k] = Missing,
              !.identity[c.binding[k]] = Missing,
              !.user[c.binding[k]] = NoCells]

-----------------------------------------------------------------------------
(* Branches. *)

LiveThoughStale(b) == branches[b] # None                    \* faulty variant

Live(b) == branches[b] # None /\ branches[b].origin = head.commit

(* Any call on a stale branch fails and evicts it. *)
Evict(b) ==
    /\ branches[b] # None /\ ~Live(b)
    /\ branches' = [branches EXCEPT ![b] = None]
    /\ UNCHANGED head

Begin(b) ==
    /\ branches[b] = None
    /\ branches' = [branches EXCEPT ![b] =
          [origin |-> head.commit, cells |-> head.cells,
           stack |-> <<head.cells>>, consumed |-> FALSE]]
    /\ UNCHANGED head

(* One atomic write group that succeeds.  A group that returns an error is
   rewound and leaves the branch as it was; a group that stages nothing does
   not reactivate a rolled-back frame. *)
WriteGroup(b, c, wrote) ==
    /\ branches' = [branches EXCEPT ![b].cells = c, ![b].consumed = @ /\ ~wrote]
    /\ UNCHANGED head

Create(b, k, values) ==
    LET c == branches[b].cells IN
    /\ Live(b)
    /\ CreateResult(c, k, values) = "ok"
    /\ WriteGroup(b, CreateCells(c, k, values), TRUE)

Patch(b, k, set, removed) ==
    LET c == branches[b].cells
        p == PatchCells(c, k, set, removed)
    IN /\ Live(b)
       /\ PatchResult(c, k, set, removed) = "ok"
       /\ WriteGroup(b, p, p # c)

Delete(b, k) ==
    LET c == branches[b].cells IN
    /\ Live(b)
    /\ DeleteResult(c, k) = "ok"
    /\ WriteGroup(b, DeleteCells(c, k), TRUE)

(* The frames of all branches, the one each branch starts with included. *)
OpenFrames ==
    UNION {{b} \X DOMAIN branches[b].stack : b \in {x \in Handles : branches[x] # None}}

Checkpoint(b) ==
    /\ Live(b)
    /\ Cardinality(OpenFrames) + head.commit < MaxFrames
    /\ branches' = [branches EXCEPT
          ![b].stack = IF branches[b].consumed THEN @ ELSE Append(@, branches[b].cells),
          ![b].consumed = FALSE]
    /\ UNCHANGED head

RollbackToWrongFrame(b) ==                                  \* faulty variant
    /\ Live(b)
    /\ branches[b].consumed => Len(branches[b].stack) > 1
    /\ LET frames == branches[b].stack
           kept == IF branches[b].consumed THEN SubSeq(frames, 1, Len(frames) - 1)
                   ELSE frames
       IN branches' = [branches EXCEPT ![b].stack = kept,
                                       ![b].cells = frames[Len(frames)],
                                       ![b].consumed = TRUE]
    /\ UNCHANGED head

Rollback(b) ==
    /\ Live(b)
    /\ branches[b].consumed => Len(branches[b].stack) > 1
    /\ LET kept == IF branches[b].consumed
                   THEN SubSeq(branches[b].stack, 1, Len(branches[b].stack) - 1)
                   ELSE branches[b].stack
       IN branches' = [branches EXCEPT ![b].stack = kept,
                                       ![b].cells = kept[Len(kept)],
                                       ![b].consumed = TRUE]
    /\ UNCHANGED head

(* Seal and publish: the branch's cells become the head's. *)
Commit(b) ==
    /\ Live(b)
    /\ head.commit < MaxCommit
    /\ head' = [commit |-> head.commit + 1, cells |-> branches[b].cells]
    /\ branches' = [branches EXCEPT ![b] = None]

Discard(b) ==
    /\ Live(b)
    /\ branches' = [branches EXCEPT ![b] = None]
    /\ UNCHANGED head

Next ==
    \E b \in Handles :
        \/ Begin(b) \/ Evict(b) \/ Checkpoint(b) \/ Rollback(b) \/ Commit(b) \/ Discard(b)
        \/ \E k \in Keys :
              \/ Delete(b, k)
              \/ \E values \in RecordCells :
                    \/ Create(b, k, values)
                    \/ \E removed \in SUBSET {n \in Names : values[n] = Missing} :
                          Patch(b, k, values, removed)

Spec == Init /\ [][Next]_vars

-----------------------------------------------------------------------------
(* Properties. *)

(* The cells agree with each other: bindings and #key cells are inverse, every
   ID from the allocator on is free, no cell survives its record, and the
   reserved records stand. *)
Consistent(c) ==
    /\ c.next >= FirstUserId
    /\ \A k \in Keys : c.binding[k] # Missing => c.identity[c.binding[k]] = k
    /\ \A i \in Ids : c.identity[i] # Missing => c.binding[c.identity[i]] = i
    /\ \A i \in Ids : c.identity[i] = Missing => c.user[i] = NoCells
    /\ \A i \in Ids : i >= c.next => c.identity[i] = Missing
    /\ \A k \in SystemKeys : c.binding[k] = SystemId[k]
    /\ \A k \in UserKeys : c.binding[k] # Missing => c.binding[k] >= FirstUserId

(* The states calls read: the head's cells and those of the live branches. *)
Views == {head.cells} \cup {branches[b].cells : b \in {x \in Handles : Live(x)}}

(* No call ever meets inconsistent record state: each CorruptState return of
   state.rs and crud.rs is unreachable in an initialised database, through
   any creates, deletes, rollbacks to any frame, commits and racing branches. *)
NeverCorrupt ==
    \A c \in Views, k \in Keys :
        /\ Resolve(c, k) # "CorruptState"
        /\ CreateResult(c, k, NoCells) # "CorruptState"

(* The head, every branch and every state a rollback can return to are
   consistent, and the allocator stops at its limit instead of leaving it. *)
AllConsistent ==
    /\ TypeOK
    /\ Consistent(head.cells)
    /\ \A b \in Handles : branches[b] # None =>
          /\ Consistent(branches[b].cells)
          /\ \A i \in DOMAIN branches[b].stack : Consistent(branches[b].stack[i])

(* A committed record ID is never given to another key, by any later commit,
   and the committed allocator never goes back: an ID is reused only for a
   record that no commit ever saw (crud.rs: "recreation receives a fresh ID"). *)
IdsNeverReused ==
    [][/\ head'.cells.next >= head.cells.next
       /\ \A i \in Ids : i < head.cells.next =>
             head'.cells.identity[i] \in {head.cells.identity[i], Missing}]_vars

(* The documents stored in cells c. *)
DocsOf(c) == [k \in UserKeys |-> Read(c, k)]

(* A branch, as its user sees it. *)
View(r) ==
    IF r = None THEN None
    ELSE [origin |-> r.origin, docs |-> DocsOf(r.cells),
          stack |-> [i \in DOMAIN r.stack |-> DocsOf(r.stack[i])], consumed |-> r.consumed]

Published == [commit |-> head.commit, docs |-> DocsOf(head.cells)]

Open == [b \in Handles |-> View(branches[b])]

(* Users of the record layer see plain documents: a record created again under
   a deleted key starts empty, no two records share a cell, and rollback and
   commit move all of a document. *)
D == INSTANCE Documents WITH Keys <- UserKeys, published <- Published, open <- Open

ImplementsDocuments == D!Spec
=============================================================================
