------------------------------- MODULE Cursors ------------------------------
(***************************************************************************)
(* The cursors of the two backends (crates/storage/src/memory.rs and       *)
(* crates/storage-mdbx/src/lib.rs) and of the buffer that merges staged    *)
(* writes with a cursor of either (crates/branch/src/buffer.rs).  A buffer *)
(* is filled, then a cursor on it or on its origin is moved and compared   *)
(* with module RowCursor.                                                  *)
(***************************************************************************)
EXTENDS Integers, FiniteSetsExt

CONSTANTS
    Keys,        \* keys, as numbers in byte order
    MaxWrites,   \* bound on the writes staged in the buffer
    None

VARIABLES
    origin,      \* keys with a row in the snapshot; NoTable if never written
    writes,      \* staged rows: "put" or "deleted", on the keys written
    view,        \* the keys a reader of the buffer should see (history variable)
    writing,     \* number of writes so far
    backend,     \* of the cursor; None until it is opened
    cursor,      \* the backend's cursor, on its own or inside a BufferedCursor
    position,    \* of the BufferedCursor, None if the cursor is the backend's own
    step,        \* the step under way in a BufferedCursor: its direction and staged row
    call, row    \* the last call that returned, and its result

vars == <<origin, writes, view, writing, backend, cursor, position, step, call, row>>

NoTable == {None}

RowsOf(table) == table \ NoTable

Least(S) == IF S = {} THEN None ELSE Min(S)
Greatest(S) == IF S = {} THEN None ELSE Max(S)

Start(key) == [kind |-> "Start", key |-> key]
At(key) == [kind |-> "At", key |-> key]
Before == [kind |-> "Before", key |-> None]
After == [kind |-> "After", key |-> None]

Landed(found, forward) ==
    IF found # None THEN At(found) ELSE IF forward THEN After ELSE Before

-----------------------------------------------------------------------------
(* MemoryCursor::next and prev.  A cursor on a table that was never written
   keeps its position. *)
MemoryStep(table, c, forward) ==
    LET p     == c.position
        found == CASE p.kind = "Before" -> IF forward THEN Least(table) ELSE None
                   [] p.kind = "After"  -> IF forward THEN None ELSE Greatest(table)
                   [] p.kind = "Start"  -> IF forward THEN Least({k \in table : k >= p.key})
                                           ELSE Greatest({k \in table : k <= p.key})
                   [] p.kind = "At"     -> IF forward THEN Least({k \in table : k > p.key})
                                           ELSE Greatest({k \in table : k < p.key})
    IN IF table = NoTable THEN [cursor |-> c, row |-> None]
       ELSE [cursor |-> [position |-> Landed(found, forward)], row |-> found]

(* The native MDBX cursor: each operation gives the key found and moves there;
   native.at is where it stands, None when it stands nowhere. *)
SetRange(table, key) == Least({k \in table : k >= key})
NativeNext(table, at) == Least({k \in table : k > at})
NativePrev(table, at) == Greatest({k \in table : k < at})

(* MdbxCursor::advance.  At keeps no key: the native cursor stands on the row. *)
MdbxStartBackward(table, key) ==
    LET at == SetRange(table, key) IN
    CASE at = key  -> at
      [] at = None -> Greatest(table)
      [] OTHER     -> NativePrev(table, at)

MdbxStep(table, c, forward) ==
    LET p     == c.position
        found == CASE p.kind = "Before" -> IF forward THEN Least(table) ELSE None
                   [] p.kind = "After"  -> IF forward THEN None ELSE Greatest(table)
                   [] p.kind = "Start"  -> IF forward THEN SetRange(table, p.key)
                                           ELSE MdbxStartBackward(table, p.key)
                   [] p.kind = "At"     -> IF forward THEN NativeNext(table, c.at)
                                           ELSE NativePrev(table, c.at)
    IN IF table = NoTable THEN [cursor |-> c, row |-> None]
       ELSE [cursor |-> [position |-> [Landed(found, forward) EXCEPT !.key = None],
                         at |-> IF found = None THEN c.at ELSE found],
             row |-> found]

MemoryCursor(key) == [position |-> Start(key)]
MdbxCursor(key) == [position |-> Start(key), at |-> None]

(* A cursor of the backend the buffer lies over. *)
OriginCursor(b, key) == IF b = "memory" THEN MemoryCursor(key) ELSE MdbxCursor(key)
OriginStep(b, table, c, forward) ==
    IF b = "memory" THEN MemoryStep(table, c, forward) ELSE MdbxStep(table, c, forward)

-----------------------------------------------------------------------------
(* Buffered: reads and writes over the origin. *)

GetRow(key) == IF key \in DOMAIN writes THEN writes[key] = "put" ELSE key \in RowsOf(origin)

Write(key, what) ==
    writes' = [k \in DOMAIN writes \cup {key} |-> IF k = key THEN what ELSE writes[k]]

Writing ==
    /\ backend = None /\ writing < MaxWrites
    /\ writing' = writing + 1
    /\ UNCHANGED <<origin, backend, cursor, position, step, call, row>>

Put(key) ==
    /\ Writing
    /\ Write(key, "put")
    /\ view' = view \cup {key}

(* insert: AlreadyExists leaves the row. *)
Insert(key) ==
    /\ Writing
    /\ IF GetRow(key) THEN UNCHANGED writes ELSE Write(key, "put")
    /\ view' = view \cup {key}

(* delete: a tombstone only for a row that was there. *)
Delete(key) ==
    /\ Writing
    /\ IF GetRow(key) THEN Write(key, "deleted") ELSE UNCHANGED writes
    /\ view' = view \ {key}

-----------------------------------------------------------------------------
(* Cursors on the origin, and BufferedCursor. *)

Open(key, b) ==
    /\ backend = None
    /\ backend' = b
    /\ cursor' = OriginCursor(b, key)
    /\ UNCHANGED <<origin, writes, view, writing, step, call, row>>

(* What the buffer holds does not concern a cursor of the origin's own. *)
OpenOrigin(key, b) == Open(key, b) /\ writing = 0 /\ UNCHANGED position
OpenBuffered(key, b) == Open(key, b) /\ position' = Start(key)

Returns(forward, found) ==
    /\ call' = IF forward THEN "next" ELSE "prev"
    /\ row' = found

(* next (forward) or prev of a backend's own cursor. *)
StepOrigin(forward) ==
    LET s == OriginStep(backend, origin, cursor, forward) IN
    /\ backend # None /\ position = None
    /\ cursor' = s.cursor
    /\ Returns(forward, s.row)
    /\ UNCHANGED <<origin, writes, view, writing, backend, position, step>>

(* The nearest staged row beyond the position, tombstones skipped. *)
StagedPastStart(forward) ==                                 \* faulty variant
    LET put == {k \in DOMAIN writes : writes[k] = "put"} IN
    CASE position.kind \in {"Start", "At"} -> IF forward THEN Least({k \in put : k > position.key})
                                              ELSE Greatest({k \in put : k < position.key})
      [] OTHER                             -> IF forward THEN Least(put) ELSE Greatest(put)

Staged(forward) ==
    LET put == {k \in DOMAIN writes : writes[k] = "put"} IN
    CASE position.kind = "Start" -> IF forward THEN Least({k \in put : k >= position.key})
                                    ELSE Greatest({k \in put : k <= position.key})
      [] position.kind = "At"    -> IF forward THEN Least({k \in put : k > position.key})
                                    ELSE Greatest({k \in put : k < position.key})
      [] OTHER                   -> IF forward THEN Least(put) ELSE Greatest(put)

(* BufferedCursor::step up to its loop. *)
BeginStep(forward) ==
    /\ position # None /\ step = None
    /\ IF position = Landed(None, forward)
       THEN Returns(forward, None) /\ UNCHANGED <<cursor, step>>
       ELSE /\ cursor' = IF position.kind \in {"Start", "At"} THEN OriginCursor(backend, position.key)
                         ELSE cursor
            /\ step' = [forward |-> forward, staged |-> Staged(forward)]
            /\ UNCHANGED <<call, row>>
    /\ UNCHANGED <<origin, writes, view, writing, backend, position>>

(* An iteration of its loop, which skips a row of the origin that was returned
   last or that the buffer replaces, and what follows the last one. *)
LoopStep ==
    LET s == OriginStep(backend, origin, cursor, step.forward)
        nearer == IF s.row = None THEN step.staged
                  ELSE IF step.staged = None THEN s.row
                  ELSE IF (s.row < step.staged) = step.forward THEN s.row ELSE step.staged
    IN /\ step # None
       /\ cursor' = s.cursor
       /\ IF s.row # None /\ (position = At(s.row) \/ s.row \in DOMAIN writes)
          THEN UNCHANGED <<position, step, call, row>>
          ELSE /\ position' = Landed(nearer, step.forward)
               /\ step' = None
               /\ Returns(step.forward, nearer)
       /\ UNCHANGED <<origin, writes, view, writing, backend>>

Init ==
    /\ origin \in {NoTable} \cup SUBSET Keys
    /\ writes = <<>>
    /\ view = RowsOf(origin)
    /\ writing = 0
    /\ backend = None /\ cursor = None /\ position = None /\ step = None
    /\ call = None /\ row = None

Next ==
    \/ \E key \in Keys : Put(key) \/ Insert(key) \/ Delete(key)
    \/ \E key \in Keys, b \in {"memory", "mdbx"} : OpenOrigin(key, b) \/ OpenBuffered(key, b)
    \/ \E forward \in BOOLEAN : StepOrigin(forward) \/ BeginStep(forward)
    \/ LoopStep

Spec == Init /\ [][Next]_vars

-----------------------------------------------------------------------------
(* Properties. *)

(* get on the buffer shows the origin with the staged writes carried out. *)
BufferShowsWrites == \A k \in Keys : GetRow(k) <=> k \in view

OnOrigin == INSTANCE RowCursor WITH
    rows <- origin, returned <- row,
    position <- IF backend = "mdbx" /\ cursor.position.kind = "At" THEN At(cursor.at)
                ELSE cursor.position
OnBuffer == INSTANCE RowCursor WITH rows <- view, returned <- row

(* The cursors of both backends do what the trait promises, for every sequence
   of next and prev from every start; on a missing table they return nothing. *)
BackendsBehave ==
    [][backend # None /\ position = None =>
           IF origin = NoTable THEN row' = None ELSE OnOrigin!Next]_vars

(* So does the merged cursor over the rows the buffer shows, on either backend:
   staged rows and tombstones, boundaries and reversals included; and get shows
   the same rows. *)
BufferBehaves ==
    [][position # None => BufferShowsWrites /\ OnBuffer!Next]_<<position, call, row>>
=============================================================================
