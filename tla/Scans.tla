-------------------------------- MODULE Scans -------------------------------
(***************************************************************************)
(* Forward scans.  Range and prefix scans of a table                       *)
(* (crates/storage/src/scan.rs) over a cursor that does what module        *)
(* RowCursor says, and the scan of a branch that merges a prefix scan of   *)
(* the origin with the staged cells (crates/branch/src/scan.rs).           *)
(***************************************************************************)
EXTENDS Integers, Sequences, FiniteSetsExt

CONSTANTS
    MaxByte,        \* the last byte value (0xff)
    IdLength,       \* bytes of a record ID, the least length of a cell key
    EncodedKeys,    \* encoded keys that occur: byte sequences
    PrefixSet,      \* prefixes scanned for
    NoKey           \* no row, or a side without a bound

Bytes == 0..MaxByte

(* A table has finitely many rows, and a cell key begins with a record ID. *)
ASSUME ScansAssumption ==
    /\ MaxByte \in Nat /\ IdLength \in Nat
    /\ EncodedKeys \subseteq Seq(Bytes) /\ IsFiniteSet(EncodedKeys)
    /\ \A k \in EncodedKeys : Len(k) >= IdLength
    /\ PrefixSet \subseteq Seq(Bytes)
    /\ NoKey \notin Seq(Bytes) /\ NoKey \notin [key : EncodedKeys, included : BOOLEAN]

VARIABLES
    rows,        \* keys in the table
    entries,     \* staged cells: TRUE for a value, FALSE for a tombstone
    query,       \* what the scan is asked for
    scan,        \* the scan of the table; rest has the rows ahead of its cursor
    overlay,     \* staged keys still ahead, when the scan is a branch's
    out,         \* keys yielded
    done         \* "no", or how the scan ended: with "None" or with an "Error"

scanVars == <<rows, entries, query, scan, overlay, out, done>>

Less(a, b) ==
    \E n \in 0..Len(a) :
        /\ n < Len(b) /\ \A i \in 1..n : a[i] = b[i]
        /\ n < Len(a) => a[n + 1] < b[n + 1]

AtLeast(a, b) == ~Less(a, b)

HasPrefix(key, prefix) ==
    Len(prefix) <= Len(key) /\ \A i \in DOMAIN prefix : key[i] = prefix[i]

(* The row a cursor meets first of those ahead of it. *)
Least(keys) == CHOOSE k \in keys : \A j \in keys : AtLeast(j, k)

(* Bounds of a range: NoKey is Unbounded. *)
Bounds == {NoKey} \cup [key : EncodedKeys, included : BOOLEAN]

Below(key, bound) ==
    bound = NoKey \/ Less(key, bound.key) \/ (bound.included /\ key = bound.key)
Above(key, bound) ==
    bound = NoKey \/ Less(bound.key, key) \/ (bound.included /\ key = bound.key)

-----------------------------------------------------------------------------
(* storage/src/scan.rs *)

Reversed(lower, upper) == lower # NoKey /\ upper # NoKey /\ Less(upper.key, lower.key)

OpenRange(table, lower, upper) ==
    [rest     |-> {k \in table : lower = NoKey \/ AtLeast(k, lower.key)},
     excluded |-> IF lower # NoKey /\ ~lower.included THEN lower.key ELSE NoKey,
     upper    |-> upper,
     prefix   |-> <<>>,
     done     |-> /\ lower # NoKey /\ upper # NoKey /\ lower.key = upper.key
                  /\ ~(lower.included /\ upper.included)]

OpenPrefix(table, prefix) ==
    [rest |-> {k \in table : AtLeast(k, prefix)}, excluded |-> NoKey, upper |-> NoKey,
     prefix |-> prefix, done |-> FALSE]

(* Scan::advance skips the excluded start if the first row is that one. *)
Advance(s) ==
    IF s.excluded # NoKey /\ s.rest # {} /\ Least(s.rest) = s.excluded
    THEN s.rest \ {s.excluded} ELSE s.rest

ScanNext(s) ==
    LET rest == Advance(s)
        ends == \/ s.done \/ rest = {}
                \/ ~Below(Least(rest), s.upper) \/ ~HasPrefix(Least(rest), s.prefix)
    IN IF ends THEN [scan |-> [s EXCEPT !.done = TRUE], row |-> NoKey]
       ELSE [scan |-> [s EXCEPT !.rest = rest \ {Least(rest)}, !.excluded = NoKey],
             row |-> Least(rest)]

-----------------------------------------------------------------------------
(* branch/src/scan.rs *)

(* The least cell key at or above a byte string: keys have IdLength bytes. *)
LowerKey(bytes) ==
    bytes \o [i \in 1..(IF Len(bytes) < IdLength THEN IdLength - Len(bytes) ELSE 0) |-> 0]

(* The end of the keys with a prefix: its last byte that is not the greatest
   is incremented and the rest cut off.  Without one there is no end. *)
SuccessorOfLast(prefix) ==                                  \* faulty variant
    IF prefix = <<>> \/ prefix[Len(prefix)] = MaxByte THEN NoKey
    ELSE LowerKey([prefix EXCEPT ![Len(prefix)] = @ + 1])

Successor(prefix) ==
    LET smaller == {i \in DOMAIN prefix : prefix[i] # MaxByte} IN
    IF smaller = {} THEN NoKey
    ELSE LET i == Max(smaller) IN LowerKey(Append(SubSeq(prefix, 1, i - 1), prefix[i] + 1))

OverlayRange(prefix) ==
    LET end == Successor(prefix) IN
    {k \in DOMAIN entries : AtLeast(k, LowerKey(prefix)) /\ (end = NoKey \/ Less(k, end))}

-----------------------------------------------------------------------------
Staged == UNION {[ks -> BOOLEAN] : ks \in SUBSET EncodedKeys}

InitRange ==
    /\ query \in {q \in [kind : {"range"}, lower : Bounds, upper : Bounds] :
                     ~Reversed(q.lower, q.upper)}
    /\ entries = <<>> /\ overlay = {}
    /\ scan = OpenRange(rows, query.lower, query.upper)

InitMerged ==
    /\ query \in [kind : {"prefix"}, prefix : PrefixSet]
    /\ entries \in Staged
    /\ overlay = OverlayRange(query.prefix)
    /\ scan = OpenPrefix(rows, query.prefix)

ScanInit ==
    /\ rows \in SUBSET EncodedKeys
    /\ InitRange \/ InitMerged
    /\ out = <<>> /\ done = "no"

Yield(row) ==
    /\ out' = IF row = NoKey THEN out ELSE Append(out, row)
    /\ done' = IF row = NoKey THEN "None" ELSE done
    /\ UNCHANGED <<rows, entries, query>>

NextRow ==
    /\ query.kind = "range" /\ done # "Error"
    /\ scan' = ScanNext(scan).scan
    /\ Yield(ScanNext(scan).row)
    /\ UNCHANGED overlay

(* An iteration of CellScan::advance: the nearer of both; a staged cell replaces
   the row with the same key, and a tombstone yields nothing and goes on. *)
NextCell ==
    LET under == ScanNext(scan)
        near  == Least(overlay)
        first == overlay # {} /\ (under.row = NoKey \/ AtLeast(under.row, near))
        same  == first /\ under.row = near
    IN /\ query.kind = "prefix" /\ done = "no"
       /\ scan' = IF first /\ ~same THEN scan ELSE under.scan
       /\ overlay' = IF first THEN overlay \ {near} ELSE overlay
       /\ IF first /\ ~entries[near] THEN UNCHANGED <<rows, entries, query, out, done>>
          ELSE Yield(IF first THEN near ELSE under.row)

(* The cursor fails to read: the error is yielded once and ends the scan. *)
NextFails ==
    /\ done = "no" /\ ~scan.done
    /\ done' = "Error"
    /\ UNCHANGED <<rows, entries, query, scan, overlay, out>>

(* An exhausted scan stays exhausted. *)
NextFused == (query.kind = "prefix" \/ done = "Error") /\ done # "no" /\ UNCHANGED scanVars

ScanStep == NextRow \/ NextCell \/ NextFails \/ NextFused

ScanSpec == ScanInit /\ [][ScanStep]_scanVars

-----------------------------------------------------------------------------
(* Properties. *)

(* What was yielded is the beginning of what is wanted, each key once and in
   ascending order, and all of it once the scan has ended with None. *)
YieldsExactly(wanted) ==
    LET yielded == {out[i] : i \in DOMAIN out} IN
    /\ \A i, j \in DOMAIN out : i < j => Less(out[i], out[j])
    /\ yielded \subseteq wanted
    /\ \A k \in wanted \ yielded : \A i \in DOMAIN out : Less(out[i], k)
    /\ done = "None" => yielded = wanted

InRange == {k \in rows : Above(k, query.lower) /\ Below(k, query.upper)}

(* Values staged, and rows of the origin not replaced; nothing deleted. *)
Shown == {k \in rows \cup DOMAIN entries : k \in DOMAIN entries => entries[k]}

(* A range scan yields the rows between its bounds, and the scan of a branch the
   cells it shows under the prefix, each once, in order and with none left out:
   also for prefixes that end with the greatest byte or are shorter than a
   record ID. *)
ScansAreExact ==
    /\ query.kind = "range" => YieldsExactly(InRange)
    /\ query.kind = "prefix" => YieldsExactly({k \in Shown : HasPrefix(k, query.prefix)})
=============================================================================
