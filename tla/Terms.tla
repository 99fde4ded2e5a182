-------------------------------- MODULE Terms -------------------------------
(***************************************************************************)
(* Index terms and ranges of terms (crates/index/src/term.rs and           *)
(* term_range.rs) over cells that clients construct and that storage gives *)
(* back.  Each cell belongs to a record of its own.                        *)
(***************************************************************************)
EXTENDS CellValues, FiniteSets

CONSTANTS
    Names,          \* names a client may use
    Natives,        \* by name, typed values it is given: sets of [ty, native]
    RawRows,        \* byte strings storage may hold
    EngineValue,    \* room for the engine's own rows (16 KiB)
    CellLimits,     \* limits a deployment may set: [name, str, bytes]
    MaxCells        \* by limits, a bound on the cells

VARIABLES
    cells,          \* sequence of [name, bytes, native, loaded]; the position is the record ID
    index,          \* terms of the attributes
    limits          \* the limits of this deployment

vars == <<cells, index, limits>>

MaxByte == 255
NoTerm == <<>>

-----------------------------------------------------------------------------
(* term.rs *)

TermName(name) ==
    IF name # <<>> /\ name[1] = Dollar THEN CheckName(Tail(name)) ELSE CheckName(name)

Supported(ty) == ty.family # "Bytes"

TermPrefixUntyped(name, ty) ==                              \* faulty variant
    IF TermName(name) /\ Supported(ty) THEN name \o <<0>> ELSE NoTerm

TermPrefix(name, ty) ==
    IF TermName(name) /\ Supported(ty) THEN name \o <<0, INDEXABLE_BIT + Id(ty)>> ELSE NoTerm

FromStrName(name, bytes) ==
    LET prefix == TermPrefix(name, TypeOf(bytes)) IN
    IF prefix = NoTerm THEN NoTerm ELSE prefix \o Payload(bytes)

FromCell(name, bytes) == IF IsIndexable(bytes) THEN {FromStrName(name, bytes)} ELSE {}

(* validate_float and the transform of IndexTerm::new, which takes native bytes. *)
NormalizeFloat(be) == IF IsNegativeZero(be) THEN ToBytes(0, Len(be)) ELSE be

OrderedFloat(be) == IF Negative(be) THEN Complement(be) ELSE FlipSign(be)

NewTerm(name, ty, value) ==
    LET prefix  == TermPrefix(name, ty)
        signed  == ty.family \in {"Int", "Decimal", "Date32", "Timestamp64"}
        ordered == CASE signed              -> FlipSign(value)
                     [] ty.family = "Float" -> OrderedFloat(NormalizeFloat(value))
                     [] OTHER               -> value
    IN IF \/ prefix = NoTerm
          \/ ty.family \notin Variable /\ Len(value) # Width(ty)
          \/ ty.family = "Float" /\ IsNaN(value, ty.w)
          \/ ~Validate(ty, ordered)
       THEN NoTerm
       ELSE prefix \o ordered

(* IndexTerm::decode accepts exactly the canonical terms. *)
Decodes(term) ==
    \E split \in DOMAIN term :
        /\ term[split] = 0 /\ \A i \in 1..(split - 1) : term[i] # 0
        /\ TermName(SubSeq(term, 1, split - 1))
        /\ split < Len(term) /\ term[split + 1] >= INDEXABLE_BIT
        /\ LET ty == FromId(term[split + 1] - INDEXABLE_BIT) IN
           ty # BadType /\ Supported(ty) /\ Validate(ty, SubSeq(term, split + 2, Len(term)))

-----------------------------------------------------------------------------
(* term_range.rs.  A bound is [bytes, included], Unbounded or an error. *)

Unbounded == [bytes |-> <<>>, included |-> FALSE]
NoRange == [error |-> "NoBound"]
MixedRange == [error |-> "TypeMismatch"]
BadName == [error |-> "Term"]
EmptyRange == [error |-> "none"]

RECURSIVE Past(_)
Past(prefix) ==
    LET front == SubSeq(prefix, 1, Len(prefix) - 1) IN
    CASE prefix = <<>>                  -> Unbounded
      [] prefix[Len(prefix)] = MaxByte  -> Past(front)
      [] OTHER -> [bytes |-> Append(front, prefix[Len(prefix)] + 1), included |-> FALSE]

Between(name, lower, upper) ==
    LET ty   == TypeOf(IF lower # Unbounded THEN lower.bytes ELSE upper.bytes)
        run  == TermPrefix(name, ty)
        Key(bound) == [bytes |-> FromStrName(name, bound.bytes), included |-> bound.included]
        low  == IF lower = Unbounded THEN [bytes |-> run, included |-> TRUE] ELSE Key(lower)
        high == IF upper = Unbounded THEN Past(run) ELSE Key(upper)
        both == low.included /\ high.included
    IN CASE lower = Unbounded /\ upper = Unbounded -> NoRange
         [] lower # Unbounded /\ upper # Unbounded /\ TypeOf(upper.bytes) # ty -> MixedRange
         [] OTHER ->
            CASE run = NoTerm -> BadName
              [] high # Unbounded /\ Lex(high.bytes, low.bytes) -> EmptyRange
              [] high # Unbounded /\ high.bytes = low.bytes /\ ~both -> EmptyRange
              [] OTHER -> [low |-> low, high |-> high]

(* The terms a scan of the range yields, as module Scans shows of any bounds. *)
Selected(range) ==
    IF "error" \in DOMAIN range THEN {}
    ELSE {t \in index :
             /\ Lex(range.low.bytes, t) \/ (range.low.included /\ t = range.low.bytes)
             /\ \/ range.high = Unbounded
                \/ Lex(t, range.high.bytes)
                \/ range.high.included /\ t = range.high.bytes}

-----------------------------------------------------------------------------
Add(name, bytes, native, loaded) ==
    /\ cells' = Append(cells, [name |-> name, bytes |-> bytes, native |-> native,
                               loaded |-> loaded])
    /\ index' = index \cup FromCell(name, bytes)
    /\ UNCHANGED limits

(* The cells a client can construct: a typed value, then its kind. *)
Constructed ==
    LET Bytes(value, attribute) ==
            LET field == Construct(value.ty, value.native) IN
            IF field = Fail THEN Fail ELSE WithKind(field, attribute)
    IN [name \in Names |->
           {[bytes |-> Bytes(value, attribute), native |-> value.native] :
                value \in Natives[name], attribute \in BOOLEAN}]

(* The client's cell is admitted. *)
PutCell(name, c) ==
    /\ Len(cells) < MaxCells[limits]
    /\ c.bytes # Fail
    /\ ParseUser(name, limits.name)
    /\ Admits(limits, c.bytes)
    /\ Add(name, c.bytes, c.native, FALSE)

(* Storage gives back a row: it parses, or reading it fails. *)
LoadCell(name, bytes) ==
    /\ Parses(bytes) /\ ParseUser(name, limits.name)
    /\ Add(name, bytes, Access(bytes, TypeOf(bytes)), TRUE)

Init == cells = <<>> /\ index = {} /\ limits \in CellLimits

(* Bound: a row loaded from storage is alone. *)
Next ==
    \/ /\ \A i \in DOMAIN cells : ~cells[i].loaded
       /\ \E name \in Names : \E c \in Constructed[name] : PutCell(name, c)
    \/ /\ cells = <<>>
       /\ \E name \in Names, bytes \in RawRows : LoadCell(name, bytes)

Spec == Init /\ [][Next]_vars

-----------------------------------------------------------------------------
(* Properties. *)

Types == {FromId(id) : id \in 0..127} \ {BadType}

(* The number an IEEE bit pattern stands for, scaled to an integer: subnormals,
   normals, and infinity beyond all of them. *)
FloatValue(native, w) ==
    LET be        == ToBytes(native[1], Unit * 2 ^ w)
        magnitude == IF Exponent(be, w) = 0 THEN Fraction(be, w)
                     ELSE (2 ^ FractionBits(w) + Fraction(be, w)) * 2 ^ (Exponent(be, w) - 1)
    IN IF Negative(be) THEN -magnitude ELSE magnitude

ValueLess(ty, a, b) ==
    IF ty.family = "Float" THEN FloatValue(a, ty.w) < FloatValue(b, ty.w) ELSE Lex(a, b)

SameValue(ty, a, b) == ~ValueLess(ty, a, b) /\ ~ValueLess(ty, b, a)

(* A cell read back parses, its own accessor returns the value the client gave
   (zero for negative zero), every other accessor returns None, and its key gives
   back its record and name.  Storage has one form for a value: whatever parses
   is what the constructor makes of what the accessor reads, tag included. *)
ReadBack ==
    \A id \in DOMAIN cells :
        LET c == cells[id]  ty == TypeOf(c.bytes) IN
        /\ Parses(c.bytes)
        /\ SameValue(ty, Access(c.bytes, ty), c.native)
        /\ \A want \in Types \ {ty} : Access(c.bytes, want) = NotThatType
        /\ WithKind(Construct(ty, Access(c.bytes, ty)), IsIndexable(c.bytes)) = c.bytes
        /\ DecodeKey(EncodeKey(id, c.name)) = [id |-> id, name |-> c.name]

(* Bytes order as values do, within a type: integers, decimals, times, floats. *)
ByteOrderIsValueOrder ==
    \A i, j \in DOMAIN cells :
        LET ty == TypeOf(cells[i].bytes) IN
        ty = TypeOf(cells[j].bytes) =>
            (Lex(Payload(cells[i].bytes), Payload(cells[j].bytes))
                <=> ValueLess(ty, cells[i].native, cells[j].native))

(* An admitted attribute always has a term, the same that its native bytes give,
   and the reader of the index decodes it. *)
AttributesHaveTerms ==
    /\ \A term \in index : Decodes(term)
    /\ \A id \in DOMAIN cells :
          LET c      == cells[id]
              ty     == TypeOf(c.bytes)
              native == IF ty.family \in {"Bool", "Str", "Bytes20", "FixedBytes"} THEN c.native
                        ELSE ToBytes(c.native[1], Width(ty))
          IN IsIndexable(c.bytes) => NewTerm(c.name, ty, native) = FromStrName(c.name, c.bytes)

(* Every attribute has a term, and a range finds the attributes of its name and
   type with a value in the range and nothing else: no other type, no longer or
   shorter name. *)
RangesAreExact ==
    /\ AttributesHaveTerms
    /\ LET bounds == {Unbounded} \cup
                     [bytes : {cells[i].bytes : i \in DOMAIN cells}, included : BOOLEAN]
           NativeOf(b) == cells[CHOOSE i \in DOMAIN cells : cells[i].bytes = b.bytes].native
           Meets(c, low, high, ty) ==
               /\ low # Unbounded => \/ ValueLess(ty, NativeOf(low), c.native)
                                     \/ low.included /\ SameValue(ty, NativeOf(low), c.native)
               /\ high # Unbounded => \/ ValueLess(ty, c.native, NativeOf(high))
                                      \/ high.included /\ SameValue(ty, NativeOf(high), c.native)
       IN \A name \in {cells[i].name : i \in DOMAIN cells} : \A low, high \in bounds :
              LET range == Between(name, low, high)
                  ty    == TypeOf(IF low # Unbounded THEN low.bytes ELSE high.bytes)
                  found == {i \in DOMAIN cells :
                               /\ cells[i].name = name /\ IsIndexable(cells[i].bytes)
                               /\ TypeOf(cells[i].bytes) = ty
                               /\ Meets(cells[i], low, high, ty)}
              IN range \in {NoRange, MixedRange, BadName}
                 \/ Selected(range) = {FromStrName(cells[i].name, cells[i].bytes) : i \in found}

(* Genesis::validate: the key and value room that the limits need. *)
Larger(a, b) == IF a > b THEN a ELSE b

KeyNeededUntagged ==                                        \* faulty variant
    Larger(limits.name + IdLength,
           Larger(limits.name + Larger(limits.str, Unit * 8), IdLength + Unit * 8))

KeyNeeded ==
    Larger(limits.name + IdLength,
           Larger(limits.name + 2 + Larger(limits.str, Unit * 8), IdLength + Unit * 8))

ValueNeeded == Larger(1 + Larger(limits.bytes, limits.str), EngineValue)

(* What the limits admit fits in rows of the sizes that opening asked the backend
   for: cell keys, cell values and index keys, whether the limit of strings, that
   of bytes, the widest fixed type or the engine's own rows decide the size. *)
AdmittedRowsFit ==
    /\ \A id \in DOMAIN cells : /\ Len(EncodeKey(id, cells[id].name)) <= KeyNeeded
                                /\ Len(cells[id].bytes) <= ValueNeeded
    /\ \A term \in index : Len(term) <= KeyNeeded
=============================================================================
