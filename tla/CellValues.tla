----------------------------- MODULE CellValues -----------------------------
(***************************************************************************)
(* Cell values, names and keys (crates/cells/src/value.rs, name.rs, key.rs *)
(* and config.rs): typed constructors, the stored form (tag and payload),  *)
(* typed accessors, and what the limits of a deployment admit.  A native   *)
(* value is a sequence: the bytes of a byte string, or one number.  A      *)
(* float is the number its IEEE bits make.                                 *)
(***************************************************************************)
EXTENDS CellTypes

CONSTANTS
    IdLength,       \* bytes of a record ID
    Letters,        \* name bytes: letters,
    OtherRest,      \* the others a name may have after its first letter
    Dollar          \* and "$"

INDEXABLE_BIT == 128

Fail == <<>>        \* no encoded cell is empty

-----------------------------------------------------------------------------
(* CellValueRef: type, payload and kind *)

IsIndexable(bytes) == bytes[1] >= INDEXABLE_BIT
TypeOf(bytes) == FromId(bytes[1] % INDEXABLE_BIT)
Payload(bytes) == Tail(bytes)

Encode(ty, value, indexable) ==
    <<Id(ty) + IF indexable THEN INDEXABLE_BIT ELSE 0>> \o value

(* CellValueRef::new and parse: does a stored cell decode? *)
Parses(bytes) ==
    /\ bytes # <<>>
    /\ TypeOf(bytes) # BadType
    /\ ~(IsIndexable(bytes) /\ TypeOf(bytes).family = "Bytes")
    /\ Validate(TypeOf(bytes), Payload(bytes))

WithKind(bytes, attribute) ==
    IF attribute /\ TypeOf(bytes).family = "Bytes" THEN Fail
    ELSE Encode(TypeOf(bytes), Payload(bytes), attribute)

-----------------------------------------------------------------------------
(* Typed constructors. *)

FieldFromTyped(ty, value) == Encode(ty, value, FALSE)

FromPlain(ty, native) == FieldFromTyped(ty, native)              \* bool, str, bytes
FromFixedBytes(ty, native) == FieldFromTyped(ty, native)
FromUint(ty, native) == FieldFromTyped(ty, ToBytes(native[1], Width(ty)))

FromInt(ty, native) == FieldFromTyped(ty, FlipSign(ToBytes(native[1], Width(ty))))
FromDecimal(ty, native) == FieldFromTyped(ty, FlipSign(ToBytes(native[1], Width(ty))))
FromTime(ty, native) == FieldFromTyped(ty, FlipSign(ToBytes(native[1], Width(ty))))

FromFloat(ty, native) ==
    LET be == ToBytes(native[1], Width(ty)) IN
    IF IsNaN(be, ty.w) THEN Fail ELSE FieldFromTyped(ty, EncodeFloat(be))

Construct(ty, native) ==
    CASE ty.family \in {"Bool", "Str", "Bytes"}      -> FromPlain(ty, native)
      [] ty.family \in {"Bytes20", "FixedBytes"}     -> FromFixedBytes(ty, native)
      [] ty.family = "Uint"                          -> FromUint(ty, native)
      [] ty.family = "Int"                           -> FromInt(ty, native)
      [] ty.family = "Decimal"                       -> FromDecimal(ty, native)
      [] ty.family = "Float"                         -> FromFloat(ty, native)
      [] ty.family \in {"Date32", "Timestamp64"}     -> FromTime(ty, native)

(* Typed accessors: what the accessor of type want returns for a stored cell. *)
NotThatType == <<"None">>

AsBytes(value) == value                          \* bool, str, bytes and bytesN
AsUint(value) == <<FromBytes(value)>>
AsInt(value) == <<FromSignedBytes(FlipSign(value))>>
AsFloat(value) == <<FromBytes(DecodeFloat(value))>>

Access(bytes, want) ==
    CASE TypeOf(bytes) # want                                         -> NotThatType
      [] want.family = "Uint"                                         -> AsUint(Payload(bytes))
      [] want.family \in {"Int", "Decimal", "Date32", "Timestamp64"}  -> AsInt(Payload(bytes))
      [] want.family = "Float"                                        -> AsFloat(Payload(bytes))
      [] OTHER                                                        -> AsBytes(Payload(bytes))

-----------------------------------------------------------------------------
(* Names, keys and limits. *)

(* name.rs check: a letter, then name bytes. *)
CheckName(name) ==
    /\ name # <<>> /\ name[1] \in Letters
    /\ \A i \in 2..Len(name) : name[i] \in Letters \cup OtherRest

ParseUser(name, max) ==
    /\ Len(name) <= max
    /\ IF name # <<>> /\ name[1] = Dollar THEN CheckName(Tail(name)) ELSE CheckName(name)

(* CellLimits::validate_value; limits is [name, str, bytes]. *)
Admits(limits, bytes) ==
    CASE TypeOf(bytes).family = "Str"   -> Len(Payload(bytes)) <= limits.str
      [] TypeOf(bytes).family = "Bytes" -> Len(Payload(bytes)) <= limits.bytes
      [] OTHER                          -> TRUE

EncodeKey(id, name) == ToBytes(id, IdLength) \o name

DecodeKey(key) ==
    [id |-> FromBytes(SubSeq(key, 1, IdLength)), name |-> SubSeq(key, IdLength + 1, Len(key))]
=============================================================================
