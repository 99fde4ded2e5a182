------------------------------ MODULE CellTypes -----------------------------
(***************************************************************************)
(* Cell types, their tags and the payloads they accept                     *)
(* (crates/cells/src/types.rs), and the payloads whose byte order is the   *)
(* order of the values (crates/cells/src/order.rs).  A payload is a        *)
(* sequence of bytes.  Bytes have ByteBits bits and the least width is     *)
(* Unit bytes, instead of 8 and 4: every bit pattern of every family is    *)
(* then within reach.                                                      *)
(***************************************************************************)
EXTENDS Integers, Sequences

CONSTANTS
    ByteBits,       \* bits of a payload byte
    Unit,           \* bytes of the narrowest fixed width
    ExponentBits    \* exponent bits of f32 and f64, by width 0 and 1

Base == 2 ^ ByteBits
SignBit == Base \div 2

RECURSIVE Lex(_, _)
Lex(a, b) ==
    /\ b # <<>>
    /\ \/ a = <<>>
       \/ Head(a) < Head(b)
       \/ Head(a) = Head(b) /\ Lex(Tail(a), Tail(b))

-----------------------------------------------------------------------------
(* CellType: a family and the w of its width 4 * 2^w, 0 where it has none. *)

T(family, w) == [family |-> family, w |-> w]

Id(ty) ==
    ty.w + [Bool |-> 1, Str |-> 2, Bytes |-> 3, Bytes20 |-> 4, FixedBytes |-> 8, Uint |-> 12,
            Int |-> 16, Decimal |-> 20, Float |-> 24, Date32 |-> 28, Timestamp64 |-> 29][ty.family]

BadType == T("error", 0)

FromId(id) ==
    CASE id = 1 -> T("Bool", 0)
      [] id = 2 -> T("Str", 0)
      [] id = 3 -> T("Bytes", 0)
      [] id = 4 -> T("Bytes20", 0)
      [] id \in 8..11 -> T("FixedBytes", id - 8)
      [] id \in 12..15 -> T("Uint", id - 12)
      [] id \in 16..19 -> T("Int", id - 16)
      [] id \in 20..23 -> T("Decimal", id - 20)
      [] id \in 24..25 -> T("Float", id - 24)
      [] id = 28 -> T("Date32", 0)
      [] id = 29 -> T("Timestamp64", 0)
      [] OTHER -> BadType             \* AbsentTag or ReservedType

Variable == {"Str", "Bytes"}

Width(ty) ==
    CASE ty.family = "Bool" -> 1
      [] ty.family = "Bytes20" -> 5 * Unit
      [] ty.family = "Timestamp64" -> 2 * Unit
      [] OTHER -> Unit * 2 ^ ty.w

-----------------------------------------------------------------------------
(* Numbers as bytes, most significant first. *)

RECURSIVE ToBytes(_, _)
ToBytes(n, length) ==
    IF length = 0 THEN <<>> ELSE Append(ToBytes(n \div Base, length - 1), n % Base)

RECURSIVE FromBytes(_)
FromBytes(bytes) ==
    IF bytes = <<>> THEN 0
    ELSE Base * FromBytes(SubSeq(bytes, 1, Len(bytes) - 1)) + bytes[Len(bytes)]

(* Two's complement. *)
FromSignedBytes(bytes) ==
    FromBytes(bytes) - IF bytes[1] >= SignBit THEN Base ^ Len(bytes) ELSE 0

-----------------------------------------------------------------------------
(* order.rs *)

Negative(bytes) == bytes[1] >= SignBit

KeepSign(bytes) == bytes                                    \* faulty variant

FlipSign(bytes) == [bytes EXCEPT ![1] = (@ + SignBit) % Base]

Complement(bytes) == [i \in DOMAIN bytes |-> Base - 1 - bytes[i]]

IsZero(bytes) == \A i \in DOMAIN bytes : bytes[i] = 0

EncodeFloat(be) ==
    IF be[1] = SignBit /\ IsZero(Tail(be)) THEN FlipSign(ToBytes(0, Len(be)))
    ELSE IF ~Negative(be) THEN FlipSign(be)
    ELSE Complement(be)

DecodeFloat(stored) == IF Negative(stored) THEN FlipSign(stored) ELSE Complement(stored)

(* IEEE fields of a float of width w. *)
FractionBits(w) == ByteBits * Unit * 2 ^ w - 1 - ExponentBits[w]
Fraction(be, w) == FromBytes(be) % 2 ^ FractionBits(w)
Exponent(be, w) == (FromBytes(be) \div 2 ^ FractionBits(w)) % 2 ^ ExponentBits[w]

IsNaN(be, w) == Exponent(be, w) = 2 ^ ExponentBits[w] - 1 /\ Fraction(be, w) # 0
IsNegativeZero(be) == be[1] = SignBit /\ IsZero(Tail(be))

(* core::str::from_utf8: the greatest byte occurs in no UTF-8 text. *)
IsUtf8(bytes) == \A i \in DOMAIN bytes : bytes[i] # Base - 1

(* CellType::validate *)
ValidateNegativeZero(ty, value) ==                          \* faulty variant
    CASE ty.family = "Bytes" -> TRUE
      [] ty.family = "Str"   -> IsUtf8(value)
      [] ty.family = "Bool"  -> Len(value) = 1 /\ value[1] <= 1
      [] ty.family = "Float" -> Len(value) = Width(ty) /\ ~IsNaN(DecodeFloat(value), ty.w)
      [] OTHER               -> Len(value) = Width(ty)

Validate(ty, value) ==
    CASE ty.family = "Bytes" -> TRUE
      [] ty.family = "Str"   -> IsUtf8(value)
      [] ty.family = "Bool"  -> Len(value) = 1 /\ value[1] <= 1
      [] ty.family = "Float" -> /\ Len(value) = Width(ty)
                                /\ ~IsNaN(DecodeFloat(value), ty.w)
                                /\ ~IsNegativeZero(DecodeFloat(value))
      [] OTHER               -> Len(value) = Width(ty)
=============================================================================
