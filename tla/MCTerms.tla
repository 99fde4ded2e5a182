------------------------------- MODULE MCTerms ------------------------------
(* Bounded instances of Terms for TLC: bytes of three bits, a narrowest width of
   one byte, floats of one and two exponent bits, names in ASCII. *)
EXTENDS Terms, TLC

MCExponentBits == (0 :> 1) @@ (1 :> 2)

(* The row sizes are decided by the widest fixed type and the engine's rows; by the
   limit of strings alone; by those of strings and of bytes. *)
Narrow == [name |-> 2, str |-> 2, bytes |-> 3]
MCCellLimits == {Narrow, [name |-> 2, str |-> 12, bytes |-> 3], [name |-> 2, str |-> 9, bytes |-> 11]}
MCMaxCells == [l \in MCCellLimits |-> IF l = Narrow THEN 2 ELSE 1]

Signed(family, w, bits) ==
    {[ty |-> T(family, w), native |-> <<n>>] : n \in -(2 ^ (bits - 1))..(2 ^ (bits - 1) - 1)}
Unsigned(family, w, values) == {[ty |-> T(family, w), native |-> <<n>>] : n \in values}
ByteStrings(family, w, strings) == {[ty |-> T(family, w), native |-> s] : s \in strings}

Wide(n) == [i \in 1..n |-> 5]

(* Strings and byte strings as long as a limit, and one byte longer. *)
Long == ByteStrings("Str", 0, {[i \in 1..n |-> 1] : n \in {9, 10, 12, 13}})
        \cup ByteStrings("Bytes", 0, {Wide(11), Wide(12)})

(* Every value of the small families, samples of the wide ones. *)
AllNatives ==
    UNION {Long, Signed("Int", 0, 3), Unsigned("Int", 1, {-32, -9, 8, 31}),
           Unsigned("Date32", 0, {-4, -1, 3}), Unsigned("Timestamp64", 0, {-32, -1, 31}),
           Unsigned("Decimal", 2, {-2048, -1, 2047}),
           Unsigned("Float", 0, 0..7), Unsigned("Float", 1, 0..63),
           Unsigned("Uint", 0, {0, 3, 7}), Unsigned("Uint", 3, {7, 4096}),
           ByteStrings("Bool", 0, {<<0>>, <<1>>}),
           ByteStrings("Str", 0, {<<>>, <<0>>, <<0, 1>>, <<1, 1, 1>>}),
           ByteStrings("Bytes", 0, {<<7, 7, 7>>, <<1, 1, 1, 1>>}),
           ByteStrings("Bytes20", 0, {Wide(5)}), ByteStrings("FixedBytes", 3, {Wide(8)})}

(* Names that are prefixes of each other or of a sigil, and names refused. *)
MCNames == {<<97>>, <<97, 45>>, <<97, 97>>, <<36, 97>>, <<36>>, <<45, 97>>, <<35, 97>>,
            <<97, 0>>, <<>>, <<97, 97, 97>>}
FewNatives ==
    UNION {Long, Unsigned("Int", 0, {-1, 2}), Unsigned("Int", 1, {2}), Unsigned("Uint", 0, {7}),
           ByteStrings("Str", 0, {<<>>, <<0, 1>>}), ByteStrings("Bytes", 0, {<<1>>}),
           ByteStrings("FixedBytes", 3, {Wide(8)})}

(* One name takes all values, the others some of each form. *)
MCNatives == [name \in MCNames |-> IF name = <<97>> THEN AllNatives ELSE FewNatives]

MCRawRows ==
    {<<tag>> \o payload : tag \in (0..31) \cup (128..159) \cup {127, 255},
                          payload \in {<<>>} \cup {<<a>> : a \in 0..7} \cup ((0..7) \X (0..7))}
=============================================================================
