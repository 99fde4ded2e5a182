------------------------------ MODULE MCQueries -----------------------------
(* Bounded instances of Queries for TLC: one field, two keys, integer and string
   values, and filters of every shape with every way of being malformed. *)
EXTENDS Queries

CellOf(ty, value, attribute) == [ty |-> ty, value |-> value, attribute |-> attribute]
I(n) == CellOf("int", n, TRUE)
S(n) == CellOf("str", n, TRUE)
MCCells == {I(1), I(2), S(1), CellOf("int", 1, FALSE)}

In(field, values) == [kind |-> "In", field |-> field, values |-> values]
InRange(lower, upper) == [kind |-> "Range", field |-> "f", lower |-> lower, upper |-> upper]
Incl(cell) == [cell |-> cell, included |-> TRUE]
Excl(cell) == [cell |-> cell, included |-> FALSE]

MCFilters ==
    {In("f", <<I(1)>>), In("f", <<>>), In("f", <<I(1), I(2)>>), In("f", <<I(1), S(1)>>),
     In("f", <<CellOf("bytes", 1, FALSE)>>), In("#", <<>>), In("#", <<I(1)>>),
     InRange(None, None), InRange(Incl(I(1)), None), InRange(None, Excl(I(2))),
     InRange(Excl(I(1)), Incl(I(2))), InRange(Incl(I(2)), Incl(I(1))), InRange(Incl(I(1)), Excl(I(1))),
     InRange(Incl(I(1)), Incl(S(1))), InRange(Incl(CellOf("bytes", 1, FALSE)), None)}

(* Every filter is queried and counted; two are queried at a commit and without
   cells as well. *)
MCAsks ==
    [kind : {"query", "count"}, filter : MCFilters, unsupported : {FALSE}, commit : {None}, names : {None}]
    \cup [kind : {"query"}, filter : {In("f", <<I(1), I(2)>>), InRange(Incl(I(1)), None)},
          unsupported : {FALSE}, commit : {None, 1}, names : {None, {}}]
    \cup [kind : {"query"}, filter : {In("f", <<I(1)>>)}, unsupported : {TRUE}, commit : {None}, names : {None}]

MCGets == [kind : {"get"}, key : {"k1"}, commit : {None, 1}, names : {None, {}}]

MCRequests == MCAsks \cup MCGets

Record(key, cells) == [key |-> key, cells |-> cells]
F(cell) == [f |-> cell]
MCStarts ==
    {[commit |-> 0, next |-> 3,
      records |-> <<Record("k1", F(I(1))), Record("k2", F(I(2)))>>],
     [commit |-> 0, next |-> 2, records |-> <<Record("k1", F(S(1)))>>]}
=============================================================================
