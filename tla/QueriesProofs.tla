---------------------------- MODULE QueriesProofs ---------------------------
(***************************************************************************)
(* Proofs about Queries, for any clients, requests, records and commits:   *)
(* an answer is that of one committed state, and exactly the malformed     *)
(* requests are refused.                                                   *)
(***************************************************************************)
EXTENDS Queries, WellFoundedInduction, TLAPS

(* A nonempty set of natural numbers has a least element. *)
LEMMA LeastNatural ==
    ASSUME NEW S \in SUBSET Nat, S # {}
    PROVE  \E x \in S : \A y \in S : x <= y
  <1> DEFINE R == OpToRel(<, Nat)
  <1>1. IsWellFoundedOn(R, Nat)
    BY NatLessThanWellFounded
  <1>2. \A y, x \in Nat : <<y, x>> \in R <=> y < x
    BY DEF OpToRel
  <1> HIDE DEF R
  <1>3. PICK x \in S : \A y \in S : ~ (<<y, x>> \in R)
    BY Zenon, <1>1, WFMin
  <1>4. ASSUME NEW y \in S PROVE x <= y
    <2>1. x \in Nat /\ y \in Nat
      OBVIOUS
    <2>2. ~(y < x)
      BY Zenon, <1>2, <1>3, <2>1
    <2> QED BY <2>1, <2>2
  <1> QED BY <1>4

LEMMA MinOfNaturals ==
    ASSUME NEW S \in SUBSET Nat, S # {}
    PROVE  Min(S) \in S /\ \A y \in S : Min(S) <= y
  BY Zenon, LeastNatural DEF Min

-----------------------------------------------------------------------------
(* Admission and matching. *)

LEMMA FilterOf ==
    ASSUME NEW request \in Requests, request.kind # "get"
    PROVE  /\ request.kind \in {"query", "count"} /\ request.unsupported \in BOOLEAN
           /\ IsFilter(request.filter)
  BY QueriesAssumption

LEMMA PlanKinds ==
    ASSUME NEW filter
    PROVE  Plan(filter).kind \in {"error", "empty", "reads", "scan"}
  BY DEF Plan, PlanRange, PlanTerms, Error

LEMMA PlanOfKinds ==
    ASSUME NEW request \in Requests
    PROVE  /\ request.kind = "get" => PlanOf(request).kind = "key"
           /\ request.kind # "get" => PlanOf(request).kind \in {"error", "empty", "reads", "scan"}
           /\ request.kind # "get" /\ PlanOf(request).kind # "error" =>
                 ~request.unsupported /\ PlanOf(request) = Plan(request.filter)
  <1>1. request.kind # "get" => request.unsupported \in BOOLEAN
    BY FilterOf
  <1>2. Plan(request.filter).kind \in {"error", "empty", "reads", "scan"}
    BY PlanKinds
  <1>3. Error("NotImplemented").kind = "error"
    BY DEF Error
  <1> QED BY <1>1, <1>2, <1>3 DEF PlanOf

(* Admission refuses exactly the malformed filters. *)
LEMMA PlanRefuses ==
    ASSUME NEW filter, IsFilter(filter)
    PROVE  Plan(filter).kind = "error" <=> ~WellFormed(filter)
  <1>1. CASE filter.kind = "Range"
    <2>1. PlanRange(filter).kind = "error" <=>
             \/ filter.lower = None /\ filter.upper = None
             \/ filter.lower # None /\ filter.upper # None /\ filter.upper.cell.ty # filter.lower.cell.ty
             \/ filter.field \notin Fields
             \/ filter.lower # None /\ filter.lower.cell.ty = "bytes"
             \/ filter.lower = None /\ filter.upper # None /\ filter.upper.cell.ty = "bytes"
      BY DEF PlanRange, HasTerm, Error
    <2> DEFINE cells == {b.cell : b \in {filter.lower, filter.upper} \ {None}}
    <2>2. \A cell : cell \in cells <=>
             \/ filter.lower # None /\ cell = filter.lower.cell
             \/ filter.upper # None /\ cell = filter.upper.cell
      OBVIOUS
    <2>3. WellFormed(filter) <=> /\ filter.field \in Fields
                                 /\ \A a, b \in cells : a.ty = b.ty
                                 /\ \A cell \in cells : cell.ty # "bytes"
                                 /\ cells # {}
      BY <1>1 DEF WellFormed
    <2> HIDE DEF cells
    <2>4. cells # {} <=> filter.lower # None \/ filter.upper # None
      BY <2>2
    <2> QED BY <1>1, <2>1, <2>2, <2>3, <2>4 DEF Plan
  <1>2. CASE filter.kind # "Range"
    <2> DEFINE values == filter.values
               cells == {values[i] : i \in DOMAIN values}
    <2>1. values \in Seq(Cell)
      BY <1>2 DEF IsFilter
    <2>2. values # <<>> => 1 \in DOMAIN values
      BY <2>1
    <2>3. values = <<>> => DOMAIN values = {}
      OBVIOUS
    <2>4. PlanTerms(filter).kind = "error" <=>
             IF values = <<>> THEN filter.field \notin Fields
             ELSE \/ \E i \in DOMAIN values : values[i].ty # values[1].ty
                  \/ filter.field \notin Fields \/ values[1].ty = "bytes"
      BY DEF PlanTerms, HasTerm, Error
    <2>5. WellFormed(filter) <=> /\ filter.field \in Fields
                                 /\ \A a, b \in cells : a.ty = b.ty
                                 /\ \A cell \in cells : cell.ty # "bytes"
      BY <1>2 DEF WellFormed
    <2>6. \A cell : cell \in cells <=> \E i \in DOMAIN values : cell = values[i]
      OBVIOUS
    <2> HIDE DEF cells, values
    <2>7. CASE values = <<>>
      BY <1>2, <2>3, <2>4, <2>5, <2>6, <2>7 DEF Plan
    <2>8. CASE values # <<>>
      <3>1. values[1] \in cells
        BY <2>2, <2>6, <2>8
      <3>2. (\A a, b \in cells : a.ty = b.ty) <=> \A i \in DOMAIN values : values[i].ty = values[1].ty
        BY <2>6, <3>1
      <3>3. (\A a, b \in cells : a.ty = b.ty) =>
               ((\A cell \in cells : cell.ty # "bytes") <=> values[1].ty # "bytes")
        BY <3>1
      <3> QED BY <1>2, <2>4, <2>5, <2>8, <3>2, <3>3 DEF Plan
    <2> QED BY <2>7, <2>8
  <1> QED BY <1>1, <1>2

LEMMA Refusals ==
    ASSUME NEW request \in Requests, request.kind # "get"
    PROVE  PlanOf(request).kind = "error" <=> request.unsupported \/ ~WellFormed(request.filter)
  <1>1. request.unsupported \in BOOLEAN /\ IsFilter(request.filter)
    BY FilterOf
  <1>2. Error("NotImplemented").kind = "error"
    BY DEF Error
  <1> QED BY <1>1, <1>2, PlanRefuses DEF PlanOf

(* The postings that mention a record are those of its attributes. *)
LEMMA PostedIs ==
    ASSUME NEW view, NEW id, NEW t
    PROVE  t \in Posted(view, id) <=>
             \E f \in DOMAIN view.records[id].cells :
                view.records[id].cells[f].attribute /\ t = Term(f, view.records[id].cells[f])
  BY DEF Posted

LEMMA TermEquals ==
    ASSUME NEW f, NEW g, NEW a, NEW b
    PROVE  /\ Term(f, a) = Term(g, b) <=> f = g /\ a.ty = b.ty /\ a.value = b.value
           /\ Term(f, a).field = f /\ Term(f, a).ty = a.ty /\ Term(f, a).value = a.value
  BY DEF Term

(* The terms of one plan have one field and one type, so that a term read last is
   known by its value. *)
LEMMA TermsDetermined ==
    ASSUME NEW filter, IsFilter(filter), Plan(filter).kind # "error", NEW view, IsView(view)
    PROVE  \A t, u \in TermsOf(Plan(filter), view) :
              t.value \in Nat /\ (t.value = u.value => t = u)
  <1> DEFINE plan == Plan(filter)
  <1>1. CASE plan.kind = "scan"
    <2>1. \A t \in TermsOf(plan, view) : t \in IndexTerms(view) /\ InScan(plan, t)
      BY <1>1 DEF TermsOf
    <2>2. \A t \in IndexTerms(view) : \E f, cell : cell \in Cell /\ t = Term(f, cell)
      <3> TAKE t \in IndexTerms(view)
      <3>1. PICK id \in Live(view) : t \in Posted(view, id)
        BY DEF IndexTerms
      <3>2. PICK f \in DOMAIN view.records[id].cells : t = Term(f, view.records[id].cells[f])
        BY <3>1, PostedIs
      <3>3. view.records[id].cells[f] \in Cell
        BY DEF IsView
      <3> QED BY <3>2, <3>3
    <2>3. \A t \in TermsOf(plan, view) : t.field = plan.field /\ t.ty = plan.ty
      BY <2>1 DEF InScan
    <2> HIDE DEF plan
    <2> SUFFICES ASSUME NEW t \in TermsOf(plan, view), NEW u \in TermsOf(plan, view)
                 PROVE  t.value \in Nat /\ (t.value = u.value => t = u)
      BY DEF plan
    <2>4. PICK f, a : a \in Cell /\ t = Term(f, a)
      BY <2>1, <2>2
    <2>5. PICK g, b : b \in Cell /\ u = Term(g, b)
      BY <2>1, <2>2
    <2>6. a.value \in Nat
      BY <2>4 DEF Cell
    <2>7. t.field = f /\ t.ty = a.ty /\ t.value = a.value
      BY <2>4, TermEquals
    <2>8. u.field = g /\ u.ty = b.ty /\ u.value = b.value
      BY <2>5, TermEquals
    <2> QED BY <2>3, <2>4, <2>5, <2>6, <2>7, <2>8, TermEquals
  <1>2. CASE plan.kind = "reads"
    <2>1. filter.kind # "Range"
      BY <1>2 DEF Plan, PlanRange, Error
    <2>2. filter.values \in Seq(Cell)
      BY <2>1 DEF IsFilter
    <2>3. /\ \A i \in DOMAIN filter.values : filter.values[i].ty = filter.values[1].ty
          /\ plan.terms = {Term(filter.field, filter.values[i]) : i \in DOMAIN filter.values}
      BY <1>2, <2>1 DEF Plan, PlanTerms, Error
    <2>4. TermsOf(plan, view) = plan.terms
      BY <1>2 DEF TermsOf
    <2>5. \A i \in DOMAIN filter.values : filter.values[i].value \in Nat
      <3>1. \A i \in DOMAIN filter.values : filter.values[i] \in Cell
        BY <2>2
      <3> QED BY <3>1 DEF Cell
    <2> HIDE DEF plan
    <2> SUFFICES ASSUME NEW t \in TermsOf(plan, view), NEW u \in TermsOf(plan, view)
                 PROVE  t.value \in Nat /\ (t.value = u.value => t = u)
      BY DEF plan
    <2>6. PICK i \in DOMAIN filter.values : t = Term(filter.field, filter.values[i])
      BY <2>3, <2>4
    <2>7. PICK j \in DOMAIN filter.values : u = Term(filter.field, filter.values[j])
      BY <2>3, <2>4
    <2>8. t.value = filter.values[i].value /\ u.value = filter.values[j].value
      BY <2>6, <2>7, TermEquals
    <2> QED BY <2>3, <2>5, <2>6, <2>7, <2>8, TermEquals
  <1>3. CASE plan.kind = "empty"
    BY <1>3 DEF TermsOf
  <1> QED BY <1>1, <1>2, <1>3, PlanKinds

(* The records found through the terms of a plan are those that its filter asks
   for: in lists, in ranges, and where admission finds that there are none. *)
LEMMA MatchesWanted ==
    ASSUME NEW request \in Requests, request.kind # "get", PlanOf(request).kind # "error",
           NEW view, IsView(view)
    PROVE  Wanted(view, request) =
             {id \in Live(view) : \E t \in TermsOf(PlanOf(request), view) : t \in Posted(view, id)}
  <1> DEFINE filter == request.filter
             plan == Plan(filter)
             field == filter.field
             cells(id) == view.records[id].cells
  <1>1. PlanOf(request) = plan /\ plan.kind \in {"empty", "reads", "scan"} /\ IsFilter(filter)
    BY PlanOfKinds, FilterOf
  <1>2. SUFFICES ASSUME NEW id \in Live(view)
                 PROVE  field \in DOMAIN cells(id) /\ Satisfies(cells(id)[field], filter)
                          <=> \E t \in TermsOf(plan, view) : t \in Posted(view, id)
    <2>1. Wanted(view, request) =
             {id \in Live(view) : field \in DOMAIN cells(id) /\ Satisfies(cells(id)[field], filter)}
      BY DEF Wanted
    <2> HIDE DEF plan
    <2> QED BY Zenon, <1>1, <1>2, <2>1
  <1>3. \A f \in DOMAIN cells(id) : /\ cells(id)[f] \in Cell /\ cells(id)[f].value \in Nat
                                    /\ cells(id)[f].attribute \in BOOLEAN
    BY DEF IsView, Cell
  <1>4. \A t : t \in Posted(view, id) <=>
                 \E f \in DOMAIN cells(id) : cells(id)[f].attribute /\ t = Term(f, cells(id)[f])
    BY PostedIs
  <1>5. \A t \in Posted(view, id) : t \in IndexTerms(view)
    BY DEF IndexTerms
  <1> HIDE DEF cells
  <1>6. CASE filter.kind # "Range" /\ plan.kind = "reads"
    <2>1. TermsOf(plan, view) = {Term(field, filter.values[i]) : i \in DOMAIN filter.values}
      BY <1>6 DEF Plan, PlanTerms, Error, TermsOf
    <2>2. \A cell : Satisfies(cell, filter) <=>
             /\ cell.attribute
             /\ \E i \in DOMAIN filter.values : /\ cell.ty = filter.values[i].ty
                                                /\ cell.value = filter.values[i].value
      BY <1>6 DEF Satisfies
    <2>3. ASSUME field \in DOMAIN cells(id), Satisfies(cells(id)[field], filter)
          PROVE  \E t \in TermsOf(plan, view) : t \in Posted(view, id)
      <3>1. PICK i \in DOMAIN filter.values : /\ cells(id)[field].ty = filter.values[i].ty
                                               /\ cells(id)[field].value = filter.values[i].value
        BY <2>2, <2>3
      <3>2. Term(field, cells(id)[field]) = Term(field, filter.values[i])
        BY <3>1, TermEquals
      <3>3. Term(field, cells(id)[field]) \in Posted(view, id)
        BY <1>4, <2>2, <2>3
      <3> QED BY <2>1, <3>2, <3>3
    <2>4. ASSUME NEW t \in TermsOf(plan, view), t \in Posted(view, id)
          PROVE  field \in DOMAIN cells(id) /\ Satisfies(cells(id)[field], filter)
      <3>1. PICK i \in DOMAIN filter.values : t = Term(field, filter.values[i])
        BY <2>1
      <3>2. PICK f \in DOMAIN cells(id) : cells(id)[f].attribute /\ t = Term(f, cells(id)[f])
        BY <1>4, <2>4
      <3>3. f = field /\ cells(id)[f].ty = filter.values[i].ty /\ cells(id)[f].value = filter.values[i].value
        <4>1. Term(f, cells(id)[f]) = Term(field, filter.values[i])
          BY <3>1, <3>2
        <4> HIDE DEF field, filter
        <4> QED BY <4>1, TermEquals
      <3> QED BY <2>2, <3>2, <3>3
    <2> QED BY <2>3, <2>4
  <1>7. CASE filter.kind # "Range" /\ plan.kind # "reads"
    <2>1. filter.values = <<>> /\ plan.kind = "empty"
      BY Zenon, <1>1, <1>7 DEF Plan, PlanTerms, Error
    <2>2. TermsOf(plan, view) = {}
      BY <2>1 DEF TermsOf
    <2>3. \A cell : ~Satisfies(cell, filter)
      BY <1>7, <2>1 DEF Satisfies
    <2> QED BY <2>2, <2>3
  <1>8. CASE filter.kind = "Range"
    <2> DEFINE lower == filter.lower
               upper == filter.upper
               ty == IF lower # None THEN lower.cell.ty ELSE upper.cell.ty
    <2>1. /\ lower # None => lower.cell.value \in Nat /\ lower.included \in BOOLEAN
          /\ upper # None => upper.cell.value \in Nat /\ upper.included \in BOOLEAN
      BY <1>1, <1>8 DEF IsFilter, Bounded, Cell
    <2>2. /\ lower # None \/ upper # None
          /\ lower # None /\ upper # None => upper.cell.ty = ty
          /\ plan.kind = "empty" <=> EmptyBounds(lower, upper)
          /\ plan.kind = "scan" => /\ plan.field = field /\ plan.ty = ty
                                   /\ plan.lower = lower /\ plan.upper = upper
          /\ plan.kind # "reads"
      BY Zenon, <1>1, <1>8 DEF Plan, PlanRange, Error
    <2> HIDE DEF plan
    <2>3. \A cell : Satisfies(cell, filter) <=>
             /\ cell.attribute
             /\ lower # None => /\ cell.ty = lower.cell.ty /\ cell.value >= lower.cell.value
                                /\ lower.included \/ cell.value # lower.cell.value
             /\ upper # None => /\ cell.ty = upper.cell.ty /\ cell.value <= upper.cell.value
                                /\ upper.included \/ cell.value # upper.cell.value
      BY Zenon, <1>8 DEF Satisfies
    <2>4. CASE plan.kind = "empty"
      <3>1. TermsOf(plan, view) = {}
        BY <2>4 DEF TermsOf
      <3>2. \A cell \in Cell : ~Satisfies(cell, filter)
        BY <2>1, <2>2, <2>3, <2>4 DEF EmptyBounds, Cell
      <3> QED BY Zenon, <1>3, <3>1, <3>2
    <2>5. CASE plan.kind = "scan"
      <3>1. TermsOf(plan, view) = {t \in IndexTerms(view) : InScan(plan, t)}
        BY <2>5 DEF TermsOf
      <3>2. \A f, cell : cell \in Cell =>
               (InScan(plan, Term(f, cell)) <=>
                  /\ f = field /\ cell.ty = ty
                  /\ lower # None => \/ cell.value > lower.cell.value
                                     \/ lower.included /\ cell.value = lower.cell.value
                  /\ upper # None => \/ cell.value < upper.cell.value
                                     \/ upper.included /\ cell.value = upper.cell.value)
        BY <2>2, <2>5, TermEquals DEF InScan
      <3>3. \A f : \A cell \in Cell :
               cell.attribute /\ InScan(plan, Term(f, cell)) <=> f = field /\ Satisfies(cell, filter)
        <4> TAKE f
        <4> TAKE cell \in Cell
        <4>1. cell.value \in Nat
          BY DEF Cell
        <4> QED BY <2>1, <2>2, <2>3, <3>2, <4>1
      <3>4. ASSUME field \in DOMAIN cells(id), Satisfies(cells(id)[field], filter)
            PROVE  \E t \in TermsOf(plan, view) : t \in Posted(view, id)
        <4> DEFINE t == Term(field, cells(id)[field])
        <4>1. InScan(plan, t) /\ cells(id)[field].attribute
          BY Zenon, <1>3, <3>3, <3>4
        <4>2. t \in Posted(view, id)
          BY Zenon, <1>4, <3>4, <4>1
        <4> HIDE DEF t
        <4> QED BY <1>5, <3>1, <4>1, <4>2
      <3>5. ASSUME NEW t \in TermsOf(plan, view), t \in Posted(view, id)
            PROVE  field \in DOMAIN cells(id) /\ Satisfies(cells(id)[field], filter)
        <4>1. PICK f \in DOMAIN cells(id) : cells(id)[f].attribute /\ t = Term(f, cells(id)[f])
          BY <1>4, <3>5
        <4> QED BY Zenon, <1>3, <3>1, <3>3, <4>1
      <3> QED BY Zenon, <3>4, <3>5
    <2> QED BY <1>1, <2>2, <2>4, <2>5
  <1> QED BY <1>6, <1>7, <1>8

-----------------------------------------------------------------------------
(* The inductive invariant: the commits so far, and how far each read has come. *)

ViewAt(p, at) == p[at - p[1].commit + 1]

PastOk(p, h) ==
    /\ \E S : p \in Seq(S)
    /\ Len(p) >= 1 /\ h = p[Len(p)]
    /\ \A i \in 1..Len(p) : IsView(p[i]) /\ p[i].commit = p[1].commit + (i - 1)

IsRead(r) ==
    /\ DOMAIN r = {"pc", "request", "plan", "begun", "snapshot", "last", "matches", "unread", "answer"}
    /\ DOMAIN r.answer = {"status", "at", "records", "total"}

(* The snapshot is the committed state of its number, which was the head after
   the call began. *)
Opened(r, p) ==
    /\ r.answer.at \in Nat /\ r.begun <= r.answer.at
    /\ r.answer.at - p[1].commit + 1 \in 1..Len(p)
    /\ r.snapshot = ViewAt(p, r.answer.at)

AtCommit(r) == r.request.commit \in {None, r.answer.at}

(* The records matched are those of the terms read. *)
Matching(r) ==
    /\ r.pc = "match" /\ r.request.kind # "get" /\ AtCommit(r)
    /\ r.answer.records = <<>> /\ (r.last # None => r.last \in Nat)
    /\ r.matches = {id \in Live(r.snapshot) :
                       \E t \in TermsOf(r.plan, r.snapshot) :
                          ~(r.last # None => t.value > r.last) /\ t \in Posted(r.snapshot, id)}

Keyed(r) == r.pc = "key" /\ r.request.kind = "get" /\ AtCommit(r) /\ r.answer.records = <<>>

(* The records read are those wanted and no longer unread, in ID order, and all
   unread ones come later. *)
Reading(r) ==
    LET wanted == Wanted(r.snapshot, r.request) IN
    /\ r.pc = "records" /\ r.request.kind # "count" /\ AtCommit(r)
    /\ r.request.kind = "get" => wanted # {}
    /\ r.request.kind # "get" => r.answer.total = Cardinality(wanted)
    /\ r.unread \subseteq wanted
    /\ \A a \in wanted \ r.unread, b \in r.unread : a < b
    /\ \E S : r.answer.records \in Seq(S)
    /\ InIdOrder(r.answer.records, r.snapshot, wanted \ r.unread, r.request.names)

Answered(r) ==
    LET a == r.answer
        wanted == Wanted(r.snapshot, r.request)
    IN /\ r.pc = "done"
       /\ IF r.request.commit \notin {None, a.at} THEN a.status = "CommitUnavailable"
          ELSE IF r.request.kind = "get" /\ wanted = {} THEN a.status = "NotFound"
          ELSE /\ a.status = "ok"
               /\ r.request.kind # "get" => a.total = Cardinality(wanted)
               /\ r.request.kind # "count" =>
                     InIdOrder(a.records, r.snapshot, wanted, r.request.names)

Begun(r, p) ==
    /\ IsRead(r) /\ r.request \in Requests /\ r.plan = PlanOf(r.request)
    /\ r.begun \in Nat /\ r.begun <= p[Len(p)].commit

Refused(r) == r.pc = "done" /\ r.plan.kind = "error" /\ r.answer.at = None

Planned(r) ==
    /\ r.pc = "planned" /\ r.plan.kind # "error" /\ r.answer.at = None
    /\ r.last = None /\ r.matches = {}

ReadOk(r, p) ==
    \/ r.pc = "idle"
    \/ /\ Begun(r, p)
       /\ \/ Refused(r)
          \/ Planned(r)
          \/ /\ r.plan.kind # "error" /\ Opened(r, p)
             /\ Matching(r) \/ Keyed(r) \/ Reading(r) \/ Answered(r)

QInv ==
    /\ PastOk(past, head)
    /\ reads = [c \in Clients |-> reads[c]]
    /\ \A c \in Clients : ReadOk(reads[c], past)

LEMMA PastFacts ==
    ASSUME NEW p, NEW h, PastOk(p, h)
    PROVE  /\ Len(p) \in Nat /\ Len(p) >= 1 /\ DOMAIN p = 1..Len(p)
           /\ IsView(h) /\ h = p[Len(p)] /\ p[1].commit \in Nat
           /\ h.commit \in Nat /\ h.commit = p[1].commit + (Len(p) - 1)
           /\ h.commit - p[1].commit + 1 = Len(p) /\ ViewAt(p, h.commit) = h
  <1>1. PICK S : p \in Seq(S)
    BY DEF PastOk
  <1>2. Len(p) \in Nat /\ DOMAIN p = 1..Len(p)
    BY <1>1
  <1>3. Len(p) >= 1 /\ h = p[Len(p)]
        /\ \A i \in 1..Len(p) : IsView(p[i]) /\ p[i].commit = p[1].commit + (i - 1)
    BY DEF PastOk
  <1>4. IsView(p[1]) /\ IsView(h) /\ h.commit = p[1].commit + (Len(p) - 1)
    BY <1>2, <1>3
  <1>5. p[1].commit \in Nat /\ h.commit \in Nat
    BY Zenon, <1>4 DEF IsView
  <1>6. h.commit - p[1].commit + 1 = Len(p)
    BY <1>2, <1>4, <1>5
  <1> QED BY <1>2, <1>3, <1>4, <1>5, <1>6 DEF ViewAt

LEMMA PastGrows ==
    ASSUME NEW p, NEW h, PastOk(p, h), NEW new, IsView(new), new.commit = h.commit + 1
    PROVE  /\ PastOk(Append(p, new), new)
           /\ \A r : ReadOk(r, p) => ReadOk(r, Append(p, new))
  <1> DEFINE q == Append(p, new)
  <1>1. PICK S : p \in Seq(S)
    BY DEF PastOk
  <1>2. p \in Seq(S \cup {new})
    BY <1>1
  <1>3. /\ q \in Seq(S \cup {new}) /\ Len(q) = Len(p) + 1 /\ q[Len(q)] = new
        /\ \A i \in 1..Len(p) : q[i] = p[i]
    BY <1>2
  <1> HIDE DEF q
  <1>4. /\ Len(p) \in Nat /\ Len(p) >= 1 /\ h = p[Len(p)] /\ p[1].commit \in Nat
        /\ h.commit \in Nat /\ h.commit = p[1].commit + (Len(p) - 1)
    BY PastFacts
  <1>5. q[1] = p[1]
    BY <1>3, <1>4
  <1>6. \A i \in 1..Len(p) : IsView(p[i]) /\ p[i].commit = p[1].commit + (i - 1)
    BY DEF PastOk
  <1>7. PastOk(q, new)
    <2>1. ASSUME NEW i \in 1..Len(q)
          PROVE  IsView(q[i]) /\ q[i].commit = q[1].commit + (i - 1)
      <3>1. CASE i \in 1..Len(p)
        BY <3>1, <1>3, <1>5, <1>6
      <3>2. CASE i \notin 1..Len(p)
        <4>1. i = Len(p) + 1 /\ q[i] = new
          BY <3>2, <1>3, <1>4
        <4> QED BY <4>1, <1>4, <1>5
      <3> QED BY <3>1, <3>2
    <2>2. \E T : q \in Seq(T)
      BY <1>3
    <2>3. Len(q) >= 1 /\ new = q[Len(q)]
      BY <1>3, <1>4
    <2> QED BY <2>1, <2>2, <2>3 DEF PastOk
  <1>8. ASSUME NEW r, Begun(r, p)
        PROVE  Begun(r, q)
    <2>1. r.begun \in Nat /\ r.begun <= h.commit
      BY <1>4, <1>8 DEF Begun
    <2>2. r.begun <= q[Len(q)].commit
      BY <2>1, <1>3, <1>4
    <2> QED BY <1>8, <2>2 DEF Begun
  <1>9. ASSUME NEW r, Opened(r, p)
        PROVE  Opened(r, q)
    <2> DEFINE i == r.answer.at - p[1].commit + 1
    <2>1. i \in 1..Len(p)
      BY <1>9 DEF Opened
    <2>2. i \in 1..Len(q) /\ q[i] = p[i]
      BY <2>1, <1>3, <1>4
    <2> QED BY <1>5, <1>9, <2>2 DEF Opened, ViewAt
  <1>10. \A r : ReadOk(r, p) => ReadOk(r, q)
    BY Zenon, <1>8, <1>9 DEF ReadOk
  <1> QED BY <1>7, <1>10 DEF q

(* A step of a client concerns its own read. *)
LEMMA ClientStep ==
    ASSUME QInv, UNCHANGED <<head, past>>, NEW c \in Clients, NEW new,
           reads' = [reads EXCEPT ![c] = new], ReadOk(new, past)
    PROVE  QInv'
  <1>1. \A d \in Clients : reads'[d] = IF d = c THEN new ELSE reads[d]
    BY DEF QInv
  <1>2. \A d \in Clients : ReadOk(reads'[d], past)
    BY <1>1 DEF QInv
  <1>3. reads' = [d \in Clients |-> reads'[d]]
    BY DEF QInv
  <1>4. PastOk(past', head') /\ past' = past
    BY DEF QInv
  <1> QED BY <1>2, <1>3, <1>4 DEF QInv

LEMMA BeginKeeps ==
    ASSUME QInv, NEW c \in Clients, NEW request \in Requests, Begin(c, request)
    PROVE  QInv'
  <1> DEFINE plan == PlanOf(request)
             new == [pc |-> IF plan.kind = "error" THEN "done" ELSE "planned",
                     request |-> request, plan |-> plan, begun |-> head.commit, snapshot |-> None,
                     last |-> None, matches |-> {}, unread |-> {},
                     answer |-> Answer(IF plan.kind = "error" THEN plan.status ELSE "", None)]
  <1>1. reads' = [reads EXCEPT ![c] = new] /\ UNCHANGED <<head, past>>
    BY DEF Begin
  <1>2. head.commit \in Nat /\ head = past[Len(past)]
    BY PastFacts DEF QInv
  <1>3. head.commit <= past[Len(past)].commit
    BY <1>2
  <1>4. Begun(new, past)
    BY Zenon, <1>2, <1>3 DEF Begun, IsRead, Answer
  <1>5. plan.kind = "error" => Refused(new)
    BY DEF Refused, Answer
  <1>6. plan.kind # "error" => Planned(new)
    BY DEF Planned, Answer
  <1> HIDE DEF new, plan
  <1>7. ReadOk(new, past)
    BY <1>4, <1>5, <1>6 DEF ReadOk
  <1> QED BY Zenon, <1>1, <1>7, ClientStep

LEMMA OpenKeeps ==
    ASSUME QInv, NEW c \in Clients, OpenSnapshot(c)
    PROVE  QInv'
  <1> DEFINE r == reads[c]
             gone == r.request.commit # None /\ r.request.commit # head.commit
             pc == IF gone THEN "done" ELSE IF r.plan.kind = "key" THEN "key" ELSE "match"
             answer == Answer(IF gone THEN "CommitUnavailable" ELSE "", head.commit)
             new == [r EXCEPT !.pc = pc, !.snapshot = head, !.answer = answer]
  <1>1. reads' = [reads EXCEPT ![c] = new] /\ UNCHANGED <<head, past>> /\ r.pc = "planned"
    BY DEF OpenSnapshot
  <1>2. Begun(r, past) /\ Planned(r)
    BY Zenon, <1>1 DEF QInv, ReadOk, Refused, Matching, Keyed, Reading, Answered
  <1>3. /\ Len(past) \in Nat /\ Len(past) >= 1 /\ head = past[Len(past)]
        /\ head.commit \in Nat /\ head.commit - past[1].commit + 1 = Len(past)
        /\ ViewAt(past, head.commit) = head
    BY PastFacts DEF QInv
  <1> HIDE DEF r
  <1>5. /\ answer.at = head.commit /\ answer.records = <<>>
        /\ answer.status = (IF gone THEN "CommitUnavailable" ELSE "")
        /\ DOMAIN answer = {"status", "at", "records", "total"}
    BY DEF Answer
  <1>10. pc = IF gone THEN "done" ELSE IF r.plan.kind = "key" THEN "key" ELSE "match"
    OBVIOUS
  <1> HIDE DEF pc, answer
  <1>4. /\ new.pc = pc /\ new.request = r.request /\ new.plan = r.plan /\ new.begun = r.begun
        /\ new.snapshot = head /\ new.last = r.last /\ new.matches = r.matches
        /\ new.answer = answer /\ IsRead(new)
    <2>1. IsRead(r)
      BY <1>2 DEF Begun
    <2> QED BY <1>5, <2>1 DEF IsRead
  <1> HIDE DEF new
  <1>6. Begun(new, past)
    BY <1>2, <1>4 DEF Begun
  <1>7. Opened(new, past)
    <2>1. new.begun <= head.commit
      BY <1>2, <1>3, <1>4 DEF Begun
    <2>2. Len(past) \in 1..Len(past)
      BY <1>3
    <2> QED BY Zenon, <1>3, <1>4, <1>5, <2>1, <2>2 DEF Opened
  <1>8. CASE gone
    <2>1. new.pc = "done" /\ new.answer.status = "CommitUnavailable"
      BY <1>4, <1>5, <1>8, <1>10
    <2>2. new.request.commit \notin {None, new.answer.at}
      BY <1>4, <1>5, <1>8, <1>10
    <2>3. Answered(new)
      BY <2>1, <2>2 DEF Answered
    <2> QED BY Zenon, <1>1, <1>2, <1>4, <1>6, <1>7, <2>3, ClientStep DEF ReadOk, Planned
  <1>9. CASE ~gone
    <2>1. AtCommit(new)
      BY <1>4, <1>5, <1>9 DEF AtCommit
    <2>2. r.request \in Requests /\ r.plan = PlanOf(r.request)
      BY <1>2 DEF Begun
    <2>3. r.plan.kind = "key" <=> r.request.kind = "get"
      BY <2>2, PlanOfKinds
    <2>4. r.last = None /\ r.matches = {} /\ r.plan.kind # "error"
      BY <1>2 DEF Planned
    <2>5. CASE r.plan.kind = "key"
      <3>1. Keyed(new)
        BY <1>4, <1>5, <1>9, <1>10, <2>1, <2>3, <2>5 DEF Keyed
      <3> QED BY Zenon, <1>1, <1>4, <1>6, <1>7, <2>4, <3>1, ClientStep DEF ReadOk
    <2>6. CASE r.plan.kind # "key"
      <3>1. new.pc = "match" /\ new.request.kind # "get" /\ new.last = None /\ new.matches = {}
        BY <1>4, <1>9, <1>10, <2>3, <2>4, <2>6
      <3>2. Matching(new)
        BY <1>4, <1>5, <2>1, <3>1 DEF Matching
      <3> QED BY Zenon, <1>1, <1>4, <1>6, <1>7, <2>4, <3>2, ClientStep DEF ReadOk
    <2> QED BY <2>5, <2>6
  <1> QED BY <1>8, <1>9

(* A read in progress, and where it is. *)
LEMMA ReadUnderWay ==
    ASSUME QInv, NEW c \in Clients, reads[c].pc \in {"match", "key", "records"}
    PROVE  LET r == reads[c] IN
           /\ Begun(r, past) /\ Opened(r, past) /\ r.plan.kind # "error"
           /\ IsView(r.snapshot) /\ IsRead(r)
           /\ r.request \in Requests /\ r.plan = PlanOf(r.request)
           /\ r.pc = "match" => Matching(r)
           /\ r.pc = "key" => Keyed(r)
           /\ r.pc = "records" => Reading(r)
  <1> DEFINE r == reads[c]
  <1>1. ReadOk(r, past)
    BY DEF QInv
  <1>2. /\ Begun(r, past) /\ Opened(r, past) /\ r.plan.kind # "error"
        /\ r.pc = "match" => Matching(r)
        /\ r.pc = "key" => Keyed(r)
        /\ r.pc = "records" => Reading(r)
    BY Zenon, <1>1 DEF ReadOk, Refused, Planned, Matching, Keyed, Reading, Answered
  <1>3. IsView(r.snapshot)
    <2>1. \A i \in 1..Len(past) : IsView(past[i])
      BY DEF QInv, PastOk
    <2> QED BY Zenon, <1>2, <2>1 DEF Opened, ViewAt
  <1> QED BY Zenon, <1>2, <1>3 DEF Begun

LEMMA ReadPostingsKeeps ==
    ASSUME QInv, NEW c \in Clients, ReadPostings(c)
    PROVE  QInv'
  <1> DEFINE r == reads[c]
             view == r.snapshot
             t == CHOOSE t \in Ahead(c) : \A u \in Ahead(c) : t.value <= u.value
             new == [r EXCEPT !.matches = r.matches \cup Postings(view, t), !.last = t.value]
             terms == TermsOf(r.plan, view)
             read(last) == {u \in terms : ~(last # None => u.value > last)}
  <1>1. UNCHANGED <<head, past>> /\ r.pc = "match" /\ Ahead(c) # {}
    BY DEF ReadPostings
  <1>2. /\ Begun(r, past) /\ Opened(r, past) /\ r.plan.kind # "error" /\ IsView(view)
        /\ r.request \in Requests /\ r.plan = PlanOf(r.request) /\ Matching(r) /\ IsRead(r)
    BY Zenon, <1>1, ReadUnderWay
  <1>16. reads' = [reads EXCEPT ![c] = new]
    <2>1. c \in DOMAIN reads
      BY DEF QInv
    <2>2. "matches" \in DOMAIN r /\ "last" \in DOMAIN r
      BY Zenon, <1>2 DEF IsRead
    <2>3. reads' = [reads EXCEPT ![c].matches = @ \cup Postings(view, t), ![c].last = t.value]
      BY DEF ReadPostings, View
    <2> HIDE DEF t
    <2> QED BY Zenon, <2>1, <2>2, <2>3
  <1>3. r.request.kind # "get"
    BY Zenon, <1>2 DEF Matching
  <1>4. \A a, b \in terms : a.value \in Nat /\ (a.value = b.value => a = b)
    BY <1>2, <1>3, PlanOfKinds, FilterOf, TermsDetermined
  <1>5. Ahead(c) = {u \in terms : r.last # None => u.value > r.last}
    BY DEF Ahead, View
  <1> HIDE DEF terms
  <1>6. t \in Ahead(c) /\ \A u \in Ahead(c) : t.value <= u.value
    <2> DEFINE values == {u.value : u \in Ahead(c)}
    <2>1. values \in SUBSET Nat /\ values # {}
      BY <1>1, <1>4, <1>5
    <2>2. PICK v \in values : \A w \in values : v <= w
      BY Zenon, <2>1, LeastNatural
    <2>3. PICK u \in Ahead(c) : v = u.value
      BY <2>2
    <2>4. \A w \in Ahead(c) : u.value <= w.value
      BY <2>2, <2>3
    <2> HIDE DEF values
    <2> QED BY <2>3, <2>4
  <1> HIDE DEF t
  <1>7. /\ new.pc = "match" /\ new.request = r.request /\ new.plan = r.plan /\ new.begun = r.begun
        /\ new.snapshot = view /\ new.answer = r.answer /\ new.last = t.value
        /\ new.matches = r.matches \cup Postings(view, t) /\ IsRead(new)
    BY <1>1, <1>2 DEF IsRead
  <1> HIDE DEF new, r, view
  <1>8. t \in terms /\ t.value \in Nat
    BY <1>4, <1>5, <1>6
  <1>9. t.value # None
    BY <1>8, QueriesAssumption
  <1>10. \A u \in terms : ~(t.value # None => u.value > t.value) <=>
                             u = t \/ ~(r.last # None => u.value > r.last)
    <2> TAKE u \in terms
    <2>1. u.value \in Nat /\ (u.value = t.value => u = t)
      BY <1>4, <1>8
    <2>2. r.last # None => r.last \in Nat
      BY Zenon, <1>2 DEF Matching
    <2>3. r.last # None => t.value > r.last
      BY <1>5, <1>6
    <2>4. (r.last # None => u.value > r.last) => t.value <= u.value
      BY <1>5, <1>6
    <2> QED BY <1>8, <1>9, <2>1, <2>2, <2>3, <2>4
  <1>11. r.matches = {id \in Live(view) : \E u \in terms :
                         ~(r.last # None => u.value > r.last) /\ u \in Posted(view, id)}
    BY Zenon, <1>2 DEF Matching, terms, view
  <1>12. Postings(view, t) = {id \in Live(view) : t \in Posted(view, id)}
    BY DEF Postings
  <1>13. new.matches = {id \in Live(view) : \E u \in terms :
                         ~(t.value # None => u.value > t.value) /\ u \in Posted(view, id)}
    BY <1>7, <1>8, <1>10, <1>11, <1>12
  <1>14. Matching(new)
    <2>1. AtCommit(new)
      BY Zenon, <1>2, <1>7 DEF Matching, AtCommit
    <2>2. new.answer.records = <<>> /\ new.request.kind # "get"
      BY Zenon, <1>2, <1>3, <1>7 DEF Matching
    <2>3. new.matches = {id \in Live(new.snapshot) : \E u \in TermsOf(new.plan, new.snapshot) :
                         ~(new.last # None => u.value > new.last) /\ u \in Posted(new.snapshot, id)}
      BY Zenon, <1>7, <1>13 DEF terms
    <2> QED BY Zenon, <1>7, <1>8, <2>1, <2>2, <2>3 DEF Matching
  <1>15. ReadOk(new, past)
    <2>1. Begun(new, past)
      BY Zenon, <1>2, <1>7 DEF Begun
    <2>2. Opened(new, past)
      BY Zenon, <1>2, <1>7 DEF Opened, view
    <2> QED BY Zenon, <1>2, <1>7, <1>14, <2>1, <2>2 DEF ReadOk
  <1> QED BY Zenon, <1>1, <1>15, <1>16, ClientStep DEF r

(* No record read yet. *)
LEMMA NoneRead ==
    ASSUME NEW view, NEW names
    PROVE  InIdOrder(<<>>, view, {}, names)
  <1>1. Len(<<>>) = 0 /\ 1..0 = {}
    OBVIOUS
  <1> DEFINE e == [i \in {} |-> i]
  <1>2. e \in [1..Len(<<>>) -> {}] /\ {e[i] : i \in 1..Len(<<>>)} = {}
    BY <1>1
  <1> QED BY Zenon, <1>1, <1>2 DEF InIdOrder

LEMMA MatchedKeeps ==
    ASSUME QInv, NEW c \in Clients, Matched(c)
    PROVE  QInv'
  <1> DEFINE r == reads[c]
             counts == r.request.kind = "count"
             pc == IF counts THEN "done" ELSE "records"
             status == IF counts THEN "ok" ELSE ""
             answer == [r.answer EXCEPT !.total = Cardinality(r.matches), !.status = status]
             new == [r EXCEPT !.pc = pc, !.unread = r.matches, !.answer = answer]
             wanted == Wanted(r.snapshot, r.request)
  <1>2. r.pc = "match" /\ Ahead(c) = {} /\ UNCHANGED <<head, past>>
    BY DEF Matched
  <1>3. /\ Begun(r, past) /\ Opened(r, past) /\ r.plan.kind # "error" /\ IsView(r.snapshot)
        /\ r.request \in Requests /\ r.plan = PlanOf(r.request) /\ Matching(r) /\ IsRead(r)
    BY Zenon, <1>2, ReadUnderWay
  <1>1. reads' = [reads EXCEPT ![c] = new]
    <2>1. c \in DOMAIN reads
      BY DEF QInv
    <2>2. "answer" \in DOMAIN r /\ "pc" \in DOMAIN r /\ "unread" \in DOMAIN r
      BY Zenon, <1>3 DEF IsRead
    <2> QED BY ZenonT(30), <2>1, <2>2 DEF Matched
  <1>4. r.request.kind # "get"
    BY Zenon, <1>3 DEF Matching
  <1>5. r.matches = wanted
    <2>1. \A t \in TermsOf(r.plan, r.snapshot) : ~(r.last # None => t.value > r.last)
      BY <1>2 DEF Ahead, View
    <2>2. r.matches = {id \in Live(r.snapshot) : \E t \in TermsOf(r.plan, r.snapshot) :
                          ~(r.last # None => t.value > r.last) /\ t \in Posted(r.snapshot, id)}
      BY Zenon, <1>3 DEF Matching
    <2>3. wanted = {id \in Live(r.snapshot) : \E t \in TermsOf(r.plan, r.snapshot) :
                       t \in Posted(r.snapshot, id)}
      BY ZenonT(30), <1>3, <1>4, MatchesWanted
    <2> QED BY Zenon, <2>1, <2>2, <2>3
  <1>6. counts <=> r.request.kind = "count"
    OBVIOUS
  <1> HIDE DEF r, counts
  <1>7. /\ answer.total = Cardinality(r.matches) /\ answer.status = status
        /\ answer.at = r.answer.at /\ answer.records = r.answer.records
        /\ DOMAIN answer = {"status", "at", "records", "total"}
    BY <1>3 DEF IsRead
  <1>8. pc = (IF counts THEN "done" ELSE "records") /\ status = (IF counts THEN "ok" ELSE "")
    OBVIOUS
  <1> HIDE DEF answer, pc, status
  <1>9. /\ new.pc = pc /\ new.request = r.request /\ new.plan = r.plan /\ new.begun = r.begun
        /\ new.snapshot = r.snapshot /\ new.answer = answer /\ new.unread = r.matches /\ IsRead(new)
    BY <1>3, <1>7 DEF IsRead
  <1> HIDE DEF new, wanted
  <1>10. AtCommit(r) /\ r.answer.records = <<>>
    BY Zenon, <1>3 DEF Matching
  <1>11. Begun(new, past) /\ Opened(new, past)
    BY Zenon, <1>3, <1>7, <1>9 DEF Begun, Opened
  <1>12. CASE counts
    <2>1. Answered(new)
      BY Zenon, <1>4, <1>5, <1>6, <1>7, <1>8, <1>9, <1>10, <1>12 DEF Answered, AtCommit, wanted
    <2> QED BY Zenon, <1>1, <1>2, <1>3, <1>9, <1>11, <2>1, ClientStep DEF ReadOk
  <1>13. CASE ~counts
    <2>1. wanted \ new.unread = {}
      BY <1>5, <1>9
    <2>2. InIdOrder(new.answer.records, new.snapshot, wanted \ new.unread, new.request.names)
      BY Zenon, <1>7, <1>9, <1>10, <2>1, NoneRead
    <2>3. new.answer.records \in Seq({})
      <3>1. <<>> \in Seq({}) /\ new.answer.records = <<>>
        BY <1>7, <1>9, <1>10
      <3> QED BY <3>1
    <2>4. AtCommit(new)
      BY Zenon, <1>7, <1>9, <1>10 DEF AtCommit
    <2>5. wanted = Wanted(new.snapshot, new.request)
      BY <1>9 DEF wanted
    <2>6. Reading(new)
      BY Zenon, <1>4, <1>5, <1>6, <1>7, <1>8, <1>9, <1>13, <2>1, <2>2, <2>3, <2>4, <2>5 DEF Reading
    <2> QED BY Zenon, <1>1, <1>2, <1>3, <1>9, <1>11, <2>6, ClientStep DEF ReadOk
  <1> QED BY <1>12, <1>13

(* One more record, with an ID beyond all those read. *)
LEMMA OneMoreRead ==
    ASSUME NEW records, \E S : records \in Seq(S), NEW view, NEW ids \in SUBSET Nat, NEW names,
           InIdOrder(records, view, ids, names),
           NEW id \in Nat, \A a \in ids : a < id
    PROVE  LET more == Append(records, Projected(view.records[id], names))
           IN InIdOrder(more, view, ids \cup {id}, names) /\ \E S : more \in Seq(S)
  <1> DEFINE rec == Projected(view.records[id], names)
             more == Append(records, rec)
             n == Len(records)
  <1>1. PICK S : records \in Seq(S)
    OBVIOUS
  <1>2. records \in Seq(S \cup {rec})
    BY <1>1
  <1>3. /\ more \in Seq(S \cup {rec}) /\ n \in Nat /\ Len(more) = n + 1 /\ more[n + 1] = rec
        /\ \A i \in 1..n : more[i] = records[i]
    <2> HIDE DEF rec
    <2> QED BY <1>2
  <1>4. PICK e \in [1..n -> ids] :
           /\ ids = {e[i] : i \in 1..n}
           /\ \A i, j \in 1..n : i < j => e[i] < e[j]
           /\ \A i \in 1..n : records[i] = Projected(view.records[e[i]], names)
    BY DEF InIdOrder
  <1> DEFINE f == [i \in 1..(n + 1) |-> IF i = n + 1 THEN id ELSE e[i]]
  <1>5. rec = Projected(view.records[id], names)
    OBVIOUS
  <1> HIDE DEF rec, more, n
  <1>6. \A i \in 1..(n + 1) : i = n + 1 \/ i \in 1..n
    BY <1>3
  <1>7. /\ f \in [1..(n + 1) -> ids \cup {id}] /\ f[n + 1] = id
        /\ \A i \in 1..n : f[i] = e[i] /\ f[i] \in ids
    <2>1. n + 1 \in 1..(n + 1) /\ \A i \in 1..n : i \in 1..(n + 1) /\ i # n + 1 /\ e[i] \in ids
      BY <1>3, <1>4
    <2>2. \A i \in 1..(n + 1) : (IF i = n + 1 THEN id ELSE e[i]) \in ids \cup {id}
      BY <1>6, <2>1
    <2>3. f \in [1..(n + 1) -> ids \cup {id}]
      BY <2>2
    <2> QED BY <2>1, <2>3
  <1> HIDE DEF f
  <1>8. ids \cup {id} = {f[i] : i \in 1..(n + 1)}
    <2>1. ASSUME NEW x \in ids \cup {id} PROVE \E i \in 1..(n + 1) : x = f[i]
      <3>1. CASE x = id
        BY <3>1, <1>3, <1>7
      <3>2. CASE x \in ids
        <4>1. PICK i \in 1..n : x = e[i]
          BY <3>2, <1>4
        <4> QED BY <4>1, <1>3, <1>7
      <3> QED BY <3>1, <3>2
    <2>2. \A i \in 1..(n + 1) : f[i] \in ids \cup {id}
      BY <1>7
    <2> QED BY Zenon, <2>1, <2>2
  <1>9. ASSUME NEW i \in 1..(n + 1), NEW j \in 1..(n + 1), i < j
        PROVE  f[i] < f[j]
    <2>1. i \in 1..n
      BY <1>3, <1>9
    <2>2. CASE j = n + 1
      BY Zenon, <2>1, <2>2, <1>7
    <2>3. CASE j \in 1..n
      BY <2>1, <2>3, <1>4, <1>7, <1>9
    <2> QED BY <1>6, <2>2, <2>3
  <1>10. ASSUME NEW i \in 1..(n + 1)
         PROVE  more[i] = Projected(view.records[f[i]], names)
    <2>1. CASE i = n + 1
      BY <2>1, <1>3, <1>5, <1>7
    <2>2. CASE i \in 1..n
      <3>1. more[i] = records[i] /\ f[i] = e[i]
        BY Zenon, <2>2, <1>3, <1>7
      <3>2. records[i] = Projected(view.records[e[i]], names)
        BY Zenon, <2>2, <1>4
      <3> QED BY <3>1, <3>2
    <2> QED BY Zenon, <1>6, <2>1, <2>2
  <1>11. InIdOrder(more, view, ids \cup {id}, names)
    BY ZenonT(30), <1>3, <1>7, <1>8, <1>9, <1>10 DEF InIdOrder
  <1> QED BY Zenon, <1>3, <1>11 DEF more, rec

LEMMA WantedIsLive ==
    ASSUME NEW view, IsView(view), NEW request
    PROVE  Wanted(view, request) \subseteq Live(view) /\ Wanted(view, request) \in SUBSET Nat
  BY Zenon DEF Wanted, Bound, IsView

LEMMA ReadRecordKeeps ==
    ASSUME QInv, NEW c \in Clients, ReadRecord(c)
    PROVE  QInv'
  <1> DEFINE r == reads[c]
             view == r.snapshot
             names == r.request.names
             wanted == Wanted(view, r.request)
             id == Min(r.unread)
             answer == [r.answer EXCEPT !.records = Append(r.answer.records,
                                                           Projected(view.records[id], names))]
             new == [r EXCEPT !.unread = r.unread \ {id}, !.answer = answer]
  <1>1. r.pc = "records" /\ r.unread # {} /\ UNCHANGED <<head, past>>
    BY DEF ReadRecord
  <1>2. /\ Begun(r, past) /\ Opened(r, past) /\ r.plan.kind # "error" /\ IsView(view)
        /\ Reading(r) /\ IsRead(r)
    BY Zenon, <1>1, ReadUnderWay
  <1>3. wanted \subseteq Live(view) /\ wanted \in SUBSET Nat
    BY Zenon, <1>2, WantedIsLive
  <1>4. /\ r.request.kind # "count" /\ AtCommit(r) /\ r.unread \subseteq wanted
        /\ r.request.kind = "get" => wanted # {}
        /\ r.request.kind # "get" => r.answer.total = Cardinality(wanted)
        /\ \A a \in wanted \ r.unread, b \in r.unread : a < b
        /\ \E S : r.answer.records \in Seq(S)
        /\ InIdOrder(r.answer.records, view, wanted \ r.unread, names)
    BY Zenon, <1>2 DEF Reading
  <1>5. id \in r.unread /\ \A y \in r.unread : id <= y
    BY Zenon, <1>1, <1>3, <1>4, MinOfNaturals
  <1>6. reads' = [reads EXCEPT ![c] = new]
    <2>1. id \in Live(View(c))
      BY Zenon, <1>3, <1>4, <1>5 DEF View
    <2>2. c \in DOMAIN reads
      BY DEF QInv
    <2>3. "unread" \in DOMAIN r /\ "answer" \in DOMAIN r /\ "records" \in DOMAIN r.answer
      BY Zenon, <1>2 DEF IsRead
    <2>4. reads' = [reads EXCEPT ![c] =
             [r EXCEPT !.unread = r.unread \ {id},
                       !.answer.records = Append(r.answer.records,
                                                 Projected(view.records[id], names))]]
      BY <2>1 DEF ReadRecord, View
    <2> HIDE DEF id
    <2> QED BY <2>2, <2>3, <2>4
  <1> HIDE DEF id
  <1>7. /\ answer.records = Append(r.answer.records, Projected(view.records[id], names))
        /\ answer.at = r.answer.at /\ answer.total = r.answer.total
        /\ DOMAIN answer = {"status", "at", "records", "total"}
    BY <1>2 DEF IsRead
  <1> HIDE DEF answer
  <1>8. /\ new.pc = "records" /\ new.request = r.request /\ new.plan = r.plan
        /\ new.begun = r.begun /\ new.snapshot = view /\ new.answer = answer
        /\ new.unread = r.unread \ {id} /\ IsRead(new)
    BY <1>1, <1>2, <1>7 DEF IsRead
  <1> HIDE DEF new, wanted
  <1>9. /\ wanted \ (r.unread \ {id}) = (wanted \ r.unread) \cup {id}
        /\ id \in Nat /\ wanted \ r.unread \in SUBSET Nat
        /\ \A a \in wanted \ r.unread : a < id
    BY Zenon, <1>3, <1>4, <1>5
  <1>10. /\ InIdOrder(answer.records, view, wanted \ (r.unread \ {id}), names)
         /\ \E S : answer.records \in Seq(S)
    <2>1. \E S : r.answer.records \in Seq(S)
      BY Zenon, <1>4
    <2>2. InIdOrder(r.answer.records, view, wanted \ r.unread, names)
      BY Zenon, <1>4
    <2>3. LET more == Append(r.answer.records, Projected(view.records[id], names))
          IN /\ InIdOrder(more, view, (wanted \ r.unread) \cup {id}, names)
             /\ \E S : more \in Seq(S)
      <3> HIDE DEF r, view, names
      <3> QED BY Zenon, <1>9, <2>1, <2>2, OneMoreRead
    <2> QED BY Zenon, <1>7, <1>9, <2>3
  <1>11. \A a \in wanted \ (r.unread \ {id}), b \in r.unread \ {id} : a < b
    <2> TAKE a \in wanted \ (r.unread \ {id}), b \in r.unread \ {id}
    <2>1. a \in Nat /\ b \in Nat /\ id \in Nat /\ id <= b /\ id # b
      BY Zenon, <1>3, <1>4, <1>5, <1>9
    <2>2. a = id \/ a < b
      BY Zenon, <1>4, <1>9
    <2> QED BY <2>1, <2>2
  <1>12. Reading(new)
    <2>1. wanted = Wanted(new.snapshot, new.request) /\ new.request.names = names
      BY Zenon, <1>8 DEF wanted
    <2>2. AtCommit(new)
      BY Zenon, <1>4, <1>7, <1>8 DEF AtCommit
    <2>3. new.unread \subseteq wanted
      BY Zenon, <1>4, <1>8
    <2>4. /\ new.pc = "records" /\ new.request.kind # "count"
          /\ new.request.kind = "get" => wanted # {}
          /\ new.request.kind # "get" => new.answer.total = Cardinality(wanted)
      BY <1>4, <1>7, <1>8
    <2>5. /\ \A a \in wanted \ new.unread, b \in new.unread : a < b
          /\ \E S : new.answer.records \in Seq(S)
          /\ InIdOrder(new.answer.records, new.snapshot, wanted \ new.unread, new.request.names)
      BY Zenon, <1>8, <1>10, <1>11, <2>1
    <2> HIDE DEF r
    <2> QED BY Zenon, <2>1, <2>2, <2>3, <2>4, <2>5 DEF Reading
  <1>13. Begun(new, past) /\ Opened(new, past)
    BY Zenon, <1>2, <1>7, <1>8 DEF Begun, Opened
  <1> QED BY Zenon, <1>1, <1>2, <1>6, <1>8, <1>12, <1>13, ClientStep DEF ReadOk

LEMMA FinishKeeps ==
    ASSUME QInv, NEW c \in Clients, Finish(c)
    PROVE  QInv'
  <1> DEFINE r == reads[c]
             answer == [r.answer EXCEPT !.status = "ok"]
             new == [r EXCEPT !.pc = "done", !.answer = answer]
             wanted == Wanted(r.snapshot, r.request)
  <1>1. r.pc = "records" /\ r.unread = {} /\ UNCHANGED <<head, past>>
    BY DEF Finish
  <1>2. /\ Begun(r, past) /\ Opened(r, past) /\ r.plan.kind # "error"
        /\ Reading(r) /\ IsRead(r)
    BY Zenon, <1>1, ReadUnderWay
  <1>3. reads' = [reads EXCEPT ![c] = new]
    <2>1. c \in DOMAIN reads
      BY DEF QInv
    <2>2. "pc" \in DOMAIN r /\ "answer" \in DOMAIN r /\ "status" \in DOMAIN r.answer
      BY Zenon, <1>2 DEF IsRead
    <2>3. reads' = [reads EXCEPT ![c].pc = "done", ![c].answer.status = "ok"]
      BY DEF Finish
    <2> QED BY Zenon, <2>1, <2>2, <2>3
  <1>4. /\ answer.status = "ok" /\ answer.at = r.answer.at /\ answer.total = r.answer.total
        /\ answer.records = r.answer.records /\ DOMAIN answer = {"status", "at", "records", "total"}
    BY <1>2 DEF IsRead
  <1> HIDE DEF answer
  <1>5. /\ new.pc = "done" /\ new.request = r.request /\ new.plan = r.plan
        /\ new.begun = r.begun /\ new.snapshot = r.snapshot /\ new.answer = answer /\ IsRead(new)
    BY <1>2, <1>4 DEF IsRead
  <1> HIDE DEF new
  <1>6. Answered(new)
    <2>1. /\ r.request.kind # "count" /\ r.request.commit \in {None, r.answer.at}
          /\ r.request.kind = "get" => wanted # {}
          /\ r.request.kind # "get" => r.answer.total = Cardinality(wanted)
          /\ InIdOrder(r.answer.records, r.snapshot, wanted \ r.unread, r.request.names)
      BY Zenon, <1>2 DEF Reading, AtCommit
    <2>2. wanted \ r.unread = wanted
      BY Zenon, <1>1
    <2>3. wanted = Wanted(new.snapshot, new.request)
      BY <1>5
    <2> HIDE DEF r, wanted
    <2> QED BY Zenon, <1>4, <1>5, <2>1, <2>2, <2>3 DEF Answered
  <1>7. Begun(new, past) /\ Opened(new, past)
    BY Zenon, <1>2, <1>4, <1>5 DEF Begun, Opened
  <1> QED BY Zenon, <1>1, <1>2, <1>3, <1>5, <1>6, <1>7, ClientStep DEF ReadOk

LEMMA ReadBindingKeeps ==
    ASSUME QInv, NEW c \in Clients, ReadBinding(c)
    PROVE  QInv'
  <1> DEFINE r == reads[c]
             bound == Bound(r.snapshot, r.request.key)
             wanted == Wanted(r.snapshot, r.request)
             answer == [r.answer EXCEPT !.status = "NotFound"]
             missing == [r EXCEPT !.pc = "done", !.answer = answer]
             found == [r EXCEPT !.pc = "records", !.unread = bound]
  <1>1. r.pc = "key" /\ UNCHANGED <<head, past>>
    BY DEF ReadBinding
  <1>2. /\ Begun(r, past) /\ Opened(r, past) /\ r.plan.kind # "error"
        /\ Keyed(r) /\ IsRead(r)
    BY Zenon, <1>1, ReadUnderWay
  <1>3. /\ r.request.kind = "get" /\ AtCommit(r) /\ r.answer.records = <<>> /\ wanted = bound
    BY Zenon, <1>2 DEF Keyed, Wanted
  <1>4. /\ answer.status = "NotFound" /\ answer.at = r.answer.at
        /\ DOMAIN answer = {"status", "at", "records", "total"}
    BY <1>2 DEF IsRead
  <1>5. CASE bound = {}
    <2>1. reads' = [reads EXCEPT ![c] = missing]
      <3>1. c \in DOMAIN reads
        BY DEF QInv
      <3>2. "pc" \in DOMAIN r /\ "answer" \in DOMAIN r /\ "status" \in DOMAIN r.answer
        BY Zenon, <1>2 DEF IsRead
      <3>3. reads' = [reads EXCEPT ![c] = [@ EXCEPT !.pc = "done", !.answer.status = "NotFound"]]
        BY <1>5 DEF ReadBinding, View
      <3> QED BY <3>1, <3>2, <3>3
    <2> HIDE DEF answer
    <2>2. /\ missing.pc = "done" /\ missing.request = r.request /\ missing.plan = r.plan
          /\ missing.begun = r.begun /\ missing.snapshot = r.snapshot /\ missing.answer = answer
          /\ IsRead(missing)
      BY <1>2, <1>4 DEF IsRead
    <2> HIDE DEF missing
    <2>3. Answered(missing)
      BY Zenon, <1>3, <1>4, <1>5, <2>2 DEF Answered, AtCommit
    <2>4. Begun(missing, past) /\ Opened(missing, past)
      BY Zenon, <1>2, <1>4, <2>2 DEF Begun, Opened
    <2> QED BY Zenon, <1>1, <1>2, <2>1, <2>2, <2>3, <2>4, ClientStep DEF ReadOk
  <1>6. CASE bound # {}
    <2>1. reads' = [reads EXCEPT ![c] = found]
      BY Zenon, <1>6 DEF ReadBinding, View
    <2>2. /\ found.pc = "records" /\ found.request = r.request /\ found.plan = r.plan
          /\ found.begun = r.begun /\ found.snapshot = r.snapshot /\ found.answer = r.answer
          /\ found.unread = bound /\ IsRead(found)
      BY <1>2 DEF IsRead
    <2> HIDE DEF found
    <2>3. Reading(found)
      <3>1. wanted \ found.unread = {} /\ wanted = Wanted(found.snapshot, found.request)
        BY Zenon, <1>3, <2>2
      <3>2. InIdOrder(found.answer.records, found.snapshot, wanted \ found.unread, found.request.names)
        BY Zenon, <1>3, <2>2, <3>1, NoneRead
      <3>3. found.answer.records \in Seq({})
        <4>1. <<>> \in Seq({}) /\ found.answer.records = <<>>
          BY <1>3, <2>2
        <4> QED BY Zenon, <4>1
      <3>4. AtCommit(found) /\ found.request.kind = "get"
        BY Zenon, <1>3, <2>2 DEF AtCommit
      <3>5. found.unread \subseteq wanted /\ wanted # {}
        BY Zenon, <1>3, <1>6, <2>2
      <3> HIDE DEF wanted, r
      <3> QED BY Zenon, <2>2, <3>1, <3>2, <3>3, <3>4, <3>5 DEF Reading
    <2>4. Begun(found, past) /\ Opened(found, past)
      BY Zenon, <1>2, <2>2 DEF Begun, Opened
    <2> QED BY Zenon, <1>1, <1>2, <2>1, <2>2, <2>3, <2>4, ClientStep DEF ReadOk
  <1> QED BY <1>5, <1>6

-----------------------------------------------------------------------------
(* The commits of other clients. *)

LEMMA PublishKeeps ==
    ASSUME QInv, NEW records, NEW next, Publish(records, next),
           next \in Nat, DOMAIN records \subseteq Nat,
           records = [id \in DOMAIN records |-> [key   |-> records[id].key,
                                                 cells |-> records[id].cells]],
           \A id \in DOMAIN records :
              \A f \in DOMAIN records[id].cells : records[id].cells[f] \in Cell
    PROVE  QInv'
  <1> DEFINE new == [commit |-> head.commit + 1, next |-> next, records |-> records]
  <1>1. head' = new /\ past' = Append(past, new) /\ reads' = reads
    BY Zenon DEF Publish
  <1>2. PastOk(past, head) /\ head.commit \in Nat
    BY Zenon, PastFacts DEF QInv
  <1>3. /\ new.commit = head.commit + 1 /\ new.commit \in Nat /\ new.next = next
        /\ new.records = records
    BY <1>2
  <1> HIDE DEF new
  <1>4. IsView(new)
    BY Zenon, <1>3 DEF IsView, Live
  <1>5. /\ PastOk(past', head') /\ \A r : ReadOk(r, past) => ReadOk(r, past')
    BY Zenon, <1>1, <1>2, <1>3, <1>4, PastGrows
  <1> QED BY Zenon, <1>1, <1>5 DEF QInv

LEMMA CellMapsTyped ==
    ASSUME NEW cells \in CellMaps
    PROVE  \A f \in DOMAIN cells : cells[f] \in Cell
  <1>1. PICK names \in SUBSET Fields : cells \in [names -> Cells]
    BY DEF CellMaps
  <1> QED BY <1>1, QueriesAssumption

LEMMA HeadIsView ==
    ASSUME QInv
    PROVE  /\ head.next \in Nat /\ Live(head) \subseteq Nat
           /\ head.records = [id \in Live(head) |-> [key   |-> head.records[id].key,
                                                     cells |-> head.records[id].cells]]
           /\ \A id \in Live(head) :
                 \A f \in DOMAIN head.records[id].cells : head.records[id].cells[f] \in Cell
  BY Zenon, PastFacts DEF QInv, IsView

LEMMA CommitCreateKeeps ==
    ASSUME QInv, NEW key \in Keys, NEW cells \in CellMaps, CommitCreate(key, cells)
    PROVE  QInv'
  <1> DEFINE ids == Live(head) \cup {head.next}
             new == [key |-> key, cells |-> cells]
             records == [id \in ids |-> IF id = head.next THEN new ELSE head.records[id]]
  <1>1. Publish(records, head.next + 1)
    BY Zenon DEF CommitCreate
  <1>2. DOMAIN records = ids /\ ids \subseteq Nat /\ head.next + 1 \in Nat
    BY HeadIsView
  <1>3. \A id \in ids : records[id] = IF id = head.next THEN new ELSE head.records[id]
    BY Zenon
  <1>4. new.key = key /\ new.cells = cells /\ new = [key |-> new.key, cells |-> new.cells]
    OBVIOUS
  <1>5. records = [id \in ids |-> records[id]]
    BY Zenon
  <1> HIDE DEF records, new
  <1>6. ASSUME NEW id \in ids
        PROVE  /\ records[id] = [key |-> records[id].key, cells |-> records[id].cells]
               /\ \A f \in DOMAIN records[id].cells : records[id].cells[f] \in Cell
    <2>1. CASE id = head.next
      <3>1. records[id] = new
        BY <1>3, <2>1
      <3> QED BY <1>4, <3>1, CellMapsTyped
    <2>2. CASE id # head.next
      <3>1. id \in Live(head) /\ records[id] = head.records[id]
        BY <1>3, <2>2
      <3>2. head.records[id] = [key |-> head.records[id].key, cells |-> head.records[id].cells]
        BY Zenon, <3>1, HeadIsView
      <3>3. \A f \in DOMAIN head.records[id].cells : head.records[id].cells[f] \in Cell
        BY Zenon, <3>1, HeadIsView
      <3> QED BY Zenon, <3>1, <3>2, <3>3
    <2> QED BY Zenon, <2>1, <2>2
  <1>7. records = [id \in ids |-> [key |-> records[id].key, cells |-> records[id].cells]]
    BY Zenon, <1>5, <1>6
  <1> HIDE DEF ids
  <1> QED BY Zenon, <1>1, <1>2, <1>6, <1>7, PublishKeeps

LEMMA CommitPatchKeeps ==
    ASSUME QInv, NEW x \in Live(head), NEW cells \in CellMaps, CommitPatch(x, cells)
    PROVE  QInv'
  <1> DEFINE old == head.records[x]
             new == [old EXCEPT !.cells = cells]
             records == [head.records EXCEPT ![x] = new]
  <1>1. old = [key |-> old.key, cells |-> old.cells]
    BY Zenon, HeadIsView
  <1>2. /\ new = [key |-> old.key, cells |-> cells] /\ new.cells = cells
        /\ new = [key |-> new.key, cells |-> new.cells]
    <2> HIDE DEF old
    <2> QED BY <1>1
  <1>3. Publish(records, head.next)
    <2>1. Publish([head.records EXCEPT ![x].cells = cells], head.next)
      BY DEF CommitPatch
    <2> QED BY <2>1
  <1>4. /\ DOMAIN records = Live(head) /\ records = [id \in Live(head) |-> records[id]]
        /\ \A id \in Live(head) : records[id] = IF id = x THEN new ELSE head.records[id]
    BY Zenon, HeadIsView DEF Live
  <1> HIDE DEF records, new
  <1>5. ASSUME NEW id \in Live(head)
        PROVE  /\ records[id] = [key |-> records[id].key, cells |-> records[id].cells]
               /\ \A f \in DOMAIN records[id].cells : records[id].cells[f] \in Cell
    <2>1. CASE id = x
      <3>1. records[id] = new
        BY <1>4, <2>1
      <3> QED BY Zenon, <1>2, <3>1, CellMapsTyped
    <2>2. CASE id # x
      <3>1. records[id] = head.records[id]
        BY <1>4, <2>2
      <3>2. head.records[id] = [key |-> head.records[id].key, cells |-> head.records[id].cells]
        BY Zenon, HeadIsView
      <3>3. \A f \in DOMAIN head.records[id].cells : head.records[id].cells[f] \in Cell
        BY Zenon, HeadIsView
      <3> QED BY Zenon, <3>1, <3>2, <3>3
    <2> QED BY Zenon, <2>1, <2>2
  <1>6. records = [id \in Live(head) |-> [key |-> records[id].key, cells |-> records[id].cells]]
    BY Zenon, <1>4, <1>5
  <1>7. head.next \in Nat /\ Live(head) \subseteq Nat
    BY Zenon, HeadIsView
  <1> QED BY Zenon, <1>3, <1>4, <1>5, <1>6, <1>7, PublishKeeps

LEMMA CommitDeleteKeeps ==
    ASSUME QInv, NEW x \in Live(head), CommitDelete(x)
    PROVE  QInv'
  <1> DEFINE ids == Live(head) \ {x}
             records == [i \in ids |-> head.records[i]]
  <1>1. Publish(records, head.next)
    BY DEF CommitDelete
  <1>2. /\ DOMAIN records = ids /\ ids \subseteq Nat /\ head.next \in Nat
        /\ records = [id \in ids |-> records[id]]
        /\ \A id \in ids : records[id] = head.records[id] /\ id \in Live(head)
    BY Zenon, HeadIsView
  <1> HIDE DEF records, ids
  <1>3. ASSUME NEW id \in ids
        PROVE  /\ records[id] = [key |-> records[id].key, cells |-> records[id].cells]
               /\ \A f \in DOMAIN records[id].cells : records[id].cells[f] \in Cell
    <2>1. records[id] = head.records[id] /\ id \in Live(head)
      BY <1>2
    <2>2. head.records[id] = [key |-> head.records[id].key, cells |-> head.records[id].cells]
      BY Zenon, <2>1, HeadIsView
    <2>3. \A f \in DOMAIN head.records[id].cells : head.records[id].cells[f] \in Cell
      BY Zenon, <2>1, HeadIsView
    <2> QED BY Zenon, <2>1, <2>2, <2>3
  <1>4. records = [id \in ids |-> [key |-> records[id].key, cells |-> records[id].cells]]
    BY <1>2, <1>3
  <1> QED BY <1>1, <1>2, <1>3, <1>4, PublishKeeps

-----------------------------------------------------------------------------
LEMMA QInvInit == Init => QInv
  <1> SUFFICES ASSUME Init PROVE QInv
    OBVIOUS
  <1>1. IsView(head) /\ past = <<head>> /\ reads = [c \in Clients |-> Idle]
    BY QueriesAssumption DEF Init
  <1>2. past \in Seq({head}) /\ Len(past) = 1 /\ past[1] = head
    BY <1>1
  <1>3. \A i \in 1..1 : i = 1
    OBVIOUS
  <1>4. head.commit \in Nat
    BY Zenon, <1>1 DEF IsView
  <1>5. PastOk(past, head)
    <2>1. \E S : past \in Seq(S)
      BY <1>2
    <2>2. \A i \in 1..Len(past) : IsView(past[i]) /\ past[i].commit = past[1].commit + (i - 1)
      BY <1>1, <1>2, <1>3, <1>4
    <2> QED BY <1>2, <2>1, <2>2 DEF PastOk
  <1>6. \A c \in Clients : ReadOk(reads[c], past)
    BY Zenon, <1>1 DEF ReadOk, Idle
  <1>7. reads = [c \in Clients |-> reads[c]]
    BY <1>1
  <1> QED BY <1>5, <1>6, <1>7 DEF QInv

LEMMA QInvStep == QInv /\ [Next]_vars => QInv'
  <1> SUFFICES ASSUME QInv, [Next]_vars PROVE QInv'
    OBVIOUS
  <1>1. CASE UNCHANGED vars
    BY <1>1 DEF vars, QInv
  <1>2. CASE \E c \in Clients : (\E request \in Requests : Begin(c, request)) \/ Step(c)
    <2>1. PICK c \in Clients : (\E request \in Requests : Begin(c, request)) \/ Step(c)
      BY <1>2
    <2> QED BY <2>1, BeginKeeps, OpenKeeps, ReadPostingsKeeps, MatchedKeeps, ReadRecordKeeps,
               FinishKeeps, ReadBindingKeeps DEF Step
  <1>3. CASE \E key \in Keys, cells \in CellMaps : CommitCreate(key, cells)
    BY <1>3, CommitCreateKeeps
  <1>4. CASE \E id \in Live(head) : CommitDelete(id) \/ \E cells \in CellMaps : CommitPatch(id, cells)
    BY <1>4, CommitDeleteKeeps, CommitPatchKeeps
  <1> QED BY <1>1, <1>2, <1>3, <1>4 DEF Next

LEMMA QInvAnswers == QInv => AnswersOneCommit
  <1> SUFFICES ASSUME QInv, NEW c \in Clients, reads[c].pc = "done", reads[c].answer.at # None
               PROVE  LET r      == reads[c]
                          a      == reads[c].answer
                          view   == past[a.at - past[1].commit + 1]
                          wanted == Wanted(view, r.request)
                      IN /\ r.begun <= a.at /\ a.at <= head.commit
                         /\ IF r.request.commit \notin {None, a.at} THEN a.status = "CommitUnavailable"
                            ELSE IF r.request.kind = "get" /\ wanted = {} THEN a.status = "NotFound"
                            ELSE /\ a.status = "ok"
                                 /\ r.request.kind # "get" => a.total = Cardinality(wanted)
                                 /\ r.request.kind # "count" =>
                                       InIdOrder(a.records, view, wanted, r.request.names)
    BY Zenon DEF AnswersOneCommit
  <1> DEFINE r == reads[c]
  <1>1. Opened(r, past) /\ Answered(r)
    BY Zenon DEF QInv, ReadOk, Refused, Planned, Matching, Keyed, Reading
  <1>2. /\ Len(past) \in Nat /\ past[1].commit \in Nat /\ head.commit \in Nat
        /\ head.commit = past[1].commit + (Len(past) - 1)
    BY PastFacts DEF QInv
  <1>3. /\ r.answer.at \in Nat /\ r.begun <= r.answer.at
        /\ r.answer.at - past[1].commit + 1 \in 1..Len(past)
        /\ r.snapshot = past[r.answer.at - past[1].commit + 1]
    BY Zenon, <1>1 DEF Opened, ViewAt
  <1>4. r.answer.at <= head.commit
    BY <1>2, <1>3
  <1> QED BY Zenon, <1>1, <1>3, <1>4 DEF Answered

LEMMA QInvRefusals == QInv => RefusedIffMalformed
  <1> SUFFICES ASSUME QInv PROVE RefusedIffMalformed
    OBVIOUS
  <1>1. ASSUME NEW c \in Clients, reads[c].pc # "idle"
        PROVE  /\ reads[c].request \in Requests
               /\ reads[c].pc = "done" /\ reads[c].answer.at = None
                     <=> PlanOf(reads[c].request).kind = "error"
    <2> DEFINE r == reads[c]
    <2>1. /\ Begun(r, past)
          /\ \/ Refused(r)
             \/ r.plan.kind # "error" /\ (Planned(r) \/ Opened(r, past))
      BY Zenon, <1>1 DEF QInv, ReadOk, Planned
    <2>2. r.request \in Requests /\ r.plan = PlanOf(r.request)
      BY Zenon, <2>1 DEF Begun
    <2>3. None \notin Nat
      BY QueriesAssumption
    <2>4. r.pc = "done" /\ r.answer.at = None <=> r.plan.kind = "error"
      BY Zenon, <2>1, <2>3 DEF Refused, Planned, Opened
    <2> QED BY Zenon, <2>2, <2>4
  <1> QED BY Zenon, <1>1, Refusals DEF RefusedIffMalformed

(* Whatever commits land between its storage reads, an answered query, count or
   get is that of one committed state which was the head during the call: exactly
   the matching records, once each, in ID order, and their number. *)
THEOREM AnswersAreOfOneCommit == Spec => []AnswersOneCommit
  <1>1. Spec => []QInv
    BY QInvInit, QInvStep, PTL DEF Spec
  <1> QED BY <1>1, QInvAnswers, PTL

(* Admission refuses exactly the requests that are malformed or not supported,
   before any state is read. *)
THEOREM RefusalsAreExact == Spec => []RefusedIffMalformed
  <1>1. Spec => []QInv
    BY QInvInit, QInvStep, PTL DEF Spec
  <1> QED BY <1>1, QInvRefusals, PTL
=============================================================================
