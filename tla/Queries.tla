------------------------------- MODULE Queries ------------------------------
(***************************************************************************)
(* Committed reads while other clients commit: query and count             *)
(* (crates/query/src) and get at the head or at a commit                   *)
(* (crates/record/src/committed.rs).  A read admits its request, opens one *)
(* snapshot, and reads posting lists and records from it, one storage      *)
(* read at a time.  The rows of a committed state are what modules Seal    *)
(* and Records show them to be: postings exact, bindings consistent.       *)
(***************************************************************************)
EXTENDS Integers, Sequences, FiniteSetsExt

CONSTANTS
    Clients,
    Keys,           \* record keys
    Fields,         \* cell names with a term; any other name is refused
    Cells,          \* cells: [ty, value, attribute]
    Requests,       \* what clients ask for
    Starts,         \* committed states at the start
    MaxCommits, MaxId,
    None

VARIABLES
    head,           \* the committed state: [commit, next, records]
    past,           \* committed states, by commit number plus one (history variable)
    reads           \* per client, the read under way or finished last

vars == <<head, past, reads>>

Live(view) == DOMAIN view.records

(* Values stand for encoded values: numbers in the order of the bytes. *)
Cell == [ty : STRING, value : Nat, attribute : BOOLEAN]

Bounded(bound) == bound # None => bound \in [cell : Cell, included : BOOLEAN]

IsFilter(filter) ==
    IF filter.kind = "Range" THEN Bounded(filter.lower) /\ Bounded(filter.upper)
    ELSE filter.values \in Seq(Cell)

IsView(view) ==
    /\ view.commit \in Nat /\ view.next \in Nat /\ Live(view) \subseteq Nat
    /\ view.records = [id \in Live(view) |-> [key   |-> view.records[id].key,
                                              cells |-> view.records[id].cells]]
    /\ \A id \in Live(view) :
          \A f \in DOMAIN view.records[id].cells : view.records[id].cells[f] \in Cell

ASSUME QueriesAssumption ==
    /\ None \notin Nat /\ Cells \subseteq Cell
    /\ \A view \in Starts : IsView(view)
    /\ \A request \in Requests :
          \/ request.kind = "get"
          \/ request.kind \in {"query", "count"} /\ request.unsupported \in BOOLEAN
             /\ IsFilter(request.filter)

(* Index rows: the nonempty posting lists, by term. *)
Term(field, cell) == [field |-> field, ty |-> cell.ty, value |-> cell.value]

Posted(view, id) ==
    {Term(f, view.records[id].cells[f]) :
        f \in {g \in DOMAIN view.records[id].cells : view.records[id].cells[g].attribute}}

IndexTerms(view) == UNION {Posted(view, id) : id \in Live(view)}

Postings(view, term) == {id \in Live(view) : term \in Posted(view, id)}

-----------------------------------------------------------------------------
(* plan.rs: admission.  No state is read.  An Eq filter is an In of one value. *)

Error(status) == [kind |-> "error", status |-> status]

HasTerm(field, ty) == field \in Fields /\ ty # "bytes"

PlanTermsUnchecked(filter) ==                               \* faulty variant
    IF filter.values = <<>> THEN [kind |-> "empty"]
    ELSE [kind |-> "reads",
          terms |-> {Term(filter.field, filter.values[i]) : i \in DOMAIN filter.values}]

PlanTerms(filter) ==
    LET ty == filter.values[1].ty IN
    IF filter.values = <<>>
    THEN IF filter.field \in Fields THEN [kind |-> "empty"] ELSE Error("InvalidArgument")
    ELSE IF \E i \in DOMAIN filter.values : filter.values[i].ty # ty THEN Error("InvalidQuery")
    ELSE IF ~HasTerm(filter.field, ty) THEN Error("InvalidArgument")
    ELSE [kind |-> "reads",
          terms |-> {Term(filter.field, filter.values[i]) : i \in DOMAIN filter.values}]

EmptyBounds(lower, upper) ==
    /\ lower # None /\ upper # None
    /\ IF lower.included /\ upper.included THEN lower.cell.value > upper.cell.value
       ELSE lower.cell.value >= upper.cell.value

PlanRange(filter) ==
    LET ty == IF filter.lower # None THEN filter.lower.cell.ty ELSE filter.upper.cell.ty IN
    IF filter.lower = None /\ filter.upper = None THEN Error("InvalidQuery")
    ELSE IF filter.lower # None /\ filter.upper # None /\ filter.upper.cell.ty # ty
    THEN Error("InvalidQuery")
    ELSE IF ~HasTerm(filter.field, ty) THEN Error("InvalidArgument")
    ELSE IF EmptyBounds(filter.lower, filter.upper) THEN [kind |-> "empty"]
    ELSE [kind |-> "scan", field |-> filter.field, ty |-> ty,
          lower |-> filter.lower, upper |-> filter.upper]

Plan(filter) == IF filter.kind = "Range" THEN PlanRange(filter) ELSE PlanTerms(filter)

-----------------------------------------------------------------------------
(* One read of a client.  The request's commit is None for the head. *)

Idle == [pc |-> "idle"]

Answer(status, at) == [status |-> status, at |-> at, records |-> <<>>, total |-> 0]

PlanOf(request) ==
    CASE request.kind = "get" -> [kind |-> "key"]
      [] request.kind # "get" /\ request.unsupported -> Error("NotImplemented")
      [] OTHER -> Plan(request.filter)

Begin(c, request) ==
    LET plan == PlanOf(request)
    IN /\ reads[c].pc \in {"idle", "done"}
       /\ reads' = [reads EXCEPT ![c] =
              [pc |-> IF plan.kind = "error" THEN "done" ELSE "planned",
               request |-> request, plan |-> plan, begun |-> head.commit, snapshot |-> None,
               last |-> None, matches |-> {}, unread |-> {},
               answer |-> Answer(IF plan.kind = "error" THEN plan.status ELSE "", None)]]
       /\ UNCHANGED <<head, past>>

(* committed_snapshot: begin_read, then the head row of that snapshot. *)
OpenSnapshot(c) ==
    LET r == reads[c]
        gone == r.request.commit # None /\ r.request.commit # head.commit
    IN /\ r.pc = "planned"
       /\ reads' = [reads EXCEPT ![c] =
              [r EXCEPT !.pc = IF gone THEN "done" ELSE IF r.plan.kind = "key" THEN "key" ELSE "match",
                        !.snapshot = head,
                        !.answer = Answer(IF gone THEN "CommitUnavailable" ELSE "", head.commit)]]
       /\ UNCHANGED <<head, past>>

(* What the steps after it read: the snapshot opened. *)
ViewHead(c) == head                                         \* faulty variant

View(c) == reads[c].snapshot

(* The terms a plan reads: its own, or those of the snapshot in its range. *)
InScan(p, t) ==
    /\ t.field = p.field /\ t.ty = p.ty
    /\ p.lower # None => \/ t.value > p.lower.cell.value
                         \/ p.lower.included /\ t.value = p.lower.cell.value
    /\ p.upper # None => \/ t.value < p.upper.cell.value
                         \/ p.upper.included /\ t.value = p.upper.cell.value

TermsOf(p, view) ==
    CASE p.kind = "scan"  -> {t \in IndexTerms(view) : InScan(p, t)}
      [] p.kind = "reads" -> p.terms
      [] p.kind = "empty" -> {}

(* Those not yet read. *)
AheadAgain(c) == TermsOf(reads[c].plan, View(c))            \* faulty variant

Ahead(c) ==
    {t \in TermsOf(reads[c].plan, View(c)) : reads[c].last # None => t.value > reads[c].last}

(* match_set: the postings of the next term join the union. *)
ReadPostings(c) ==
    /\ reads[c].pc = "match" /\ Ahead(c) # {}
    /\ LET t == CHOOSE t \in Ahead(c) : \A u \in Ahead(c) : t.value <= u.value IN
       reads' = [reads EXCEPT ![c].matches = @ \cup Postings(View(c), t), ![c].last = t.value]
    /\ UNCHANGED <<head, past>>

Matched(c) ==
    LET counts == reads[c].request.kind = "count" IN
    /\ reads[c].pc = "match" /\ Ahead(c) = {}
    /\ reads' = [reads EXCEPT ![c].pc = IF counts THEN "done" ELSE "records",
                              ![c].unread = reads[c].matches,
                              ![c].answer.total = Cardinality(reads[c].matches),
                              ![c].answer.status = IF counts THEN "ok" ELSE ""]
    /\ UNCHANGED <<head, past>>

(* read_cells: all cells, or those named by the projection that exist. *)
Projected(record, names) ==
    [key   |-> record.key,
     cells |-> IF names = None THEN record.cells
               ELSE [f \in names \cap DOMAIN record.cells |-> record.cells[f]]]

(* read_committed_by_id of the next match, in ID order. *)
ReadRecord(c) ==
    /\ reads[c].pc = "records" /\ reads[c].unread # {}
    /\ LET read == reads[c]
           id == Min(read.unread)
           record == Projected(View(c).records[id], read.request.names)
       IN reads' = [reads EXCEPT ![c] =
              IF id \in Live(View(c))
              THEN [read EXCEPT !.unread = read.unread \ {id},
                                !.answer.records = Append(read.answer.records, record)]
              ELSE [read EXCEPT !.pc = "done", !.answer.status = "CorruptState"]]
    /\ UNCHANGED <<head, past>>

Finish(c) ==
    /\ reads[c].pc = "records" /\ reads[c].unread = {}
    /\ reads' = [reads EXCEPT ![c].pc = "done", ![c].answer.status = "ok"]
    /\ UNCHANGED <<head, past>>

(* read_committed_by_key: the binding, then the record it names. *)
Bound(view, key) == {id \in Live(view) : view.records[id].key = key}

ReadBinding(c) ==
    LET bound == Bound(View(c), reads[c].request.key) IN
    /\ reads[c].pc = "key"
    /\ reads' = [reads EXCEPT ![c] =
           IF bound = {} THEN [@ EXCEPT !.pc = "done", !.answer.status = "NotFound"]
           ELSE [@ EXCEPT !.pc = "records", !.unread = bound]]
    /\ UNCHANGED <<head, past>>

-----------------------------------------------------------------------------
(* Other clients publish. *)
Publish(records, next) ==
    /\ head.commit < MaxCommits
    /\ head' = [commit |-> head.commit + 1, next |-> next, records |-> records]
    /\ past' = Append(past, head')
    /\ UNCHANGED reads

CommitCreate(key, cells) ==
    /\ Bound(head, key) = {} /\ head.next <= MaxId
    /\ Publish([id \in Live(head) \cup {head.next} |->
                    IF id = head.next THEN [key |-> key, cells |-> cells] ELSE head.records[id]],
               head.next + 1)

CommitPatch(id, cells) == Publish([head.records EXCEPT ![id].cells = cells], head.next)

CommitDelete(id) == Publish([i \in Live(head) \ {id} |-> head.records[i]], head.next)

CellMaps == UNION {[names -> Cells] : names \in SUBSET Fields}

Init ==
    /\ head \in Starts
    /\ past = <<head>>
    /\ reads = [c \in Clients |-> Idle]

Step(c) ==
    OpenSnapshot(c) \/ ReadPostings(c) \/ Matched(c) \/ ReadRecord(c) \/ Finish(c) \/ ReadBinding(c)

Next ==
    \/ \E c \in Clients : (\E request \in Requests : Begin(c, request)) \/ Step(c)
    \/ \E key \in Keys, cells \in CellMaps : CommitCreate(key, cells)
    \/ \E id \in Live(head) : CommitDelete(id) \/ \E cells \in CellMaps : CommitPatch(id, cells)

Spec == Init /\ [][Next]_vars

(* A client's thread keeps running once it has asked. *)
FairSpec == Spec /\ \A c \in Clients : WF_vars(Step(c))

-----------------------------------------------------------------------------
(* Properties. *)

(* The records a filter asks for, stated on the records. *)
Satisfies(cell, filter) ==
    /\ cell.attribute
    /\ IF filter.kind # "Range"
       THEN \E i \in DOMAIN filter.values : /\ cell.ty = filter.values[i].ty
                                            /\ cell.value = filter.values[i].value
       ELSE /\ filter.lower # None =>
                 /\ cell.ty = filter.lower.cell.ty /\ cell.value >= filter.lower.cell.value
                 /\ filter.lower.included \/ cell.value # filter.lower.cell.value
            /\ filter.upper # None =>
                 /\ cell.ty = filter.upper.cell.ty /\ cell.value <= filter.upper.cell.value
                 /\ filter.upper.included \/ cell.value # filter.upper.cell.value

Wanted(view, request) ==
    IF request.kind = "get" THEN Bound(view, request.key)
    ELSE {id \in Live(view) : LET cells == view.records[id].cells IN
              /\ request.filter.field \in DOMAIN cells
              /\ Satisfies(cells[request.filter.field], request.filter)}

(* The records with the given IDs, each once, by increasing ID. *)
InIdOrder(records, view, ids, names) ==
    \E e \in [1..Len(records) -> ids] :
        /\ ids = {e[i] : i \in 1..Len(records)}
        /\ \A i, j \in 1..Len(records) : i < j => e[i] < e[j]
        /\ \A i \in 1..Len(records) : records[i] = Projected(view.records[e[i]], names)

(* An answer is that of one committed state, which was the head at some moment of
   the call: its matching records in ID order, their number, or that the commit
   asked for is another.  Commits between the reads never show. *)
AnswersOneCommit ==
    \A c \in Clients : LET r == reads[c]  a == reads[c].answer IN
        r.pc = "done" /\ a.at # None =>
            LET view   == past[a.at - past[1].commit + 1]
                wanted == Wanted(view, r.request)
            IN /\ r.begun <= a.at /\ a.at <= head.commit
               /\ IF r.request.commit \notin {None, a.at} THEN a.status = "CommitUnavailable"
                  ELSE IF r.request.kind = "get" /\ wanted = {} THEN a.status = "NotFound"
                  ELSE /\ a.status = "ok"
                       /\ r.request.kind # "get" => a.total = Cardinality(wanted)
                       /\ r.request.kind # "count" =>
                             InIdOrder(a.records, view, wanted, r.request.names)

(* A request is refused without a snapshot exactly when it is malformed. *)
WellFormed(filter) ==
    LET cells == IF filter.kind = "Range"
                 THEN {b.cell : b \in {filter.lower, filter.upper} \ {None}}
                 ELSE {filter.values[i] : i \in DOMAIN filter.values}
    IN /\ filter.field \in Fields
       /\ \A a, b \in cells : a.ty = b.ty
       /\ \A cell \in cells : cell.ty # "bytes"
       /\ filter.kind = "Range" => cells # {}

RefusedIffMalformed ==
    \A c \in Clients : LET r == reads[c] IN
        r.pc # "idle" /\ r.request.kind # "get" =>
            (r.pc = "done" /\ r.answer.at = None
                <=> r.request.unsupported \/ ~WellFormed(r.request.filter))

(* Every read is answered, however many commits are published meanwhile. *)
EveryReadAnswered ==
    \A c \in Clients : reads[c].pc \notin {"idle", "done"} ~> reads[c].pc = "done"
=============================================================================
