----------------------------- MODULE MerkleTrie -----------------------------
(***************************************************************************)
(* The compressed trie of crates/merkle: single edits, batches, lookup and *)
(* traversal over a table of immutable branch rows.                        *)
(*                                                                         *)
(* A hash is the term that was hashed, so it is injective.  As in the code *)
(* the hash of a branch leaves out the paths of its leaves, and the owner  *)
(* binds the path in the hash of a leaf.                                   *)
(***************************************************************************)
EXTENDS Commitments, SequencesExt, TLC

CONSTANTS
    Slots,       \* the sixteen nibbles
    Depth,       \* nibbles of a path
    Paths,       \* paths that occur
    Payloads,    \* what the leaf at each path may commit to
    MaxSteps     \* bound on updates

VARIABLES
    root,        \* RootRef
    rows,        \* the branch table: nodes, keyed by their hash
    leaves,      \* the leaves the trie should have (history variable)
    steps        \* updates so far

vars == <<root, rows, leaves, steps>>

(* RootRef and BranchNodeCompact.  prefix is relative to the branch's route. *)
Empty == [kind |-> "Empty"]
Leaf(path, payload) == [kind |-> "Leaf", path |-> path, hash |-> <<path, payload>>]
NoChildren == [s \in Slots |-> Empty]
Node(prefix, children) == [prefix |-> prefix, children |-> children]

Occupied(node) == {s \in Slots : node.children[s] # Empty}

HashOf(node) ==
    [prefix |-> node.prefix,
     state  |-> Occupied(node),
     tree   |-> {s \in Slots : node.children[s].kind = "Branch"},
     hashes |-> [s \in Occupied(node) |-> node.children[s].hash]]

(* path::matched: how many leading nibbles of prefix the path repeats after
   depth nibbles. *)
MatchedIn(prefix, path, depth) ==
    CHOOSE n \in 0..Len(prefix) :
        /\ \A i \in 1..n : prefix[i] = path[depth + i]
        /\ n < Len(prefix) => prefix[n + 1] # path[depth + n + 1]

(* BranchNodeCompact::new and validate_at. *)
ValidAt(node, route) ==
    LET to == route \o node.prefix IN
    /\ \E s, t \in Occupied(node) : s # t
    /\ Len(to) < Depth
    /\ Len(to) + 1 = Depth => \A s \in Slots : node.children[s].kind # "Branch"
    /\ \A s \in Slots : node.children[s].kind = "Leaf" =>
          IsPrefix(Append(to, s), node.children[s].path)

Load(table, ref) == CHOOSE node \in table : HashOf(node) = ref.hash

(* Trie::store: an insert; an equal row may be there already. *)
Store(table, node) ==
    [rows |-> table \cup {node}, root |-> [kind |-> "Branch", hash |-> HashOf(node)]]

(* The first nibble after route in which two paths differ. *)
Diverge(p, q, route) ==
    CHOOSE d \in Len(route)..(Depth - 1) :
        p[d + 1] # q[d + 1] /\ \A i \in Len(route)..(d - 1) : p[i + 1] = q[i + 1]

-----------------------------------------------------------------------------
(* Reading: Trie::get and Walk. *)

RECURSIVE GetAt(_, _, _, _)
GetAt(table, ref, path, route) ==
    CASE ref.kind = "Empty" -> Empty
      [] ref.kind = "Leaf"  -> IF ref.path = path THEN ref ELSE Empty
      [] OTHER ->
            LET node == Load(table, ref)
                to   == route \o node.prefix
            IN IF IsPrefix(to, path)
               THEN GetAt(table, node.children[path[Len(to) + 1]], path,
                          Append(to, path[Len(to) + 1]))
               ELSE Empty

(* The children of a branch as the traversal meets them. *)
ChildrenInOrder(node) ==
    LET slots == SetToSortSeq(Occupied(node), <) IN [i \in DOMAIN slots |-> node.children[slots[i]]]

RECURSIVE WalkFrom(_, _)
WalkFrom(table, stack) ==
    IF stack = <<>> THEN <<>>
    ELSE LET ref == Head(stack) IN
         CASE ref.kind = "Empty" -> WalkFrom(table, Tail(stack))
           [] ref.kind = "Leaf"  -> <<ref>> \o WalkFrom(table, Tail(stack))
           [] OTHER -> WalkFrom(table, ChildrenInOrder(Load(table, ref)) \o Tail(stack))

(* Stands for a row that is not there. *)
Missing == Node(<<>>, NoChildren)

(* The rows a root needs, with the route at which each is read. *)
RECURSIVE Reached(_, _, _)
Reached(table, ref, route) ==
    IF ref.kind # "Branch" THEN {}
    ELSE IF \A node \in table : HashOf(node) # ref.hash THEN {<<Missing, route>>}
    ELSE LET node == Load(table, ref)
             to   == route \o node.prefix
         IN {<<node, route>>} \cup UNION {Reached(table, node.children[s], Append(to, s)) :
                                             s \in Occupied(node)}

-----------------------------------------------------------------------------
(* Trie::edit: one insertion or removal.  Each operator gives the table and the
   root after the edit; new is a Leaf, or Empty to remove. *)

EditLeaf(table, old, path, new, route) ==
    IF old.path = path THEN [rows |-> table, root |-> new]
    ELSE IF new = Empty THEN [rows |-> table, root |-> old]
    ELSE LET d == Diverge(old.path, path, route)
         IN Store(table, Node(SubSeq(path, Len(route) + 1, d),
                              [NoChildren EXCEPT ![old.path[d + 1]] = old, ![path[d + 1]] = new]))

SplitBranchForgetsOld(table, node, new, shared, route) ==   \* faulty variant
    LET old    == Store(table, Node(SubSeq(node.prefix, shared + 2, Len(node.prefix)), node.children))
        parent == Node(SubSeq(node.prefix, 1, shared),
                       [NoChildren EXCEPT ![node.prefix[shared + 1]] = old.root,
                                          ![new.path[Len(route) + shared + 1]] = new])
    IN Store(table, parent)

SplitBranch(table, node, new, shared, route) ==
    LET old    == Store(table, Node(SubSeq(node.prefix, shared + 2, Len(node.prefix)), node.children))
        parent == Node(SubSeq(node.prefix, 1, shared),
                       [NoChildren EXCEPT ![node.prefix[shared + 1]] = old.root,
                                          ![new.path[Len(route) + shared + 1]] = new])
    IN Store(old.rows, parent)

(* A lone leaf is promoted and a lone branch merged with its parent. *)
RebuildKeepsUnary(table, prefix, children) ==               \* faulty variant
    LET active == {s \in Slots : children[s] # Empty} IN
    IF \E s \in active : active = {s} /\ children[s].kind = "Leaf"
    THEN [rows |-> table, root |-> children[CHOOSE s \in active : TRUE]]
    ELSE Store(table, Node(prefix, children))

RebuildBranch(table, prefix, children) ==
    LET active == {s \in Slots : children[s] # Empty}
        slot   == CHOOSE s \in active : TRUE
    IN IF active # {slot} THEN Store(table, Node(prefix, children))
       ELSE IF children[slot].kind = "Leaf" THEN [rows |-> table, root |-> children[slot]]
       ELSE LET child == Load(table, children[slot])
            IN Store(table, Node(Append(prefix, slot) \o child.prefix, child.children))

RECURSIVE Edit(_, _, _, _, _)
Edit(table, ref, path, new, route) ==
    CASE ref.kind = "Empty" -> [rows |-> table, root |-> new]
      [] ref.kind = "Leaf"  -> EditLeaf(table, ref, path, new, route)
      [] OTHER ->
            LET node   == Load(table, ref)
                shared == MatchedIn(node.prefix, path, Len(route))
                to     == route \o node.prefix
                slot   == path[Len(to) + 1]
                child  == Edit(table, node.children[slot], path, new, Append(to, slot))
            IN IF shared < Len(node.prefix)
               THEN IF new = Empty THEN [rows |-> table, root |-> ref]
                    ELSE SplitBranch(table, node, new, shared, route)
               ELSE IF child.root = node.children[slot] THEN [rows |-> table, root |-> ref]
               ELSE RebuildBranch(child.rows, node.prefix,
                                  [node.children EXCEPT ![slot] = child.root])

-----------------------------------------------------------------------------
(* Trie::apply: a batch.  Subtries are Stored references or New nodes, which
   are stored once their parent keeps them beside a sibling.  edits is a
   function from paths to Leaf or None, all of them under route. *)

(* F of each slot.  With @@ TLC evaluates a function once, not at each use. *)
EachSlot(F(_)) == [s \in Slots |-> F(s)] @@ <<>>

Settled(ref) == [new |-> FALSE, ref |-> ref]
New(node) == [new |-> TRUE, node |-> node]

StoreEdited(table, edited) ==
    IF edited.new THEN Store(table, edited.node) ELSE [rows |-> table, root |-> edited.ref]

StoreChildren(table, edited) ==
    LET stored == EachSlot(LAMBDA s : StoreEdited(table, edited[s]))
    IN [rows |-> UNION {stored[s].rows : s \in Slots}, children |-> EachSlot(LAMBDA s : stored[s].root)]

(* The edits of the paths that follow a route. *)
Following(edits, route) ==
    [p \in {q \in DOMAIN edits : IsPrefix(route, q)} |-> edits[p]] @@ <<>>

(* The canonical subtrie of a set of leaves at a route. *)
RECURSIVE Build(_, _, _)
Build(table, ls, route) ==
    IF ls = {} THEN [rows |-> table, edited |-> Settled(Empty)]
    ELSE IF \E l \in ls : ls = {l} THEN [rows |-> table, edited |-> Settled(CHOOSE l \in ls : TRUE)]
    ELSE LET d     == CHOOSE d \in Len(route)..(Depth - 1) :
                        /\ \E k, l \in ls : k.path[d + 1] # l.path[d + 1]
                        /\ \A k, l \in ls : \A i \in Len(route)..(d - 1) : k.path[i + 1] = l.path[i + 1]
             path  == (CHOOSE l \in ls : TRUE).path
             built == EachSlot(LAMBDA s : Build(table, {l \in ls : l.path[d + 1] = s},
                                                Append(SubSeq(path, 1, d), s)))
             kept  == StoreChildren(UNION {built[s].rows : s \in Slots},
                                    EachSlot(LAMBDA s : built[s].edited))
         IN [rows |-> kept.rows,
             edited |-> New(Node(SubSeq(path, Len(route) + 1, d), kept.children))]

Rebuild(table, old, edits, route) ==
    LET put == {edits[p] : p \in {q \in DOMAIN edits : edits[q] # None}}
    IN Build(table, put \cup {l \in old : l.path \notin DOMAIN edits}, route)

CollapseStoresFirst(table, prefix, edited) ==               \* faulty variant
    LET kept   == StoreChildren(table, edited)
        active == {s \in Slots : kept.children[s] # Empty}
        slot   == CHOOSE s \in active : TRUE
        child  == Load(kept.rows, kept.children[slot])
    IN [rows |-> kept.rows,
        edited |-> IF active = {} THEN Settled(Empty)
                   ELSE IF active # {slot} THEN New(Node(prefix, kept.children))
                   ELSE IF kept.children[slot].kind = "Leaf" THEN Settled(kept.children[slot])
                   ELSE New(Node(Append(prefix, slot) \o child.prefix, child.children))]

Collapse(table, prefix, edited) ==
    LET active == {s \in Slots : edited[s] # Settled(Empty)}
        slot   == CHOOSE s \in active : TRUE
        merged(child) == New(Node(Append(prefix, slot) \o child.prefix, child.children))
        kept   == StoreChildren(table, edited)
    IN IF active = {} THEN [rows |-> table, edited |-> Settled(Empty)]
       ELSE IF active # {slot}
       THEN [rows |-> kept.rows, edited |-> New(Node(prefix, kept.children))]
       ELSE [rows |-> table,
             edited |-> IF edited[slot].new THEN merged(edited[slot].node)
                        ELSE IF edited[slot].ref.kind = "Branch"
                        THEN merged(Load(table, edited[slot].ref))
                        ELSE edited[slot]]

(* split_prefix: how much of a prefix the insertions leave to the branch. *)
KeptPrefix(prefix, edits, route) ==
    LET matches == {MatchedIn(prefix, p, Len(route)) :
                      p \in {q \in DOMAIN edits : edits[q] # None}}
    IN CHOOSE n \in matches \cup {Len(prefix)} : \A m \in matches : n <= m

RECURSIVE ApplyAt(_, _, _, _)
ApplyAt(table, subtrie, edits, route) ==
    IF ~subtrie.new /\ subtrie.ref.kind = "Empty" THEN Rebuild(table, {}, edits, route)
    ELSE IF ~subtrie.new /\ subtrie.ref.kind = "Leaf" THEN Rebuild(table, {subtrie.ref}, edits, route)
    ELSE LET node     == IF subtrie.new THEN subtrie.node ELSE Load(table, subtrie.ref)
             kept     == KeptPrefix(node.prefix, edits, route)
             split    == kept < Len(node.prefix)
             lower    == New(Node(SubSeq(node.prefix, kept + 2, Len(node.prefix)), node.children))
             children == EachSlot(LAMBDA s :
                            IF ~split THEN Settled(node.children[s])
                            ELSE IF s = node.prefix[kept + 1] THEN lower ELSE Settled(Empty))
             prefix   == SubSeq(node.prefix, 1, kept)
             to       == route \o prefix
             below(s) == Following(edits, Append(to, s))
             after    == EachSlot(LAMBDA s :
                            IF DOMAIN below(s) = {} THEN [rows |-> table, edited |-> children[s]]
                            ELSE ApplyAt(table, children[s], below(s), Append(to, s)))
             edited   == EachSlot(LAMBDA s : after[s].edited)
         IN IF ~split /\ \A s \in Slots : edited[s] = Settled(node.children[s])
            THEN [rows |-> table, edited |-> subtrie]
            ELSE Collapse(UNION {after[s].rows : s \in Slots}, prefix, edited)

Apply(table, ref, batch) ==
    LET net == Normalize(batch)
        at  == ApplyAt(table, Settled(ref), net, <<>>)
    IN IF DOMAIN net = {} THEN [rows |-> table, root |-> ref] ELSE StoreEdited(at.rows, at.edited)

-----------------------------------------------------------------------------
LeavesOf(content) == {Leaf(p, content[p]) : p \in DOMAIN content}

Contents == UNION {{f \in [P -> UNION {Payloads[p] : p \in P}] : \A p \in P : f[p] \in Payloads[p]} :
                      P \in SUBSET Paths}

(* Any trie that one batch builds from nothing. *)
Init ==
    /\ leaves \in Contents
    /\ LET built == Build({}, LeavesOf(leaves), <<>>)
           new   == StoreEdited(built.rows, built.edited)
       IN rows = new.rows /\ root = new.root
    /\ steps = 0

InsertLeaf(path, payload) ==
    LET new == Edit(rows, root, path, Leaf(path, payload), <<>>) IN
    /\ rows' = new.rows /\ root' = new.root
    /\ leaves' = Override(leaves, [p \in {path} |-> payload])

RemoveLeaf(path) ==
    LET new == Edit(rows, root, path, Empty, <<>>) IN
    /\ rows' = new.rows /\ root' = new.root
    /\ leaves' = Edited(leaves, [p \in {path} |-> None])

(* edits, which may be preceded by removals of the same paths. *)
ApplyBatch(first, edits) ==
    LET leaf(e) == [p \in DOMAIN e |-> IF e[p] = None THEN None ELSE Leaf(p, e[p])]
        new     == Apply(rows, root, <<leaf(first), leaf(edits)>>)
    IN /\ rows' = new.rows /\ root' = new.root
       /\ leaves' = Edited(Edited(leaves, first), edits)

Edits ==
    UNION {{e \in [P -> UNION {Payloads[p] : p \in P} \cup {None}] :
                \A p \in P : e[p] \in Payloads[p] \cup {None}} : P \in SUBSET Paths}

Next ==
    \/ /\ steps < MaxSteps
       /\ steps' = steps + 1
       /\ \/ \E path \in Paths : \E payload \in Payloads[path] : InsertLeaf(path, payload)
          \/ \E path \in Paths : RemoveLeaf(path)
          \/ \E edits \in Edits : \E first \in {<<>>, [p \in DOMAIN edits |-> None]} :
                ApplyBatch(first, edits)
    \/ steps = MaxSteps /\ UNCHANGED vars

Spec == Init /\ [][Next]_vars

-----------------------------------------------------------------------------
(* Properties. *)

(* The one shape of a trie: each branch has the longest prefix its leaves share
   and a child for each next nibble.  Written without tables or edits. *)
RECURSIVE Canonical(_, _)
Canonical(ls, depth) ==
    IF ls = {} THEN Empty
    ELSE IF \E l \in ls : ls = {l} THEN CHOOSE l \in ls : TRUE
    ELSE LET path   == (CHOOSE l \in ls : TRUE).path
             shared == CHOOSE n \in depth..Depth :
                         /\ \A l \in ls : SubSeq(l.path, 1, n) = SubSeq(path, 1, n)
                         /\ \E l \in ls : SubSeq(l.path, 1, n + 1) # SubSeq(path, 1, n + 1)
         IN [kind |-> "Branch",
             hash |-> HashOf(Node(SubSeq(path, depth + 1, shared),
                        EachSlot(LAMBDA s : Canonical({l \in ls : l.path[shared + 1] = s}, shared + 1))))]

(* The root hash is a function of the leaves alone: whatever single edits and
   batches led here, in whatever order, the root is that of the one canonical
   trie of its leaves. *)
RootIsCanonical == root = Canonical(LeavesOf(leaves), 0)

(* Every branch reached from the root is stored and valid where it is reached,
   with two children at least. *)
AllBranchesStored ==
    \A r \in Reached(rows, root, <<>>) : ValidAt(r[1], r[2])

(* No load fails, every path is found by get with the leaf last set there, or not
   found if it was removed, and walk yields all leaves once, in ascending order
   of paths. *)
ReadsAgree ==
    LET walk == WalkFrom(rows, <<root>>)
        Less(p, q) == \E i \in 1..Depth : p[i] < q[i] /\ \A j \in 1..(i - 1) : p[j] = q[j]
    IN /\ AllBranchesStored
       /\ \A p \in Paths : GetAt(rows, root, p, <<>>) =
              IF p \in DOMAIN leaves THEN Leaf(p, leaves[p]) ELSE Empty
       /\ {walk[i] : i \in DOMAIN walk} = LeavesOf(leaves)
       /\ \A i \in 1..(Len(walk) - 1) : Less(walk[i].path, walk[i + 1].path)

(* An update stores no intermediate version of a branch: all new rows belong to
   the new root, and all old rows are kept for the roots before it. *)
NoIntermediateRows ==
    [][/\ rows \subseteq rows'
       /\ rows' \ rows \subseteq {r[1] : r \in Reached(rows', root', <<>>)}]_vars
=============================================================================
