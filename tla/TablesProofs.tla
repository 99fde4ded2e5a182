----------------------------- MODULE TablesProofs ---------------------------
(***************************************************************************)
(* Proofs about the authenticated tables: that commits keep rows, index    *)
(* and roots together (Seal), and that a batch does what its changes do    *)
(* one after the other (Batches).                                          *)
(***************************************************************************)
EXTENDS MCTables, TLAPS

-----------------------------------------------------------------------------
(* Tables and roots. *)

LEMMA PairOf ==
    ASSUME NEW X, NEW Y, NEW p \in X \X Y
    PROVE  p = <<p[1], p[2]>> /\ p[1] \in X /\ p[2] \in Y
  OBVIOUS

IsTable(f) == f = [k \in DOMAIN f |-> f[k]]

(* Edited writes exactly the edits, and None removes. *)
LEMMA EditedDomain ==
    ASSUME NEW f, NEW e
    PROVE  /\ DOMAIN Edited(f, e) =
                {k \in DOMAIN f \cup DOMAIN e : IF k \in DOMAIN e THEN e[k] # None ELSE f[k] # None}
           /\ \A k \in DOMAIN Edited(f, e) :
                 Edited(f, e)[k] = IF k \in DOMAIN e THEN e[k] ELSE f[k]
           /\ IsTable(Edited(f, e))
  BY DEF Edited, Override, IsTable

LEMMA LookupEdited ==
    ASSUME NEW f, NEW e, NEW k
    PROVE  Lookup(Edited(f, e), k) = IF k \in DOMAIN e THEN e[k] ELSE Lookup(f, k)
  <1> DEFINE g == Edited(f, e)
  <1>1. /\ DOMAIN g = {x \in DOMAIN f \cup DOMAIN e :
                          IF x \in DOMAIN e THEN e[x] # None ELSE f[x] # None}
        /\ \A x \in DOMAIN g : g[x] = IF x \in DOMAIN e THEN e[x] ELSE f[x]
    BY EditedDomain
  <1> HIDE DEF g
  <1>2. Lookup(g, k) = IF k \in DOMAIN e THEN e[k] ELSE Lookup(f, k)
    BY <1>1 DEF Lookup
  <1> QED BY <1>2 DEF g

(* Two tables that hold the same are equal. *)
LEMMA TablesEqual ==
    ASSUME NEW f, NEW g, IsTable(f), IsTable(g), DOMAIN f = DOMAIN g,
           \A k \in DOMAIN f : f[k] = g[k]
    PROVE  f = g
  BY DEF IsTable

(* Of two edits of a key, the second wins. *)
LEMMA NormalizePair ==
    ASSUME NEW f, NEW g
    PROVE  /\ DOMAIN Normalize(<<f, g>>) = DOMAIN f \cup DOMAIN g
           /\ \A k \in DOMAIN f \cup DOMAIN g :
                 Normalize(<<f, g>>)[k] = IF k \in DOMAIN g THEN g[k] ELSE f[k]
  <1> DEFINE edits == <<f, g>>
             last(k) == CHOOSE i \in DOMAIN edits :
                           k \in DOMAIN edits[i]
                           /\ \A j \in DOMAIN edits : k \in DOMAIN edits[j] => j <= i
  <1>1. DOMAIN edits = {1, 2} /\ edits[1] = f /\ edits[2] = g
    OBVIOUS
  <1>2. UNION {DOMAIN edits[i] : i \in DOMAIN edits} = DOMAIN f \cup DOMAIN g
    BY <1>1
  <1>3. ASSUME NEW k \in DOMAIN f \cup DOMAIN g
        PROVE  edits[last(k)][k] = IF k \in DOMAIN g THEN g[k] ELSE f[k]
    <2>1. CASE k \in DOMAIN g
      <3>1. last(k) = 2
        BY <1>1, <2>1
      <3> QED BY <3>1, <2>1
    <2>2. CASE k \notin DOMAIN g
      <3>1. last(k) = 1
        BY <1>1, <2>2
      <3> QED BY <3>1, <2>2
    <2> QED BY <2>1, <2>2
  <1>4. Normalize(edits) = [k \in DOMAIN f \cup DOMAIN g |-> edits[last(k)][k]]
    BY <1>2 DEF Normalize
  <1> QED BY <1>3, <1>4

(* A root that is stored, where it has a branch, reopens from the rows. *)
LEMMA Reopens ==
    ASSUME NEW rows, NEW trie, BranchesStored(trie, RootOf(rows))
    PROVE  Reopen(rows, trie, RootOf(rows)) = RootOf(rows)
  BY Zenon DEF Reopen, RootOf, BranchesStored

LEMMA BranchesAreStored ==
    ASSUME NEW trie, NEW root
    PROVE  BranchesStored(Stored(trie, root), root) /\ trie \subseteq Stored(trie, root)
  BY DEF BranchesStored, Stored

LEMMA RootLeaves ==
    ASSUME NEW leaves
    PROVE  /\ RootOf(leaves).leaves = leaves
           /\ RootOf(leaves).kind = "Empty" <=> DOMAIN leaves = {}
           /\ RootOf(leaves) # None
  BY DEF RootOf, None

-----------------------------------------------------------------------------
(* Bitmaps. *)

(* The containers that a set of IDs has, and those alone. *)
Offsets(S, hi) == {Lo(id) : id \in {x \in S : Hi(x) = hi}}

LeavesFor(S) == [hi \in {Hi(id) : id \in S} |-> Container(Offsets(S, hi))]

(* path::split loses nothing. *)
LEMMA SplitId ==
    ASSUME NEW id \in Nat
    PROVE  Hi(id) \in Nat /\ Lo(id) \in Nat /\ Join(Hi(id), Lo(id)) = id
  BY SealAssumption DEF Hi, Lo, Join

LEMMA SplitInjective ==
    ASSUME NEW a \in Nat, NEW b \in Nat, Hi(a) = Hi(b), Lo(a) = Lo(b)
    PROVE  a = b
  <1>1. Join(Hi(a), Lo(a)) = a /\ Join(Hi(b), Lo(b)) = b
    BY SplitId
  <1> QED BY <1>1

LEMMA ContainerIsRow ==
    ASSUME NEW S
    PROVE  Container(S) # None /\ Container(S).offsets = S
  BY DEF Container, None

LEMMA LeavesForTable ==
    ASSUME NEW S
    PROVE  /\ IsTable(LeavesFor(S))
           /\ DOMAIN LeavesFor(S) = {Hi(id) : id \in S}
           /\ \A hi \in DOMAIN LeavesFor(S) :
                 LeavesFor(S)[hi] = Container(Offsets(S, hi)) /\ LeavesFor(S)[hi] # None
           /\ DOMAIN LeavesFor(S) = {} <=> S = {}
  BY ContainerIsRow DEF LeavesFor, IsTable

(* Reading a bitmap gives the IDs it was made of. *)
LEMMA BitmapOfLeaves ==
    ASSUME NEW S \in SUBSET Nat
    PROVE  Bitmap(RootOf(LeavesFor(S))) = S
  <1> DEFINE leaves == LeavesFor(S)
             pairs == UNION {{hi} \X leaves[hi].offsets : hi \in DOMAIN leaves}
  <1>1. pairs = {<<Hi(id), Lo(id)>> : id \in S}
    <2>1. \A hi \in DOMAIN leaves : leaves[hi].offsets = Offsets(S, hi)
      BY Zenon, LeavesForTable, ContainerIsRow
    <2>2. DOMAIN leaves = {Hi(id) : id \in S}
      BY Zenon, LeavesForTable
    <2> HIDE DEF leaves
    <2>3. pairs \subseteq {<<Hi(id), Lo(id)>> : id \in S}
      BY <2>1, <2>2 DEF Offsets
    <2>4. ASSUME NEW id \in S
          PROVE  <<Hi(id), Lo(id)>> \in pairs
      <3>1. Hi(id) \in DOMAIN leaves /\ Lo(id) \in leaves[Hi(id)].offsets
        BY <2>1, <2>2 DEF Offsets
      <3> QED BY <3>1
    <2> QED BY <2>3, <2>4
  <1>2. Bitmap(RootOf(leaves)) = {Join(p[1], p[2]) : p \in pairs}
    BY RootLeaves DEF Bitmap
  <1> HIDE DEF pairs, leaves
  <1>3. \A id \in S : Join(Hi(id), Lo(id)) = id
    BY SplitId
  <1>4. {Join(p[1], p[2]) : p \in pairs} = {Join(Hi(id), Lo(id)) : id \in S}
    <2>1. \A p \in pairs : \E id \in S : p[1] = Hi(id) /\ p[2] = Lo(id)
      <3> TAKE p \in pairs
      <3>1. PICK id \in S : p = <<Hi(id), Lo(id)>>
        BY <1>1
      <3> QED BY <3>1
    <2>2. \A id \in S : \E p \in pairs : p[1] = Hi(id) /\ p[2] = Lo(id)
      <3> TAKE id \in S
      <3>1. <<Hi(id), Lo(id)>> \in pairs
        BY <1>1
      <3> QED BY <3>1
    <2> QED BY <2>1, <2>2
  <1>5. {Join(Hi(id), Lo(id)) : id \in S} = S
    BY Zenon, <1>3
  <1> QED BY <1>2, <1>4, <1>5 DEF leaves

(* The IDs that the net changes of a batch add to a term, and those they remove. *)
Puts(net, t) == {id \in Nat : <<t, id>> \in DOMAIN net /\ net[<<t, id>>]}
Dels(net, t) == {id \in Nat : <<t, id>> \in DOMAIN net /\ ~net[<<t, id>>]}

IsPostings(net) == \A p \in DOMAIN net : p = <<p[1], p[2]>> /\ p[2] \in Nat

(* BitmapTrie::apply gives the bitmap of the IDs after the changes, whichever
   containers they meet, and no empty container. *)
IsContainersOf(new, net, t, N) ==
    /\ DOMAIN new = {Hi(id) : id \in Puts(net, t) \cup Dels(net, t)}
    /\ \A hi \in DOMAIN new : new[hi] = Offsets(N, hi)

LEMMA ContainersAfter ==
    ASSUME NEW S \in SUBSET Nat, NEW net, NEW t, IsPostings(net)
    PROVE  IsContainersOf(Containers(LeavesFor(S), net, t), net, t,
                          (S \cup Puts(net, t)) \ Dels(net, t))
  <1> SUFFICES ASSUME NEW new, new = Containers(LeavesFor(S), net, t),
                      NEW N, N = (S \cup Puts(net, t)) \ Dels(net, t)
               PROVE  /\ DOMAIN new = {Hi(id) : id \in Puts(net, t) \cup Dels(net, t)}
                      /\ \A hi \in DOMAIN new : new[hi] = Offsets(N, hi)
    BY Zenon DEF IsContainersOf
  <1> DEFINE ids == {p[2] : p \in DOMAIN net}
             put == {id \in ids : <<t, id>> \in DOMAIN net /\ net[<<t, id>>]}
             del == {id \in ids : <<t, id>> \in DOMAIN net /\ ~net[<<t, id>>]}
             leaves == LeavesFor(S)
             old(hi) == IF hi \in DOMAIN leaves THEN leaves[hi].offsets ELSE {}
             after(hi) == (old(hi) \cup {Lo(id) : id \in {x \in put : Hi(x) = hi}})
                             \ {Lo(id) : id \in {x \in del : Hi(x) = hi}}
  <1>1. put = Puts(net, t)
    <2>1. \A id \in Nat : <<t, id>> \in DOMAIN net => id \in ids
      OBVIOUS
    <2>2. ids \subseteq Nat
      BY DEF IsPostings
    <2> QED BY <2>1, <2>2 DEF Puts
  <1>2. del = Dels(net, t)
    <2>1. \A id \in Nat : <<t, id>> \in DOMAIN net => id \in ids
      OBVIOUS
    <2>2. ids \subseteq Nat
      BY DEF IsPostings
    <2> QED BY <2>1, <2>2 DEF Dels
  <1>3. new = [hi \in {Hi(id) : id \in put \cup del} |-> after(hi)]
    BY DEF Containers
  <1>4. \A hi : old(hi) = Offsets(S, hi)
    <2> TAKE hi
    <2>1. CASE hi \in DOMAIN leaves
      BY Zenon, <2>1, LeavesForTable, ContainerIsRow
    <2>2. CASE hi \notin DOMAIN leaves
      <3>0. hi \notin {Hi(id) : id \in S}
        BY Zenon, <2>2, LeavesForTable
      <3>1. \A id \in S : Hi(id) # hi
        BY <3>0
      <3>2. Offsets(S, hi) = {}
        BY <3>1 DEF Offsets
      <3> QED BY <2>2, <3>2
    <2> QED BY <2>1, <2>2
  <1> HIDE DEF put, del, old
  <1>5. ASSUME NEW hi
        PROVE  after(hi) = Offsets(N, hi)
    <2>1. put \subseteq Nat /\ del \subseteq Nat /\ S \subseteq Nat
      BY <1>1, <1>2 DEF Puts, Dels
    <2>2. \A a, b \in Nat : Hi(a) = Hi(b) /\ Lo(a) = Lo(b) => a = b
      BY SplitInjective
    <2>3. N = (S \cup put) \ del
      BY <1>1, <1>2
    <2>4. after(hi) = (Offsets(S, hi) \cup Offsets(put, hi)) \ Offsets(del, hi)
      BY <1>4 DEF Offsets
    <2> HIDE DEF after
    <2>5. (Offsets(S, hi) \cup Offsets(put, hi)) \ Offsets(del, hi)
             \subseteq Offsets((S \cup put) \ del, hi)
      BY Zenon DEF Offsets
    <2>6. Offsets((S \cup put) \ del, hi)
             \subseteq (Offsets(S, hi) \cup Offsets(put, hi)) \ Offsets(del, hi)
      BY <2>1, <2>2 DEF Offsets
    <2> QED BY <2>3, <2>4, <2>5, <2>6
  <1> HIDE DEF after
  <1> QED BY <1>1, <1>2, <1>3, <1>5

LEMMA BitmapAfterIs ==
    ASSUME NEW S \in SUBSET Nat, NEW net, NEW t, IsPostings(net)
    PROVE  BitmapAfter(LeavesFor(S), net, t) =
              RootOf(LeavesFor((S \cup Puts(net, t)) \ Dels(net, t)))
  <1> DEFINE new == Containers(LeavesFor(S), net, t)
             N == (S \cup Puts(net, t)) \ Dels(net, t)
             touched == Puts(net, t) \cup Dels(net, t)
             edits == [hi \in DOMAIN new |-> IF new[hi] = {} THEN None ELSE Container(new[hi])]
             leaves == Edited(LeavesFor(S), edits)
  <1>1. /\ DOMAIN new = {Hi(id) : id \in touched}
        /\ \A hi \in DOMAIN new : new[hi] = Offsets(N, hi)
    <2>1. IsContainersOf(new, net, t, N)
      BY Zenon, ContainersAfter
    <2> HIDE DEF new, N
    <2> QED BY Zenon, <2>1 DEF IsContainersOf
  <1>2. /\ DOMAIN edits = {Hi(id) : id \in touched}
        /\ \A hi \in DOMAIN edits :
              edits[hi] = IF Offsets(N, hi) = {} THEN None ELSE Container(Offsets(N, hi))
    BY <1>1
  <1>3. \A hi : hi \notin DOMAIN edits => Offsets(S, hi) = Offsets(N, hi)
    <2> SUFFICES ASSUME NEW hi, hi \notin DOMAIN edits
                 PROVE  {x \in S : Hi(x) = hi} = {x \in N : Hi(x) = hi}
      BY DEF Offsets
    <2> QED BY <1>2
  <1>4. \A hi : hi \in {Hi(id) : id \in N} <=> Offsets(N, hi) # {}
    BY DEF Offsets
  <1>5. \A hi : hi \in {Hi(id) : id \in S} <=> Offsets(S, hi) # {}
    BY DEF Offsets
  <1> HIDE DEF edits, N
  <1>6. /\ DOMAIN leaves = {hi \in DOMAIN LeavesFor(S) \cup DOMAIN edits :
                IF hi \in DOMAIN edits THEN edits[hi] # None ELSE LeavesFor(S)[hi] # None}
        /\ \A hi \in DOMAIN leaves :
              leaves[hi] = IF hi \in DOMAIN edits THEN edits[hi] ELSE LeavesFor(S)[hi]
        /\ IsTable(leaves)
    BY EditedDomain
  <1> HIDE DEF leaves
  <1>7. DOMAIN leaves = {Hi(id) : id \in N}
    <2>1. \A hi : hi \in DOMAIN leaves <=> Offsets(N, hi) # {}
      BY ZenonT(30), <1>2, <1>3, <1>5, <1>6, LeavesForTable, ContainerIsRow
    <2> QED BY <2>1, <1>4
  <1>8. \A hi \in DOMAIN leaves : leaves[hi] = Container(Offsets(N, hi))
    BY ZenonT(30), <1>2, <1>3, <1>4, <1>6, <1>7, LeavesForTable
  <1>9. leaves = LeavesFor(N)
    <2>1. IsTable(LeavesFor(N)) /\ DOMAIN LeavesFor(N) = DOMAIN leaves
      BY Zenon, <1>7, LeavesForTable
    <2>2. \A hi \in DOMAIN leaves : leaves[hi] = LeavesFor(N)[hi]
      BY Zenon, <1>8, <2>1, LeavesForTable
    <2> QED BY <1>6, <2>1, <2>2, TablesEqual
  <1> QED BY <1>9 DEF BitmapAfter, leaves, edits, N

-----------------------------------------------------------------------------
(* The index. *)

IsPairs(P) == \A p \in P : p = <<p[1], p[2]>> /\ p[2] \in Nat

IdsOf(P, t) == {id \in Nat : <<t, id>> \in P}

(* The rows of table Index for a set of postings, computed from nothing. *)
IndexRows(P) == [t \in {p[1] : p \in P} |-> RootOf(LeavesFor(IdsOf(P, t)))]

PostingsAfter(P, net) ==
    {p \in P \cup DOMAIN net : IF p \in DOMAIN net THEN net[p] ELSE TRUE}

(* The index tables hold the postings P, their root is root, and all of it can
   be read. *)
IndexHolds(ix, root, P) ==
    /\ IsPairs(P)
    /\ ix.rows = IndexRows(P)
    /\ root = RootOf(ix.rows)
    /\ BranchesStored(ix.trie, root)
    /\ \A t \in DOMAIN ix.rows : BitmapStored(ix, ix.rows[t])

Grows(ix, new) ==
    /\ ix.trie \subseteq new.trie
    /\ ix.bitmaps \subseteq new.bitmaps
    /\ ix.containers \subseteq new.containers

LEMMA IndexRowsTable ==
    ASSUME NEW P, IsPairs(P)
    PROVE  /\ IsTable(IndexRows(P))
           /\ \A t : t \in DOMAIN IndexRows(P) <=> IdsOf(P, t) # {}
           /\ \A t \in DOMAIN IndexRows(P) :
                 /\ IndexRows(P)[t] = RootOf(LeavesFor(IdsOf(P, t)))
                 /\ IndexRows(P)[t] # None
                 /\ IndexRows(P)[t].leaves = LeavesFor(IdsOf(P, t))
  <1>1. \A t : t \in {p[1] : p \in P} <=> IdsOf(P, t) # {}
    <2> TAKE t
    <2>1. ASSUME NEW p \in P, p[1] = t
          PROVE  IdsOf(P, t) # {}
      <3>1. p[2] \in Nat /\ <<t, p[2]>> \in P
        BY <2>1 DEF IsPairs
      <3> QED BY <3>1 DEF IdsOf
    <2>2. ASSUME NEW id \in IdsOf(P, t)
          PROVE  t \in {p[1] : p \in P}
      <3>1. <<t, id>> \in P /\ <<t, id>>[1] = t
        BY DEF IdsOf
      <3> QED BY <3>1
    <2> QED BY <2>1, <2>2
  <1> QED BY <1>1, RootLeaves DEF IndexRows, IsTable

LEMMA LeavesOfRows ==
    ASSUME NEW ix, NEW P, IsPairs(P), ix.rows = IndexRows(P), NEW t
    PROVE  LeavesOf(ix, t) = LeavesFor(IdsOf(P, t))
  <1>1. CASE t \in DOMAIN ix.rows
    BY <1>1, IndexRowsTable DEF LeavesOf
  <1>2. CASE t \notin DOMAIN ix.rows
    <2>1. IdsOf(P, t) = {}
      BY <1>2, IndexRowsTable
    <2>2. LeavesFor({}) = [hi \in {} |-> None]
      BY DEF LeavesFor
    <2> QED BY <1>2, <2>1, <2>2 DEF LeavesOf
  <1> QED BY <1>1, <1>2

LEMMA PostingsAfterIds ==
    ASSUME NEW P, IsPairs(P), NEW net, IsPostings(net)
    PROVE  /\ IsPairs(PostingsAfter(P, net))
           /\ \A t : IdsOf(PostingsAfter(P, net), t) =
                        (IdsOf(P, t) \cup Puts(net, t)) \ Dels(net, t)
           /\ \A t : t \notin {p[1] : p \in DOMAIN net} =>
                        IdsOf(PostingsAfter(P, net), t) = IdsOf(P, t)
  <1>1. IsPairs(PostingsAfter(P, net))
    BY DEF IsPairs, PostingsAfter, IsPostings
  <1>2. ASSUME NEW t
        PROVE  IdsOf(PostingsAfter(P, net), t) = (IdsOf(P, t) \cup Puts(net, t)) \ Dels(net, t)
    BY DEF IdsOf, PostingsAfter, Puts, Dels
  <1>3. ASSUME NEW t, t \notin {p[1] : p \in DOMAIN net}
        PROVE  IdsOf(PostingsAfter(P, net), t) = IdsOf(P, t)
    <2>1. \A id : <<t, id>> \notin DOMAIN net
      <3> SUFFICES ASSUME NEW id, <<t, id>> \in DOMAIN net PROVE FALSE
        OBVIOUS
      <3>1. <<t, id>>[1] = t
        OBVIOUS
      <3> QED BY <1>3, <3>1
    <2> QED BY <2>1 DEF IdsOf, PostingsAfter
  <1> QED BY <1>1, <1>2, <1>3

LEMMA BitmapStoredGrows ==
    ASSUME NEW ix, NEW new, Grows(ix, new), NEW root, BitmapStored(ix, root)
    PROVE  BitmapStored(new, root)
  BY DEF Grows, BitmapStored, BranchesStored

(* Index::apply turns the index of some postings into that of the postings after
   the net changes, and removes nothing that an earlier root needs. *)
LEMMA ApplyIndexHolds ==
    ASSUME NEW ix, NEW root, NEW P, IndexHolds(ix, root, P), NEW net, IsPostings(net)
    PROVE  LET new == ApplyIndex(ix, root, net)
           IN IndexHolds(new.index, new.root, PostingsAfter(P, net)) /\ Grows(ix, new.index)
  <1> DEFINE Q == PostingsAfter(P, net)
             changed == ChangedTerms(ix, net)
             after == [t \in changed |-> BitmapAfter(LeavesOf(ix, t), net, t)]
             edits == [t \in DOMAIN after |-> IF after[t].kind = "Empty" THEN None ELSE after[t]]
             rows == Edited(ix.rows, edits)
             branches == {after[t] : t \in {u \in DOMAIN after : after[u].kind = "Branch"}}
             used == UNION {ContainerRows(after[t]) : t \in DOMAIN after}
             new == [rows |-> rows, trie |-> Stored(ix.trie, RootOf(rows)),
                     bitmaps |-> ix.bitmaps \cup branches,
                     containers |-> ix.containers \cup used]
  <1>1. root.leaves = ix.rows
    BY RootLeaves DEF IndexHolds
  <1>2. ApplyIndex(ix, root, net) = [index |-> new, root |-> RootOf(rows)]
    BY Zenon, <1>1 DEF ApplyIndex
  <1>3. /\ IsPairs(P) /\ ix.rows = IndexRows(P)
        /\ \A t \in DOMAIN ix.rows : BitmapStored(ix, ix.rows[t])
    BY DEF IndexHolds
  <1>4. /\ IsPairs(Q)
        /\ \A t : IdsOf(Q, t) = (IdsOf(P, t) \cup Puts(net, t)) \ Dels(net, t)
        /\ \A t : t \notin changed => IdsOf(Q, t) = IdsOf(P, t)
    BY Zenon, <1>3, PostingsAfterIds DEF ChangedTerms
  <1> HIDE DEF Q, changed
  <1>5. ASSUME NEW t \in changed
        PROVE  after[t] = RootOf(LeavesFor(IdsOf(Q, t)))
    <2>1. LeavesOf(ix, t) = LeavesFor(IdsOf(P, t))
      BY <1>3, LeavesOfRows
    <2>2. IdsOf(P, t) \in SUBSET Nat
      BY DEF IdsOf
    <2>3. BitmapAfter(LeavesFor(IdsOf(P, t)), net, t)
            = RootOf(LeavesFor((IdsOf(P, t) \cup Puts(net, t)) \ Dels(net, t)))
      BY <2>2, BitmapAfterIs
    <2> QED BY <1>4, <2>1, <2>3
  <1>6. DOMAIN after = changed
    OBVIOUS
  <1> HIDE DEF after
  <1>7. \A t \in changed : /\ after[t].kind = "Empty" <=> IdsOf(Q, t) = {}
                           /\ after[t] # None
    <2> TAKE t \in changed
    <2>1. after[t] = RootOf(LeavesFor(IdsOf(Q, t)))
      BY <1>5
    <2>2. RootOf(LeavesFor(IdsOf(Q, t))).kind = "Empty" <=> IdsOf(Q, t) = {}
      BY Zenon, RootLeaves, LeavesForTable
    <2> QED BY Zenon, <2>1, <2>2, RootLeaves
  <1>8. /\ DOMAIN edits = changed
        /\ \A t \in changed :
              edits[t] = IF IdsOf(Q, t) = {} THEN None ELSE RootOf(LeavesFor(IdsOf(Q, t)))
    BY Zenon, <1>5, <1>6, <1>7
  <1> HIDE DEF edits
  <1>9. /\ DOMAIN rows = {t \in DOMAIN ix.rows \cup DOMAIN edits :
                IF t \in DOMAIN edits THEN edits[t] # None ELSE ix.rows[t] # None}
        /\ \A t \in DOMAIN rows : rows[t] = IF t \in DOMAIN edits THEN edits[t] ELSE ix.rows[t]
        /\ IsTable(rows)
    BY EditedDomain
  <1> HIDE DEF rows
  <1>10. \A t : t \in DOMAIN rows <=> IdsOf(Q, t) # {}
    <2> TAKE t
    <2>1. CASE t \in changed
      BY <2>1, <1>8, <1>9, RootLeaves
    <2>2. CASE t \notin changed
      BY Zenon, <2>2, <1>3, <1>4, <1>8, <1>9, IndexRowsTable
    <2> QED BY <2>1, <2>2
  <1>11. \A t \in DOMAIN rows : rows[t] = RootOf(LeavesFor(IdsOf(Q, t)))
    <2> TAKE t \in DOMAIN rows
    <2>1. CASE t \in changed
      BY Zenon, <2>1, <1>8, <1>9, <1>10
    <2>2. CASE t \notin changed
      <3>1. t \in DOMAIN ix.rows /\ rows[t] = ix.rows[t] /\ IdsOf(Q, t) = IdsOf(P, t)
        BY Zenon, <2>2, <1>4, <1>8, <1>9
      <3> QED BY Zenon, <3>1, <1>3, IndexRowsTable
    <2> QED BY <2>1, <2>2
  <1>12. rows = IndexRows(Q)
    <2>1. IsTable(IndexRows(Q)) /\ DOMAIN IndexRows(Q) = DOMAIN rows
      <3>1. \A t : t \in DOMAIN IndexRows(Q) <=> t \in DOMAIN rows
        BY Zenon, <1>4, <1>10, IndexRowsTable
      <3> QED BY Zenon, <1>4, <3>1, IndexRowsTable
    <2>2. \A t \in DOMAIN rows : rows[t] = IndexRows(Q)[t]
      BY Zenon, <1>4, <1>11, <2>1, IndexRowsTable
    <2> QED BY Zenon, <1>9, <2>1, <2>2, TablesEqual
  <1>13. Grows(ix, new)
    BY Zenon, BranchesAreStored DEF Grows
  <1>14. ASSUME NEW t \in DOMAIN rows
         PROVE  BitmapStored(new, rows[t])
    <2>1. CASE t \in changed
      <3>1. rows[t] = after[t] /\ rows[t].kind # "Empty"
        BY Zenon, <2>1, <1>5, <1>7, <1>10, <1>11
      <3>2. BranchesStored(new.bitmaps, rows[t])
        BY Zenon, <2>1, <3>1, <1>6 DEF BranchesStored
      <3>3. ContainerRows(rows[t]) \subseteq new.containers
        BY <2>1, <3>1, <1>6
      <3> QED BY Zenon, <3>1, <3>2, <3>3 DEF BitmapStored
    <2>2. CASE t \notin changed
      <3>1. t \in DOMAIN ix.rows /\ rows[t] = ix.rows[t]
        BY Zenon, <2>2, <1>8, <1>9
      <3>2. BitmapStored(ix, rows[t])
        BY <3>1, <1>3
      <3> QED BY Zenon, <3>2, <1>13, BitmapStoredGrows
    <2> QED BY Zenon, <2>1, <2>2
  <1>15. BranchesStored(new.trie, RootOf(rows))
    BY Zenon, BranchesAreStored
  <1>16. new.rows = rows
    BY Zenon
  <1> HIDE DEF new
  <1>17. IndexHolds(new, RootOf(rows), Q)
    BY <1>4, <1>12, <1>14, <1>15, <1>16 DEF IndexHolds
  <1> QED BY <1>2, <1>13, <1>17 DEF Q

-----------------------------------------------------------------------------
(* The inductive invariant of Seal. *)

(* The postings that the attributes among the cells call for. *)
PostingsOf(rows) ==
    {p \in Terms \X Records : Lookup(rows, <<p[2], p[1].name>>) = Attribute(p[1].value)}

IsField(v) == v = Field(v.value) \/ v = Pair(v.value)

IsCellValue(v) == v = None \/ v \in Values \/ IsField(v)

(* The cells are users' values and, elsewhere, fields. *)
CellsAreValues(rows) ==
    \A k \in DOMAIN rows :
        /\ rows[k] # None
        /\ IF k \in UserKeys THEN rows[k] \in Values ELSE IsField(rows[k])

RootsRecorded(rows, h, heads, own) ==
    \A c \in Nat \ own :
        IF c < h.commit_id
        THEN RootsKey(c) \in DOMAIN rows /\ rows[RootsKey(c)] = RootsCell(heads[c + 1])[2]
        ELSE RootsKey(c) \notin DOMAIN rows

HeadRetained(c, ix, h) ==
    /\ BranchesStored(c.trie, h.state_root)
    /\ BranchesStored(ix.trie, h.index_root)
    /\ \A root \in h.bitmaps : BitmapStored(ix, root)

(* The reserved cells: those of genesis, alone at first, and the roots recorded
   by the last commit, which no branch has changed yet. *)
ReservedKept(rows, h, own) ==
    /\ \A k \in DOMAIN GenesisCells : Lookup(rows, k) = GenesisCells[k]
    /\ h.commit_id = 0 => DOMAIN rows = DOMAIN GenesisCells /\ h.index_root.kind = "Empty"
    /\ h.commit_id # 0 => h.commit_id - 1 \in Nat \ own

(* Each root is that of its rows, the index is that of the cells, and the rows
   below the roots of every head are stored. *)
SealInv ==
    /\ head.commit_id \in Nat /\ Len(past) = head.commit_id
    /\ \E S : past \in Seq(S)
    /\ head.state_root = RootOf(cells.rows) /\ BranchesStored(cells.trie, head.state_root)
    /\ CellsAreValues(cells.rows)
    /\ IndexHolds(index, head.index_root, PostingsOf(cells.rows))
    /\ RootsRecorded(cells.rows, head, past, staged)
    /\ ReservedKept(cells.rows, head, staged)
    /\ \A c \in DOMAIN past : HeadRetained(cells, index, past[c])

LEMMA PastAppend ==
    ASSUME NEW heads, \E S : heads \in Seq(S), NEW h
    PROVE  /\ \E S : Append(heads, h) \in Seq(S)
           /\ Len(heads) \in Nat /\ DOMAIN heads = 1..Len(heads)
           /\ Len(Append(heads, h)) = Len(heads) + 1
           /\ DOMAIN Append(heads, h) = 1..(Len(heads) + 1)
           /\ \A i \in DOMAIN heads : Append(heads, h)[i] = heads[i]
           /\ Append(heads, h)[Len(heads) + 1] = h
  <1>1. PICK S : heads \in Seq(S)
    OBVIOUS
  <1>2. heads \in Seq(S \cup {h})
    BY <1>1
  <1>3. Append(heads, h) \in Seq(S \cup {h})
    BY <1>2
  <1> QED BY <1>2, <1>3

LEMMA TermIs ==
    ASSUME NEW k, NEW v, IsCellValue(v), NEW t \in Terms
    PROVE  TermOf(k, v) = t <=> v = Attribute(t.value) /\ k[2] = t.name
  BY DEF TermOf, IsCellValue, IsField, Terms, Values, Attribute, Field, Pair, None

LEMMA TermTyped ==
    ASSUME NEW k, NEW v, IsCellValue(v), TermOf(k, v) # None
    PROVE  /\ v \in Values
           /\ k[2] \in Names => TermOf(k, v) \in Terms
  BY DEF TermOf, IsCellValue, IsField, Terms, Values, Attribute, Field, Pair, None

(* A branch stages users' values and tombstones, under the #roots record fields. *)
IsNet(net) ==
    \A k \in DOMAIN net :
        IF k \in UserKeys THEN net[k] \in Values \cup {None} ELSE net[k] = None \/ IsField(net[k])

LEMMA NetValues ==
    ASSUME NEW rows, CellsAreValues(rows), NEW net, IsNet(net), NEW k
    PROVE  /\ IsCellValue(Lookup(rows, k))
           /\ k \in DOMAIN net => IsCellValue(net[k])
           /\ k \notin UserKeys => TermOf(k, Lookup(rows, k)) = None
           /\ k \notin UserKeys /\ k \in DOMAIN net => TermOf(k, net[k]) = None
  BY DEF CellsAreValues, IsNet, IsCellValue, IsField, Lookup, TermOf, Field, Pair, None

(* The posting p in the net batch pnet of postings, for the net batch net of cells. *)
NetPosting(c, net, pnet, p) ==
    LET k == <<p[2], p[1].name>>
        changes == k \in DOMAIN net /\ TermOf(k, Lookup(c.rows, k)) # TermOf(k, net[k])
        added == changes /\ net[k] = Attribute(p[1].value)
        removed == changes /\ Lookup(c.rows, k) = Attribute(p[1].value)
    IN /\ p \in DOMAIN pnet => p \in Terms \X Records
       /\ p \in Terms \X Records => (p \in DOMAIN pnet <=> added \/ removed)
       /\ p \in DOMAIN pnet => (pnet[p] <=> added)

(* Which postings a net batch of cells adds and removes. *)
LEMMA PostingsNet ==
    ASSUME NEW c, CellsAreValues(c.rows), NEW net, IsNet(net),
           NEW pnet, pnet = Normalize(Postings(c, net)), NEW p
    PROVE  NetPosting(c, net, pnet, p)
  <1> DEFINE before(k) == TermOf(k, Lookup(c.rows, k))
             after(k) == TermOf(k, net[k])
             changed == {k \in ChangedCells(c, net) : before(k) # after(k)}
             removed == {<<before(k), k[1]>> : k \in {x \in changed : before(x) # None}}
             added == {<<after(k), k[1]>> : k \in {x \in changed : after(x) # None}}
             key == <<p[2], p[1].name>>
  <1>1. Postings(c, net) = <<[q \in removed |-> FALSE], [q \in added |-> TRUE]>>
    BY Zenon DEF Postings
  <1>2. /\ DOMAIN pnet = removed \cup added
        /\ \A q \in removed \cup added : pnet[q] <=> q \in added
    <2> DEFINE f == [q \in removed |-> FALSE]
               g == [q \in added |-> TRUE]
    <2>1. DOMAIN f = removed /\ DOMAIN g = added
      BY Zenon
    <2>2. pnet = Normalize(<<f, g>>)
      BY Zenon, <1>1
    <2>3. \A q \in added : g[q] = TRUE
      BY Zenon
    <2>4. \A q \in removed : f[q] = FALSE
      BY Zenon
    <2> HIDE DEF f, g, removed, added
    <2>5. /\ DOMAIN pnet = DOMAIN f \cup DOMAIN g
          /\ \A q \in DOMAIN f \cup DOMAIN g : pnet[q] = IF q \in DOMAIN g THEN g[q] ELSE f[q]
      BY <2>2, NormalizePair
    <2>6. \A q \in added : pnet[q] = TRUE
      BY <2>1, <2>3, <2>5
    <2>7. \A q \in removed \ added : pnet[q] = FALSE
      BY <2>1, <2>4, <2>5
    <2> QED BY Zenon, <2>1, <2>5, <2>6, <2>7
  <1>3. \A k : k \in changed <=> k \in DOMAIN net /\ before(k) # after(k)
    BY DEF ChangedCells
  <1>4. \A k \in changed : k \in UserKeys
    BY <1>3, NetValues
  <1>5. \A k : IsCellValue(Lookup(c.rows, k)) /\ (k \in DOMAIN net => IsCellValue(net[k]))
    BY NetValues
  <1> HIDE DEF changed
  <1>6. ASSUME NEW k \in changed, before(k) # None
        PROVE  /\ <<before(k), k[1]>> \in Terms \X Records
               /\ \A t \in Terms : before(k) = t <=> Lookup(c.rows, k) = Attribute(t.value) /\ k[2] = t.name
    BY Zenon, <1>3, <1>4, <1>5, <1>6, TermTyped, TermIs DEF UserKeys
  <1>7. ASSUME NEW k \in changed, after(k) # None
        PROVE  /\ <<after(k), k[1]>> \in Terms \X Records
               /\ \A t \in Terms : after(k) = t <=> net[k] = Attribute(t.value) /\ k[2] = t.name
    BY Zenon, <1>3, <1>4, <1>5, <1>7, TermTyped, TermIs DEF UserKeys
  <1>8. \A t \in Terms : t # None
    BY DEF Terms, None
  <1>9. p \in removed => p \in Terms \X Records
    BY Zenon, <1>6
  <1>10. p \in added => p \in Terms \X Records
    BY Zenon, <1>7
  <1>11. ASSUME p \in Terms \X Records
         PROVE  /\ p \in removed <=> key \in changed /\ Lookup(c.rows, key) = Attribute(p[1].value)
                /\ p \in added <=> key \in changed /\ net[key] = Attribute(p[1].value)
    <2>1. p = <<p[1], p[2]>> /\ p[1] \in Terms
      BY <1>11
    <2>2. \A k \in changed : k = <<k[1], k[2]>>
      BY <1>4 DEF UserKeys
    <2>3. ASSUME NEW k \in changed, before(k) # None, p = <<before(k), k[1]>>
          PROVE  key = k /\ Lookup(c.rows, k) = Attribute(p[1].value)
      <3>1. p[1] = before(k) /\ p[2] = k[1]
        BY <2>3
      <3>2. Lookup(c.rows, k) = Attribute(p[1].value) /\ k[2] = p[1].name
        BY Zenon, <2>1, <2>3, <3>1, <1>6
      <3>3. k = <<k[1], k[2]>>
        BY <2>2
      <3> QED BY <3>1, <3>2, <3>3
    <2>4. ASSUME NEW k \in changed, after(k) # None, p = <<after(k), k[1]>>
          PROVE  key = k /\ net[k] = Attribute(p[1].value)
      <3>1. p[1] = after(k) /\ p[2] = k[1]
        BY <2>4
      <3>2. net[k] = Attribute(p[1].value) /\ k[2] = p[1].name
        BY Zenon, <2>1, <2>4, <3>1, <1>7
      <3>3. k = <<k[1], k[2]>>
        BY <2>2
      <3> QED BY <3>1, <3>2, <3>3
    <2>5. ASSUME key \in changed, Lookup(c.rows, key) = Attribute(p[1].value)
          PROVE  p \in removed
      <3>1. before(key) = p[1]
        BY <2>1, <2>5, <1>5, TermIs
      <3>2. before(key) # None /\ p = <<before(key), key[1]>>
        BY <2>1, <3>1, <1>8
      <3> HIDE DEF key
      <3> QED BY Zenon, <2>5, <3>2
    <2>6. ASSUME key \in changed, net[key] = Attribute(p[1].value)
          PROVE  p \in added
      <3>1. after(key) = p[1]
        BY <2>1, <2>6, <1>3, <1>5, TermIs
      <3>2. after(key) # None /\ p = <<after(key), key[1]>>
        BY <2>1, <3>1, <1>8
      <3> HIDE DEF key
      <3> QED BY Zenon, <2>6, <3>2
    <2>7. p \in removed => \E k \in changed : before(k) # None /\ p = <<before(k), k[1]>>
      BY Zenon
    <2>8. p \in added => \E k \in changed : after(k) # None /\ p = <<after(k), k[1]>>
      BY Zenon
    <2> HIDE DEF removed, added, key, before, after
    <2> QED BY Zenon, <2>3, <2>4, <2>5, <2>6, <2>7, <2>8
  <1> HIDE DEF removed, added
  <1> QED BY Zenon, <1>2, <1>3, <1>9, <1>10, <1>11 DEF NetPosting

(* The changes of postings that a seal derives from its net batch lead from the
   postings of the cells before to those of the cells after. *)
LEMMA PostingsFollowCells ==
    ASSUME NEW c, CellsAreValues(c.rows), NEW net, IsNet(net)
    PROVE  LET pnet == Normalize(Postings(c, net))
           IN /\ PostingsAfter(PostingsOf(c.rows), pnet) = PostingsOf(Edited(c.rows, net))
              /\ IsPostings(pnet)
  <1> DEFINE pnet == Normalize(Postings(c, net))
             new == Edited(c.rows, net)
             key(p) == <<p[2], p[1].name>>
             changes(p) == /\ key(p) \in DOMAIN net
                           /\ TermOf(key(p), Lookup(c.rows, key(p))) # TermOf(key(p), net[key(p)])
  <1>1. \A p : /\ p \in DOMAIN pnet => p \in Terms \X Records
               /\ p \in Terms \X Records =>
                     (p \in DOMAIN pnet <=>
                        \/ changes(p) /\ net[key(p)] = Attribute(p[1].value)
                        \/ changes(p) /\ Lookup(c.rows, key(p)) = Attribute(p[1].value))
               /\ p \in DOMAIN pnet =>
                     (pnet[p] <=> changes(p) /\ net[key(p)] = Attribute(p[1].value))
    <2>1. pnet = Normalize(Postings(c, net))
      OBVIOUS
    <2> HIDE DEF pnet
    <2> TAKE p
    <2>2. CellsAreValues(c.rows) /\ IsNet(net)
      OBVIOUS
    <2>3. NetPosting(c, net, pnet, p)
      BY Zenon, <2>1, <2>2, PostingsNet
    <2> QED BY Zenon, <2>3 DEF NetPosting
  <1>2. \A k : Lookup(new, k) = IF k \in DOMAIN net THEN net[k] ELSE Lookup(c.rows, k)
    BY LookupEdited
  <1>3. ASSUME NEW p \in Terms \X Records, key(p) \in DOMAIN net, ~changes(p)
        PROVE  Lookup(c.rows, key(p)) = Attribute(p[1].value) <=> net[key(p)] = Attribute(p[1].value)
    <2>1. p[1] \in Terms /\ key(p)[2] = p[1].name
      OBVIOUS
    <2>2. IsCellValue(Lookup(c.rows, key(p))) /\ IsCellValue(net[key(p)])
      BY Zenon, <1>3, NetValues
    <2>3. TermOf(key(p), Lookup(c.rows, key(p))) = TermOf(key(p), net[key(p)])
      BY Zenon, <1>3
    <2> HIDE DEF key
    <2>4. /\ TermOf(key(p), Lookup(c.rows, key(p))) = p[1] <=> Lookup(c.rows, key(p)) = Attribute(p[1].value)
          /\ TermOf(key(p), net[key(p)]) = p[1] <=> net[key(p)] = Attribute(p[1].value)
      BY <2>1, <2>2, TermIs
    <2> QED BY <2>3, <2>4
  <1>4. IsPostings(pnet)
    <2>0. Records \subseteq Nat
      BY SealAssumption
    <2>1. \A p \in Terms \X Records : p = <<p[1], p[2]>> /\ p[2] \in Nat
      BY ZenonT(30), <2>0, PairOf
    <2>2. \A p \in DOMAIN pnet : p \in Terms \X Records
      BY Zenon, <1>1
    <2> HIDE DEF pnet
    <2> QED BY <2>1, <2>2 DEF IsPostings
  <1>5. \A p \in Terms \X Records :
           p \in PostingsOf(new) <=> Lookup(new, key(p)) = Attribute(p[1].value)
    BY DEF PostingsOf
  <1>6. \A p \in Terms \X Records :
           p \in PostingsOf(c.rows) <=> Lookup(c.rows, key(p)) = Attribute(p[1].value)
    BY DEF PostingsOf
  <1>7. /\ PostingsOf(new) \subseteq Terms \X Records
        /\ PostingsOf(c.rows) \subseteq Terms \X Records
    BY DEF PostingsOf
  <1>10. \A p : changes(p) => key(p) \in DOMAIN net
    BY Zenon
  <1> HIDE DEF pnet, new, key, changes
  <1>8. PostingsAfter(PostingsOf(c.rows), pnet) \subseteq Terms \X Records
    BY Zenon, <1>1, <1>7 DEF PostingsAfter
  <1>9. \A p \in Terms \X Records :
           p \in PostingsAfter(PostingsOf(c.rows), pnet) <=> p \in PostingsOf(new)
    <2> TAKE p \in Terms \X Records
    <2>1. p \in PostingsAfter(PostingsOf(c.rows), pnet) <=>
             IF p \in DOMAIN pnet THEN pnet[p] ELSE p \in PostingsOf(c.rows)
      BY DEF PostingsAfter
    <2>2. CASE p \in DOMAIN pnet
      <3>1. pnet[p] <=> net[key(p)] = Attribute(p[1].value)
        BY Zenon, <1>1, <2>2
      <3>2. key(p) \in DOMAIN net
        BY Zenon, <1>1, <1>10, <2>2
      <3> QED BY Zenon, <1>2, <1>5, <2>1, <2>2, <3>1, <3>2
    <2>3. CASE p \notin DOMAIN pnet
      <3>1. p \in PostingsOf(c.rows) <=> Lookup(new, key(p)) = Attribute(p[1].value)
        BY Zenon, <1>1, <1>2, <1>3, <1>6, <2>3
      <3> QED BY Zenon, <1>5, <2>1, <2>3, <3>1
    <2> QED BY <2>2, <2>3
  <1> QED BY <1>4, <1>7, <1>8, <1>9 DEF pnet, new

-----------------------------------------------------------------------------
(* Seal keeps the invariant. *)

LEMMA SealInvInit == Init => SealInv
  <1> SUFFICES ASSUME Init PROVE SealInv
    OBVIOUS
  <1> DEFINE nothing == [t \in {} |-> None]
  <1>1. /\ cells.rows = GenesisCells /\ cells.trie = Stored({}, RootOf(GenesisCells))
        /\ index = [rows |-> nothing, trie |-> {}, bitmaps |-> {}, containers |-> {}]
        /\ head.commit_id = 0 /\ head.state_root = RootOf(GenesisCells)
        /\ head.index_root = RootOf(nothing) /\ past = <<>> /\ staged = {}
    BY Zenon DEF Init
  <1>2. /\ DOMAIN GenesisCells \cap (UserKeys \cup {Roots} \X Nat) = {}
        /\ \A k \in DOMAIN GenesisCells : GenesisCells[k] = Field(GenesisCells[k].value)
    BY Zenon, SealAssumption
  <1>3. \A v : Field(v) # None /\ \A w : Field(v) # Attribute(w)
    BY Zenon DEF Field, Attribute, None
  <1>4. CellsAreValues(cells.rows)
    BY ZenonT(30), <1>1, <1>2, <1>3 DEF CellsAreValues, IsField
  <1>5. PostingsOf(cells.rows) = {}
    <2> SUFFICES ASSUME NEW p \in PostingsOf(cells.rows) PROVE FALSE
      OBVIOUS
    <2> DEFINE k == <<p[2], p[1].name>>
    <2>1. Lookup(GenesisCells, k) = Attribute(p[1].value)
      BY Zenon, <1>1 DEF PostingsOf
    <2>2. Attribute(p[1].value) # None
      BY Zenon DEF Attribute, None
    <2>3. k \in DOMAIN GenesisCells /\ GenesisCells[k] = Attribute(p[1].value)
      BY Zenon, <2>1, <2>2 DEF Lookup
    <2> QED BY Zenon, <2>3, <1>2, <1>3
  <1>6. IndexHolds(index, head.index_root, {})
    <2>1. IndexRows({}) = nothing /\ DOMAIN nothing = {}
      BY DEF IndexRows
    <2> HIDE DEF nothing
    <2>2. RootOf(nothing).kind = "Empty"
      BY Zenon, <2>1 DEF RootOf
    <2> QED BY Zenon, <1>1, <2>1, <2>2 DEF IndexHolds, IsPairs, BranchesStored
  <1>7. RootsRecorded(cells.rows, head, past, staged)
    <2>1. \A c \in Nat : RootsKey(c) \in {Roots} \X Nat /\ ~(c < 0)
      BY DEF RootsKey
    <2> QED BY Zenon, <1>1, <1>2, <2>1 DEF RootsRecorded
  <1>8. BranchesStored(cells.trie, head.state_root)
    BY Zenon, <1>1, BranchesAreStored
  <1>9. Len(past) = 0 /\ past \in Seq({}) /\ DOMAIN past = {}
    BY <1>1
  <1>10. head.commit_id = Len(past) /\ head.commit_id \in Nat
    BY <1>1, <1>9
  <1>11. ReservedKept(cells.rows, head, staged)
    <2>1. DOMAIN nothing = {}
      OBVIOUS
    <2> HIDE DEF nothing
    <2>2. head.index_root.kind = "Empty"
      BY Zenon, <1>1, <2>1, RootLeaves
    <2>3. head.commit_id = 0 /\ cells.rows = GenesisCells
      BY Zenon, <1>1
    <2> QED BY <2>2, <2>3 DEF ReservedKept, Lookup
  <1> QED BY Zenon, <1>1, <1>4, <1>5, <1>6, <1>7, <1>8, <1>9, <1>10, <1>11 DEF SealInv

(* What a seal applies: the overlay and, over it, the engine's #roots cell.  Under
   the #roots record no attribute passes. *)
LEMMA NetOfSeal ==
    ASSUME head.commit_id \in Nat, NEW overlay \in Overlays, CellsAreValues(cells.rows),
           NEW net, net = Normalize(Changes(overlay, head)), SealSucceeds(net)
    PROVE  /\ IsNet(net)
           /\ DOMAIN net \subseteq UserKeys \cup {RootsKey(c) : c \in 0..MaxCommit}
                                   \cup {RootsKey(head.commit_id)}
           /\ RootsKey(head.commit_id) \in DOMAIN net
           /\ net[RootsKey(head.commit_id)] = RootsCell(head)[2]
  <1> DEFINE key == RootsKey(head.commit_id)
             cell == [k \in {RootsCell(head)[1]} |-> RootsCell(head)[2]]
             stagable == UserKeys \cup {RootsKey(c) : c \in 0..MaxCommit}
  <1>1. RootsCell(head)[1] = key /\ IsField(RootsCell(head)[2])
    BY DEF RootsCell, IsField, Pair
  <1>2. DOMAIN cell = {key} /\ cell[key] = RootsCell(head)[2]
    BY <1>1
  <1>3. /\ DOMAIN overlay \subseteq stagable
        /\ \A k \in DOMAIN overlay : overlay[k] \in Values \cup {None}
    <2>1. PICK fs \in {[ks -> Values \cup {None}] : ks \in StagedKeys} : overlay \in fs
      BY Zenon DEF Overlays
    <2>2. PICK ks \in StagedKeys : fs = [ks -> Values \cup {None}]
      BY <2>1
    <2>3. ks \subseteq UserKeys \cup {RootsKey(c) : c \in StagedRoots}
      BY DEF StagedKeys
    <2>4. ks \subseteq stagable
      BY Zenon, <2>3, SealAssumption
    <2> QED BY Zenon, <2>1, <2>2, <2>4
  <1>4. net = Normalize(<<overlay, cell>>)
    BY DEF Changes
  <1>5. key \notin UserKeys
    BY SealAssumption DEF RootsKey, UserKeys
  <1>9. \A k \in stagable : k \notin UserKeys => k[2] \notin Names
    <2>1. \A c \in 0..MaxCommit : RootsKey(c)[2] = c /\ c \notin Names
      BY SealAssumption DEF RootsKey
    <2> QED BY Zenon, <2>1
  <1> HIDE DEF cell, key, stagable
  <1>6. /\ DOMAIN net = DOMAIN overlay \cup DOMAIN cell
        /\ \A k \in DOMAIN overlay \cup DOMAIN cell :
              net[k] = IF k \in DOMAIN cell THEN cell[k] ELSE overlay[k]
    BY <1>4, NormalizePair
  <1>7. /\ DOMAIN net \subseteq stagable \cup {key}
        /\ key \in DOMAIN net /\ net[key] = RootsCell(head)[2]
    BY Zenon, <1>2, <1>3, <1>6
  <1>8. \A k \in DOMAIN net : IF k \in UserKeys THEN net[k] \in Values \cup {None}
                              ELSE net[k] = None \/ IsField(net[k])
    <2> TAKE k \in DOMAIN net
    <2>1. CASE k = key
      BY Zenon, <2>1, <1>1, <1>5, <1>7
    <2>2. CASE k # key
      <3>1. k \in stagable /\ net[k] \in Values \cup {None}
        BY Zenon, <2>2, <1>2, <1>3, <1>6, <1>7
      <3>2. CASE k \notin UserKeys /\ k \in ChangedCells(cells, net)
        <4>1. net[k].kind # "Attribute"
          BY Zenon, <1>9, <3>1, <3>2 DEF SealSucceeds, HasTerm
        <4> QED BY <3>1, <3>2, <4>1 DEF Values, Attribute, Field, IsField
      <3>3. CASE k \notin UserKeys /\ k \notin ChangedCells(cells, net)
        <4>1. net[k] = Lookup(cells.rows, k)
          BY Zenon, <3>3 DEF ChangedCells
        <4> QED BY Zenon, <3>3, <4>1 DEF Lookup, CellsAreValues
      <3> QED BY Zenon, <3>1, <3>2, <3>3
    <2> QED BY Zenon, <2>1, <2>2
  <1> QED BY Zenon, <1>7, <1>8 DEF IsNet, key, stagable

LEMMA HeadStaysRetained ==
    ASSUME NEW c, NEW ix, NEW c2, NEW ix2, c.trie \subseteq c2.trie, Grows(ix, ix2),
           NEW h, HeadRetained(c, ix, h)
    PROVE  HeadRetained(c2, ix2, h)
  BY ZenonT(30), BitmapStoredGrows DEF HeadRetained, Grows, BranchesStored

LEMMA SealInvSeal ==
    ASSUME SealInv, NEW overlay \in Overlays, Seal(overlay)
    PROVE  SealInv'
  <1> DEFINE net == Normalize(Changes(overlay, head))
             pnet == Normalize(Postings(cells, net))
             rows == Edited(cells.rows, net)
             newindex == ApplyIndex(index, head.index_root, pnet)
             entry == [commit_id |-> head.commit_id, state_root |-> head.state_root,
                       index_root |-> head.index_root,
                       bitmaps |-> {index.rows[t] : t \in DOMAIN index.rows}]
  <1>0. /\ head.commit_id \in Nat /\ Len(past) = head.commit_id /\ \E S : past \in Seq(S)
        /\ head.state_root = RootOf(cells.rows) /\ BranchesStored(cells.trie, head.state_root)
        /\ CellsAreValues(cells.rows)
        /\ IndexHolds(index, head.index_root, PostingsOf(cells.rows))
        /\ RootsRecorded(cells.rows, head, past, staged)
        /\ ReservedKept(cells.rows, head, staged)
        /\ \A c \in DOMAIN past : HeadRetained(cells, index, past[c])
    BY Zenon DEF SealInv
  <1>b. SealSucceeds(net)
    BY Zenon DEF Seal
  <1>1. /\ IsNet(net)
        /\ DOMAIN net \subseteq UserKeys \cup {RootsKey(c) : c \in 0..MaxCommit}
                                \cup {RootsKey(head.commit_id)}
        /\ RootsKey(head.commit_id) \in DOMAIN net
        /\ net[RootsKey(head.commit_id)] = RootsCell(head)[2]
    BY Zenon, <1>0, <1>b, NetOfSeal
  <1>2. ApplyCells(cells, head.state_root, net)
           = [cells |-> [rows |-> rows, trie |-> Stored(cells.trie, RootOf(rows))], root |-> RootOf(rows)]
    BY Zenon, <1>0, RootLeaves DEF ApplyCells
  <1>3. /\ cells' = [rows |-> rows, trie |-> Stored(cells.trie, RootOf(rows))]
        /\ index' = newindex.index
        /\ head' = [commit_id |-> head.commit_id + 1, state_root |-> RootOf(rows),
                    index_root |-> newindex.root]
        /\ past' = Append(past, entry)
        /\ staged' = (staged \cup {c \in 0..MaxCommit : RootsKey(c) \in ChangedCells(cells, net)})
                         \ {head.commit_id}
    <2> DEFINE newcells == ApplyCells(cells, head.state_root, net)
    <2>1. /\ newcells.cells = [rows |-> rows, trie |-> Stored(cells.trie, RootOf(rows))]
          /\ newcells.root = RootOf(rows)
      BY <1>2
    <2>2. /\ cells' = newcells.cells
          /\ index' = newindex.index
          /\ head' = [commit_id |-> head.commit_id + 1, state_root |-> newcells.root,
                      index_root |-> newindex.root]
          /\ past' = Append(past, entry)
          /\ staged' = (staged \cup {c \in 0..MaxCommit : RootsKey(c) \in ChangedCells(cells, net)})
                           \ {head.commit_id}
      BY Zenon DEF Seal
    <2> HIDE DEF newcells, rows, newindex, entry
    <2> QED BY Zenon, <2>1, <2>2
  <1>c. /\ entry.state_root = head.state_root /\ entry.index_root = head.index_root
        /\ entry.bitmaps = {index.rows[t] : t \in DOMAIN index.rows}
        /\ RootsCell(entry) = RootsCell(head)
    BY DEF RootsCell
  <1> HIDE DEF entry
  <1>a. head.commit_id \in Nat /\ Len(past) = head.commit_id /\ \E S : past \in Seq(S)
    BY Zenon, <1>0
  <1> HIDE DEF net
  <1>4. /\ PostingsAfter(PostingsOf(cells.rows), pnet) = PostingsOf(rows)
        /\ IsPostings(pnet)
    BY Zenon, <1>0, <1>1, PostingsFollowCells
  <1> HIDE DEF pnet
  <1>5. IndexHolds(newindex.index, newindex.root, PostingsOf(rows)) /\ Grows(index, newindex.index)
    BY Zenon, <1>0, <1>4, ApplyIndexHolds
  <1>6. \A k : Lookup(rows, k) = IF k \in DOMAIN net THEN net[k] ELSE Lookup(cells.rows, k)
    BY LookupEdited
  <1>7. /\ DOMAIN rows = {k \in DOMAIN cells.rows \cup DOMAIN net :
                             IF k \in DOMAIN net THEN net[k] # None ELSE cells.rows[k] # None}
        /\ \A k \in DOMAIN rows : rows[k] = IF k \in DOMAIN net THEN net[k] ELSE cells.rows[k]
    BY Zenon, EditedDomain
  <1> HIDE DEF rows, newindex
  <1>8. CellsAreValues(rows)
    BY Zenon, <1>0, <1>1, <1>7 DEF CellsAreValues, IsNet
  <1>9. /\ Len(past) \in Nat /\ DOMAIN past = 1..Len(past)
        /\ \E S : past' \in Seq(S)
        /\ Len(past') = Len(past) + 1 /\ DOMAIN past' = 1..(Len(past) + 1)
        /\ \A i \in DOMAIN past : past'[i] = past[i]
        /\ past'[Len(past) + 1] = entry
    <2> DEFINE new == Append(past, entry)
    <2>1. /\ Len(past) \in Nat /\ DOMAIN past = 1..Len(past)
          /\ \E S : new \in Seq(S)
          /\ Len(new) = Len(past) + 1 /\ DOMAIN new = 1..(Len(past) + 1)
          /\ \A i \in DOMAIN past : new[i] = past[i]
          /\ new[Len(past) + 1] = entry
      <3>1. \E S : past \in Seq(S)
        BY Zenon, <1>a
      <3> QED BY <3>1, PastAppend
    <2>2. past' = new
      BY Zenon, <1>3
    <2> HIDE DEF new
    <2> QED BY Zenon, <2>1, <2>2
  <1>d. /\ \A c \in Nat : RootsKey(c) \notin UserKeys
        /\ \A c, d \in Nat : RootsKey(c) = RootsKey(d) => c = d
        /\ 0..MaxCommit \subseteq Nat
    BY SealAssumption DEF RootsKey, UserKeys
  <1>e. RootsCell(head)[2] # None
    BY DEF RootsCell, Pair, None
  <1>f. \A k \in DOMAIN cells.rows : cells.rows[k] # None
    BY Zenon, <1>0 DEF CellsAreValues
  <1>h. \A k \in DOMAIN net : \/ k \in UserKeys \/ k = RootsKey(head.commit_id)
                               \/ \E d \in 0..MaxCommit : k = RootsKey(d)
    BY <1>1
  <1>10. RootsRecorded(rows, head', past', staged')
    <2>1. head'.commit_id = head.commit_id + 1
      BY Zenon, <1>3
    <2> SUFFICES ASSUME NEW c \in Nat, c \notin staged'
                 PROVE  IF c < head.commit_id + 1
                        THEN /\ RootsKey(c) \in DOMAIN rows
                             /\ rows[RootsKey(c)] = RootsCell(past'[c + 1])[2]
                        ELSE RootsKey(c) \notin DOMAIN rows
      BY Zenon, <2>1 DEF RootsRecorded
    <2>5. CASE c = head.commit_id
      <3>1. past'[c + 1] = entry
        BY Zenon, <2>5, <1>0, <1>9
      <3>2. RootsKey(c) \in DOMAIN rows /\ rows[RootsKey(c)] = RootsCell(head)[2]
        BY Zenon, <2>5, <1>1, <1>7, <1>e
      <3>3. c < head.commit_id + 1
        BY ONLY <2>5, <1>a
      <3> QED BY Zenon, <1>c, <3>1, <3>2, <3>3
    <2>6. CASE c # head.commit_id
      <3>1. c \notin staged /\ ~(c \in 0..MaxCommit /\ RootsKey(c) \in ChangedCells(cells, net))
        BY Zenon, <2>6, <1>3
      <3>7. RootsKey(c) \in DOMAIN net => net[RootsKey(c)] = Lookup(cells.rows, RootsKey(c))
        <4>1. RootsKey(c) \in DOMAIN net => c \in 0..MaxCommit
          BY Zenon, <1>a, <1>d, <1>h, <2>6
        <4> QED BY Zenon, <3>1, <4>1 DEF ChangedCells
      <3>2. c < head.commit_id => past'[c + 1] = past[c + 1]
        <4>1. c < head.commit_id => c + 1 \in 1..Len(past)
          BY ONLY <1>a, c \in Nat
        <4> QED BY Zenon, <4>1, <1>9
      <3>3. IF c < head.commit_id
            THEN RootsKey(c) \in DOMAIN cells.rows /\ cells.rows[RootsKey(c)] = RootsCell(past[c + 1])[2]
            ELSE RootsKey(c) \notin DOMAIN cells.rows
        BY Zenon, <1>0, <3>1 DEF RootsRecorded
      <3>5. /\ RootsKey(c) \in DOMAIN rows <=> RootsKey(c) \in DOMAIN cells.rows
            /\ RootsKey(c) \in DOMAIN rows => rows[RootsKey(c)] = cells.rows[RootsKey(c)]
        BY Zenon, <3>7, <1>f, <1>7 DEF Lookup
      <3>6. c < head.commit_id + 1 <=> c < head.commit_id
        BY ONLY <2>6, <1>a, c \in Nat
      <3> QED BY Zenon, <3>2, <3>3, <3>5, <3>6
    <2> QED BY Zenon, <2>5, <2>6
  <1>g. ReservedKept(rows, head', staged')
    <2>1. /\ head'.commit_id = head.commit_id + 1 /\ head.commit_id \notin staged'
          /\ head.commit_id + 1 # 0 /\ (head.commit_id + 1) - 1 = head.commit_id
      <3>1. head'.commit_id = head.commit_id + 1 /\ head.commit_id \notin staged'
        BY Zenon, <1>3
      <3>2. head.commit_id + 1 # 0 /\ (head.commit_id + 1) - 1 = head.commit_id
        BY ONLY <1>a
      <3> QED BY Zenon, <3>1, <3>2
    <2>2. \A k \in DOMAIN GenesisCells : k \notin DOMAIN net
      <3>1. /\ DOMAIN GenesisCells \cap (UserKeys \cup {Roots} \X Nat) = {}
            /\ \A c \in Nat : RootsKey(c) \in {Roots} \X Nat
        BY SealAssumption DEF RootsKey
      <3>2. ASSUME NEW k \in DOMAIN net PROVE k \in UserKeys \cup {Roots} \X Nat
        <4>1. k \in UserKeys \/ \E d \in Nat : k = RootsKey(d)
          BY Zenon, <1>a, <1>d, <1>h
        <4>2. (\E d \in Nat : k = RootsKey(d)) => k \in {Roots} \X Nat
          BY Zenon, <3>1
        <4> QED BY ONLY <4>1, <4>2
      <3> QED BY Zenon, <3>1, <3>2
    <2>3. \A k \in DOMAIN GenesisCells : Lookup(rows, k) = GenesisCells[k]
      BY Zenon, <1>0, <1>6, <2>2 DEF ReservedKept
    <2> QED BY Zenon, <1>a, <2>1, <2>3 DEF ReservedKept
  <1>11. HeadRetained(cells, index, entry)
    <2>1. head.index_root = RootOf(index.rows) /\ BranchesStored(index.trie, head.index_root)
          /\ \A t \in DOMAIN index.rows : BitmapStored(index, index.rows[t])
      BY Zenon, <1>0 DEF IndexHolds
    <2> QED BY Zenon, <1>0, <1>c, <2>1 DEF HeadRetained
  <1>12. cells.trie \subseteq cells'.trie /\ BranchesStored(cells'.trie, RootOf(rows))
    BY Zenon, <1>3, BranchesAreStored
  <1>13. Grows(index, index')
    BY Zenon, <1>3, <1>5
  <1>14. \A c \in DOMAIN past' : HeadRetained(cells', index', past'[c])
    <2> TAKE c \in DOMAIN past'
    <2>1. c \in DOMAIN past \/ c = Len(past) + 1
      BY ONLY <1>9, c \in DOMAIN past'
    <2>2. HeadRetained(cells, index, past'[c])
      BY Zenon, <1>0, <1>9, <1>11, <2>1
    <2> QED BY Zenon, <2>2, <1>12, <1>13, HeadStaysRetained
  <1>15. cells'.rows = rows /\ head'.state_root = RootOf(rows) /\ head'.commit_id = head.commit_id + 1
         /\ head'.index_root = newindex.root
    BY Zenon, <1>3
  <1>16. head'.commit_id \in Nat /\ Len(past') = head'.commit_id
    BY ONLY <1>a, <1>9, <1>15
  <1>17. IndexHolds(index', head'.index_root, PostingsOf(cells'.rows))
    BY Zenon, <1>3, <1>5, <1>15
  <1> QED BY Zenon, <1>8, <1>9, <1>10, <1>12, <1>14, <1>15, <1>16, <1>17, <1>g DEF SealInv

LEMMA SealInvStep == SealInv /\ [Next]_vars => SealInv'
  <1> SUFFICES ASSUME SealInv, [Next]_vars PROVE SealInv'
    OBVIOUS
  <1>1. ASSUME NEW overlay \in Overlays, Seal(overlay) PROVE SealInv'
    BY <1>1, SealInvSeal
  <1>2. CASE UNCHANGED vars
    BY <1>2 DEF vars, SealInv
  <1>3. CASE Validate
    BY Zenon, <1>2, <1>3 DEF Validate
  <1> QED BY <1>1, <1>2, <1>3 DEF Next

LEMMA SealInvAlways == Spec => []SealInv
  BY SealInvInit, SealInvStep, PTL DEF Spec

(* For any records, names, values, genesis cells, container width and number of
   commits: the roots in head reopen from the tables and commit to their rows, so
   no seal (seal.rs, compute) fails with RootMismatch, and opening (genesis.rs,
   validate_state) accepts every state that commits lead to. *)
THEOREM HeadCommits == Spec => []HeadCommitsToRows
  <1>1. SealInv => HeadCommitsToRows
    <2> SUFFICES ASSUME SealInv
                 PROVE  HeadCommitsToRows
      OBVIOUS
    <2>0. /\ head.commit_id \in Nat /\ head.state_root = RootOf(cells.rows)
          /\ BranchesStored(cells.trie, head.state_root) /\ CellsAreValues(cells.rows)
          /\ head.index_root = RootOf(index.rows)
          /\ RootsRecorded(cells.rows, head, past, staged)
          /\ ReservedKept(cells.rows, head, staged)
      BY Zenon DEF SealInv, IndexHolds
    <2>1. ReopenCells(cells, head.state_root) = RootOf(cells.rows)
      BY Zenon, Reopens DEF SealInv, ReopenCells
    <2>2. ReopenIndex(index, head.index_root) = RootOf(index.rows)
      BY Zenon, Reopens DEF SealInv, IndexHolds, ReopenIndex
    <2>3. \A k : Agrees(cells.rows, cells.trie, head.state_root, k)
      BY Zenon, <2>0, RootLeaves DEF Agrees
    <2>4. head.commit_id # 0 => Lookup(cells.rows, RootsKey(head.commit_id - 1)).kind = "Pair"
      <3> SUFFICES ASSUME head.commit_id # 0
                   PROVE  Lookup(cells.rows, RootsKey(head.commit_id - 1)).kind = "Pair"
        OBVIOUS
      <3> DEFINE c == head.commit_id - 1
      <3>1. c \in Nat \ staged
        BY Zenon, <2>0 DEF ReservedKept
      <3>2. c < head.commit_id
        BY <2>0
      <3> HIDE DEF c
      <3>3. Lookup(cells.rows, RootsKey(c)) = RootsCell(past[c + 1])[2]
        BY Zenon, <2>0, <3>1, <3>2 DEF RootsRecorded, Lookup
      <3>4. RootsCell(past[c + 1])[2].kind = "Pair"
        BY DEF RootsCell, Pair
      <3> QED BY Zenon, <3>3, <3>4 DEF c
    <2>5. ValidState
      <3>1. head.commit_id = 0 => DOMAIN cells.rows = DOMAIN GenesisCells \cup {}
        BY <2>0 DEF ReservedKept
      <3> QED BY Zenon, <2>0, <2>1, <2>2, <2>3, <2>4, <3>1 DEF ValidState, ReservedKept
    <2> QED BY Zenon, <2>1, <2>2, <2>5 DEF HeadCommitsToRows
  <1> QED BY <1>1, SealInvAlways, PTL

(* The index that seal.rs keeps up from the changed cells alone is the one that
   all the committed cells call for, term by term and record by record. *)
THEOREM IndexExact == Spec => []IndexIsExact
  <1>1. SealInv => IndexIsExact
    <2> SUFFICES ASSUME SealInv, NEW t \in Terms
                 PROVE  LET owners == {r \in Records : Lookup(cells.rows, <<r, t.name>>) = Attribute(t.value)}
                        IN IF owners = {} THEN t \notin DOMAIN index.rows
                           ELSE /\ t \in DOMAIN index.rows
                                /\ BitmapStored(index, index.rows[t])
                                /\ Bitmap(index.rows[t]) = owners
      BY Zenon DEF IndexIsExact
    <2> DEFINE owners == {r \in Records : Lookup(cells.rows, <<r, t.name>>) = Attribute(t.value)}
               P == PostingsOf(cells.rows)
    <2>1. /\ IsPairs(P) /\ index.rows = IndexRows(P)
          /\ \A u \in DOMAIN index.rows : BitmapStored(index, index.rows[u])
      BY Zenon DEF SealInv, IndexHolds
    <2>2. Records \subseteq Nat
      BY SealAssumption
    <2>3. IdsOf(P, t) = owners
      BY Zenon, <2>2 DEF IdsOf, PostingsOf
    <2> HIDE DEF P, owners
    <2>4. t \in DOMAIN index.rows <=> owners # {}
      BY Zenon, <2>1, <2>3, IndexRowsTable
    <2>5. t \in DOMAIN index.rows => index.rows[t] = RootOf(LeavesFor(owners))
      BY Zenon, <2>1, <2>3, IndexRowsTable
    <2>6. owners \in SUBSET Nat
      BY Zenon, <2>2 DEF owners
    <2>7. t \in DOMAIN index.rows => Bitmap(index.rows[t]) = owners
      BY <2>5, <2>6, BitmapOfLeaves
    <2> QED BY Zenon, <2>1, <2>4, <2>7 DEF owners
  <1> QED BY <1>1, SealInvAlways, PTL

(* The #roots record (seal.rs, the last change of a seal) has the roots of every
   earlier commit and no others, but where a branch changed one of its cells in
   another commit than the one that writes it. *)
THEOREM RootsRecordComplete == Spec => []RootsOfEveryCommit
  <1>1. SealInv => RootsOfEveryCommit
    BY SealAssumption DEF SealInv, RootsOfEveryCommit, RootsRecorded, Lookup
  <1> QED BY <1>1, SealInvAlways, PTL

(* Copy on write: no branch row of an earlier state, index or bitmap root, and no
   container row of an earlier bitmap, is ever removed. *)
THEOREM HistoryRetained == Spec => []HistoryIsRetained
  <1>1. SealInv => HistoryIsRetained
    BY Zenon DEF SealInv, HistoryIsRetained, HeadRetained
  <1> QED BY <1>1, SealInvAlways, PTL

-----------------------------------------------------------------------------
(* Batches. *)

IsLast(edits, k, i) ==
    /\ i \in DOMAIN edits /\ k \in DOMAIN edits[i]
    /\ \A j \in DOMAIN edits : k \in DOMAIN edits[j] => j <= i

HasLast(edits) == \A i \in DOMAIN edits : \A k \in DOMAIN edits[i] : \E m : IsLast(edits, k, m)

(* What Normalize gives for a key. *)
LEMMA NormalizeAt ==
    ASSUME NEW n \in Nat, NEW edits, DOMAIN edits = 1..n
    PROVE  /\ \A k : k \in DOMAIN Normalize(edits) <=> \E i \in DOMAIN edits : k \in DOMAIN edits[i]
           /\ \A k, m : IsLast(edits, k, m) => Normalize(edits)[k] = edits[m][k]
  <1> DEFINE keys == UNION {DOMAIN edits[i] : i \in DOMAIN edits}
             last(k) == CHOOSE i \in DOMAIN edits :
                           k \in DOMAIN edits[i]
                           /\ \A j \in DOMAIN edits : k \in DOMAIN edits[j] => j <= i
  <1>1. Normalize(edits) = [k \in keys |-> edits[last(k)][k]]
    BY DEF Normalize
  <1>2. \A k : k \in keys <=> \E i \in DOMAIN edits : k \in DOMAIN edits[i]
    OBVIOUS
  <1>3. ASSUME NEW k, NEW m, IsLast(edits, k, m)
        PROVE  last(k) = m
    <2>1. IsLast(edits, k, last(k))
      BY <1>3 DEF IsLast
    <2> HIDE DEF last
    <2> QED BY <1>3, <2>1 DEF IsLast
  <1>4. \A k, m : IsLast(edits, k, m) => k \in keys
    BY <1>2 DEF IsLast
  <1> HIDE DEF keys, last
  <1> QED BY <1>1, <1>2, <1>3, <1>4

(* new is the n edits of old and one more, which wins over all before it and
   leaves the other keys alone. *)
OneMore(n, old, new) ==
    /\ n \in Nat /\ DOMAIN old = 1..n /\ DOMAIN new = 1..(n + 1)
    /\ \A i \in 1..n : new[i] = old[i]
    /\ HasLast(old)

LastWins(n, old, new) ==
    /\ HasLast(new)
    /\ DOMAIN Normalize(new) = DOMAIN Normalize(old) \cup DOMAIN new[n + 1]
    /\ \A k \in DOMAIN Normalize(new) :
          Normalize(new)[k] = IF k \in DOMAIN new[n + 1] THEN new[n + 1][k]
                              ELSE Normalize(old)[k]

LEMMA NormalizeAppend ==
    ASSUME NEW n, NEW old, NEW new, OneMore(n, old, new)
    PROVE  LastWins(n, old, new)
  <1>0. /\ n \in Nat /\ DOMAIN old = 1..n /\ DOMAIN new = 1..(n + 1)
        /\ \A i \in 1..n : new[i] = old[i]
        /\ HasLast(old)
    BY Zenon DEF OneMore
  <1>1. \A k \in DOMAIN new[n + 1] : IsLast(new, k, n + 1)
    BY <1>0 DEF IsLast
  <1>2. \A k, m : IsLast(old, k, m) /\ k \notin DOMAIN new[n + 1] => IsLast(new, k, m)
    BY <1>0 DEF IsLast
  <1>3. HasLast(new)
    BY <1>0, <1>1, <1>2 DEF HasLast
  <1>4. \A k : k \in DOMAIN Normalize(old) <=> \E i \in DOMAIN old : k \in DOMAIN old[i]
    BY <1>0, NormalizeAt
  <1>5. \A k : k \in DOMAIN Normalize(new) <=> \E i \in DOMAIN new : k \in DOMAIN new[i]
    BY <1>0, NormalizeAt
  <1>6. \A k, m : IsLast(old, k, m) => Normalize(old)[k] = old[m][k]
    BY <1>0, NormalizeAt
  <1>7. \A k, m : IsLast(new, k, m) => Normalize(new)[k] = new[m][k]
    BY <1>0, NormalizeAt
  <1>8. \A k : k \in DOMAIN Normalize(new) <=>
                  k \in DOMAIN Normalize(old) \cup DOMAIN new[n + 1]
    BY <1>0, <1>4, <1>5
  <1>9. ASSUME NEW k \in DOMAIN Normalize(new)
        PROVE  Normalize(new)[k] = IF k \in DOMAIN new[n + 1] THEN new[n + 1][k]
                                   ELSE Normalize(old)[k]
    <2>1. CASE k \in DOMAIN new[n + 1]
      BY Zenon, <2>1, <1>1, <1>7
    <2>2. CASE k \notin DOMAIN new[n + 1]
      <3>1. PICK i \in DOMAIN old : k \in DOMAIN old[i]
        BY Zenon, <2>2, <1>4, <1>8
      <3>2. PICK m : IsLast(old, k, m)
        BY Zenon, <1>0, <3>1 DEF HasLast
      <3>3. m \in 1..n
        BY Zenon, <1>0, <3>2 DEF IsLast
      <3> QED BY <2>2, <3>2, <3>3, <1>0, <1>2, <1>6, <1>7
    <2> QED BY Zenon, <2>1, <2>2
  <1> QED BY Zenon, <1>3, <1>8, <1>9 DEF LastWins

(* A table with a second batch of edits on top of a first. *)
Layered(d, e, both) ==
    /\ DOMAIN both = DOMAIN d \cup DOMAIN e
    /\ \A k \in DOMAIN both : both[k] = IF k \in DOMAIN e THEN e[k] ELSE d[k]

LEMMA EditedTwice ==
    ASSUME NEW f, NEW d, NEW e, NEW both, Layered(d, e, both)
    PROVE  Edited(Edited(f, d), e) = Edited(f, both)
  <1>0. /\ DOMAIN both = DOMAIN d \cup DOMAIN e
        /\ \A k \in DOMAIN both : both[k] = IF k \in DOMAIN e THEN e[k] ELSE d[k]
    BY Zenon DEF Layered
  <1> DEFINE g == Edited(f, d)
             h == Edited(g, e)
             b == Edited(f, both)
  <1>1. /\ DOMAIN g = {k \in DOMAIN f \cup DOMAIN d : IF k \in DOMAIN d THEN d[k] # None ELSE f[k] # None}
        /\ \A k \in DOMAIN g : g[k] = IF k \in DOMAIN d THEN d[k] ELSE f[k]
    BY Zenon, EditedDomain
  <1> HIDE DEF g
  <1>2. /\ DOMAIN h = {k \in DOMAIN g \cup DOMAIN e : IF k \in DOMAIN e THEN e[k] # None ELSE g[k] # None}
        /\ \A k \in DOMAIN h : h[k] = IF k \in DOMAIN e THEN e[k] ELSE g[k]
        /\ IsTable(h)
    BY Zenon, EditedDomain
  <1>3. /\ DOMAIN b = {k \in DOMAIN f \cup DOMAIN both :
                           IF k \in DOMAIN both THEN both[k] # None ELSE f[k] # None}
        /\ \A k \in DOMAIN b : b[k] = IF k \in DOMAIN both THEN both[k] ELSE f[k]
        /\ IsTable(b)
    BY Zenon, EditedDomain
  <1> HIDE DEF h, b
  <1>4. \A k : k \in DOMAIN h <=> k \in DOMAIN b
    BY Zenon, <1>0, <1>1, <1>2, <1>3
  <1>5. \A k \in DOMAIN h : h[k] = b[k]
    BY <1>0, <1>1, <1>2, <1>3, <1>4
  <1>6. h = b
    BY Zenon, <1>2, <1>3, <1>4, <1>5, TablesEqual
  <1> QED BY <1>6 DEF h, b, g

(* The definitions of Tables that Batches uses are those that Seal uses. *)
LEMMA SameTables ==
    /\ \A f, e : B!Edited(f, e) = Edited(f, e)
    /\ \A e : B!Normalize(e) = Normalize(e)
    /\ \A f : B!RootOf(f) = RootOf(f)
    /\ \A c, root, net : B!ApplyCells(c, root, net) = ApplyCells(c, root, net)
    /\ \A c, digest : B!ReopenCells(c, digest) = ReopenCells(c, digest)
    /\ B!None = None
  <1>1. B!None = None
    BY Zenon DEF B!None, None
  <1>2. \A f, e : B!Edited(f, e) = Edited(f, e)
    BY DEF B!Edited, Edited, B!Override, Override, B!None, None
  <1>3. \A e : B!Normalize(e) = Normalize(e)
    BY Zenon DEF B!Normalize, Normalize
  <1>4. \A f : B!RootOf(f) = RootOf(f)
    BY Zenon, <1>1 DEF B!RootOf, RootOf
  <1>5. \A nodes, f : B!Stored(nodes, f) = Stored(nodes, f)
    BY Zenon, <1>4 DEF B!Stored, Stored
  <1>6. \A c, root, net : B!ApplyCells(c, root, net) = ApplyCells(c, root, net)
    BY Zenon, <1>2, <1>4, <1>5 DEF B!ApplyCells, ApplyCells
  <1>7. \A rows, trie, digest : B!Reopen(rows, trie, digest) = Reopen(rows, trie, digest)
    BY Zenon, <1>1, <1>4 DEF B!Reopen, Reopen
  <1>8. \A c, digest : B!ReopenCells(c, digest) = ReopenCells(c, digest)
    BY Zenon, <1>7 DEF B!ReopenCells, ReopenCells
  <1> QED BY Zenon, <1>1, <1>2, <1>3, <1>4, <1>6, <1>8

LEMMA SameBitmaps ==
    ASSUME NEW leaves, NEW net, NEW t
    PROVE  B!BitmapAfter(leaves, net, t) = BitmapAfter(leaves, net, t)
  <1> DEFINE new == Containers(leaves, net, t)
             edits == [hi \in DOMAIN new |-> IF new[hi] = {} THEN None ELSE Container(new[hi])]
             instanced == [hi \in DOMAIN new |-> IF new[hi] = {} THEN B!None ELSE B!Container(new[hi])]
  <1>1. B!Containers(leaves, net, t) = new
    BY Zenon DEF B!Containers, Containers, B!Hi, Hi, B!Lo, Lo
  <1>2. B!None = None /\ \A S : B!Container(S) = Container(S)
    BY Zenon DEF B!None, None, B!Container, Container
  <1> HIDE DEF new
  <1>3. instanced = edits
    BY Zenon, <1>2
  <1>4. B!BitmapAfter(leaves, net, t) = B!RootOf(B!Edited(leaves, instanced))
    BY Zenon, <1>1 DEF B!BitmapAfter
  <1>5. BitmapAfter(leaves, net, t) = RootOf(Edited(leaves, edits))
    BY Zenon DEF BitmapAfter, new
  <1> HIDE DEF edits, instanced
  <1> QED BY Zenon, <1>3, <1>4, <1>5, SameTables

LEMMA SameApplyIndex ==
    ASSUME NEW ix, NEW root, NEW net
    PROVE  B!ApplyIndex(ix, root, net) = ApplyIndex(ix, root, net)
  <1> DEFINE after == [t \in ChangedTerms(ix, net) |-> BitmapAfter(LeavesOf(ix, t), net, t)]
             afterB == [t \in B!ChangedTerms(ix, net) |-> B!BitmapAfter(B!LeavesOf(ix, t), net, t)]
             edits == [t \in DOMAIN after |-> IF after[t].kind = "Empty" THEN None ELSE after[t]]
             editsB == [t \in DOMAIN after |-> IF after[t].kind = "Empty" THEN B!None ELSE after[t]]
             used == UNION {ContainerRows(after[t]) : t \in DOMAIN after}
             usedB == UNION {B!ContainerRows(after[t]) : t \in DOMAIN after}
             branches == {after[t] : t \in {u \in DOMAIN after : after[u].kind = "Branch"}}
  <1>1. afterB = after
    <2>1. \A t : B!LeavesOf(ix, t) = LeavesOf(ix, t)
      BY Zenon DEF B!LeavesOf, LeavesOf, B!None, None
    <2>2. B!ChangedTerms(ix, net) = ChangedTerms(ix, net)
      BY DEF B!ChangedTerms, ChangedTerms
    <2> QED BY Zenon, <2>1, <2>2, SameBitmaps
  <1>2. B!None = None /\ (\A r : B!ContainerRows(r) = ContainerRows(r))
        /\ \A trie, r : B!Stored(trie, r) = Stored(trie, r)
    BY Zenon DEF B!None, None, B!ContainerRows, ContainerRows, B!Stored, Stored
  <1>3. ApplyIndex(ix, root, net) =
           [index |-> [rows       |-> Edited(ix.rows, edits),
                       trie       |-> Stored(ix.trie, RootOf(Edited(root.leaves, edits))),
                       bitmaps    |-> ix.bitmaps \cup branches,
                       containers |-> ix.containers \cup used],
            root |-> RootOf(Edited(root.leaves, edits))]
    BY Zenon DEF ApplyIndex
  <1>4. B!ApplyIndex(ix, root, net) =
           [index |-> [rows       |-> B!Edited(ix.rows, editsB),
                       trie       |-> B!Stored(ix.trie, B!RootOf(B!Edited(root.leaves, editsB))),
                       bitmaps    |-> ix.bitmaps \cup branches,
                       containers |-> ix.containers \cup usedB],
            root |-> B!RootOf(B!Edited(root.leaves, editsB))]
    <2> HIDE DEF after
    <2> QED BY ZenonT(30), <1>1 DEF B!ApplyIndex
  <1> HIDE DEF after, afterB, branches
  <1>5. editsB = edits /\ usedB = used
    BY Zenon, <1>2
  <1> HIDE DEF edits, editsB, used, usedB
  <1> QED BY Zenon, <1>2, <1>3, <1>4, <1>5, SameTables

LEMMA SameIndex ==
    /\ \A ix, digest : B!ReopenIndex(ix, digest) = ReopenIndex(ix, digest)
    /\ \A ix, root : B!BitmapStored(ix, root) <=> BitmapStored(ix, root)
    /\ \A root : B!Bitmap(root) = Bitmap(root)
  <1>1. \A ix, digest : B!ReopenIndex(ix, digest) = ReopenIndex(ix, digest)
    BY Zenon DEF B!ReopenIndex, ReopenIndex, B!Reopen, Reopen, B!RootOf, RootOf, B!None, None
  <1>2. \A ix, root : B!BitmapStored(ix, root) <=> BitmapStored(ix, root)
    BY Zenon DEF B!BitmapStored, BitmapStored, B!BranchesStored, BranchesStored, B!ContainerRows, ContainerRows
  <1>3. \A root : B!Bitmap(root) = Bitmap(root)
    BY Zenon DEF B!Bitmap, Bitmap, B!Join, Join
  <1> QED BY <1>1, <1>2, <1>3

(* The tables hold what the batches applied so far have made of them, and the
   history variables what the batch being gathered will make of them. *)
CellBatchInv ==
    /\ batch.cells \in Seq(B!CellChange) /\ HasLast(B!CellEdits(batch.cells))
    /\ IsTable(batchCells.rows)
    /\ \A k \in DOMAIN batchCells.rows : batchCells.rows[k] # None
    /\ state_root = RootOf(batchCells.rows) /\ BranchesStored(batchCells.trie, state_root)
    /\ content = Edited(batchCells.rows, Normalize(B!CellEdits(batch.cells)))

PostingBatchInv ==
    /\ batch.postings \in Seq(B!PostingChange) /\ HasLast(B!PostingEdits(batch.postings))
    /\ \E P \in SUBSET (IndexTerms \X Ids) :
          /\ IndexHolds(batchIndex, index_root, P)
          /\ postings = PostingsAfter(P, Normalize(B!PostingEdits(batch.postings)))

BatchInv ==
    /\ batch = [cells |-> batch.cells, postings |-> batch.postings]
    /\ CellBatchInv /\ PostingBatchInv

LEMMA NoEdits ==
    /\ HasLast(B!CellEdits(<<>>)) /\ HasLast(B!PostingEdits(<<>>))
    /\ DOMAIN Normalize(B!CellEdits(<<>>)) = {} /\ DOMAIN Normalize(B!PostingEdits(<<>>)) = {}
  <1>1. DOMAIN <<>> = {}
    OBVIOUS
  <1>2. DOMAIN B!CellEdits(<<>>) = {}
    BY Zenon, <1>1 DEF B!CellEdits
  <1>3. DOMAIN B!PostingEdits(<<>>) = {}
    BY Zenon, <1>1 DEF B!PostingEdits
  <1>4. ASSUME NEW edits, DOMAIN edits = {}
        PROVE  HasLast(edits) /\ DOMAIN Normalize(edits) = {}
    BY Zenon, <1>4 DEF HasLast, Normalize
  <1> QED BY Zenon, <1>2, <1>3, <1>4

LEMMA NothingEdited ==
    ASSUME NEW f, IsTable(f), \A k \in DOMAIN f : f[k] # None, NEW e, DOMAIN e = {}
    PROVE  Edited(f, e) = f
  <1>1. /\ DOMAIN Edited(f, e) =
              {k \in DOMAIN f \cup DOMAIN e : IF k \in DOMAIN e THEN e[k] # None ELSE f[k] # None}
        /\ \A k \in DOMAIN Edited(f, e) : Edited(f, e)[k] = IF k \in DOMAIN e THEN e[k] ELSE f[k]
        /\ IsTable(Edited(f, e))
    BY Zenon, EditedDomain
  <1>2. DOMAIN Edited(f, e) = DOMAIN f
    BY Zenon, <1>1
  <1>3. \A k \in DOMAIN f : Edited(f, e)[k] = f[k]
    BY Zenon, <1>1, <1>2
  <1> QED BY Zenon, <1>1, <1>2, <1>3, TablesEqual

LEMMA NoPostings ==
    ASSUME NEW P, NEW e, DOMAIN e = {}
    PROVE  PostingsAfter(P, e) = P
  BY DEF PostingsAfter

(* Appending a change to a batch is carrying it out after the others. *)
LEMMA CellEditsAppend ==
    ASSUME NEW changes \in Seq(B!CellChange), HasLast(B!CellEdits(changes)), NEW c \in B!CellChange,
           NEW f
    PROVE  LET longer == B!CellEdits(Append(changes, c))
           IN /\ HasLast(longer)
              /\ Edited(Edited(f, Normalize(B!CellEdits(changes))), [k \in {c.key} |-> c.value])
                    = Edited(f, Normalize(longer))
  <1> DEFINE old == B!CellEdits(changes)
             new == B!CellEdits(Append(changes, c))
             e == [k \in {c.key} |-> c.value]
             n == Len(changes)
  <1>1. /\ n \in Nat /\ DOMAIN old = 1..n /\ DOMAIN new = 1..(n + 1)
        /\ (\A i \in 1..n : new[i] = old[i]) /\ new[n + 1] = e
    <2> DEFINE longer == Append(changes, c)
    <2>1. n \in Nat /\ DOMAIN changes = 1..n /\ DOMAIN longer = 1..(n + 1)
      OBVIOUS
    <2>2. longer[n + 1] = c /\ \A i \in 1..n : longer[i] = changes[i]
      OBVIOUS
    <2> HIDE DEF n, longer
    <2>3. n + 1 \in 1..(n + 1) /\ \A i \in 1..n : i \in 1..(n + 1)
      BY ONLY <2>1
    <2>4. DOMAIN old = 1..n /\ DOMAIN new = 1..(n + 1)
      BY Zenon, <2>1 DEF B!CellEdits, longer
    <2>5. new[n + 1] = e
      BY Zenon, <2>1, <2>2, <2>3 DEF B!CellEdits, longer
    <2>6. \A i \in 1..n : new[i] = old[i]
      BY Zenon, <2>1, <2>2, <2>3 DEF B!CellEdits, longer
    <2> QED BY Zenon, <2>1, <2>4, <2>5, <2>6
  <1> HIDE DEF old, new, e, n
  <1>2. /\ HasLast(new)
        /\ DOMAIN Normalize(new) = DOMAIN Normalize(old) \cup DOMAIN e
        /\ \A k \in DOMAIN Normalize(new) :
              Normalize(new)[k] = IF k \in DOMAIN e THEN e[k] ELSE Normalize(old)[k]
    <2>1. HasLast(old)
      BY DEF old
    <2>2. n \in Nat /\ DOMAIN old = 1..n /\ DOMAIN new = 1..(n + 1)
      BY Zenon, <1>1
    <2>3. \A i \in 1..n : new[i] = old[i]
      BY Zenon, <1>1
    <2>4. OneMore(n, old, new)
      BY Zenon, <2>1, <2>2, <2>3 DEF OneMore
    <2>5. LastWins(n, old, new)
      BY Zenon, <2>4, NormalizeAppend
    <2> QED BY Zenon, <1>1, <2>5 DEF LastWins
  <1>3. Edited(Edited(f, Normalize(old)), e) = Edited(f, Normalize(new))
    <2>1. Layered(Normalize(old), e, Normalize(new))
      BY Zenon, <1>2 DEF Layered
    <2> QED BY <2>1, EditedTwice
  <1> QED BY Zenon, <1>2, <1>3 DEF old, new, e

LEMMA PostingEditsAppend ==
    ASSUME NEW changes \in Seq(B!PostingChange), HasLast(B!PostingEdits(changes)),
           NEW c \in B!PostingChange, NEW P
    PROVE  LET longer == B!PostingEdits(Append(changes, c))
               before == PostingsAfter(P, Normalize(B!PostingEdits(changes)))
           IN /\ HasLast(longer)
              /\ PostingsAfter(P, Normalize(longer))
                    = IF c.present THEN before \cup {c.posting} ELSE before \ {c.posting}
  <1> DEFINE old == B!PostingEdits(changes)
             new == B!PostingEdits(Append(changes, c))
             e == [p \in {c.posting} |-> c.present]
             n == Len(changes)
  <1>1. /\ n \in Nat /\ DOMAIN old = 1..n /\ DOMAIN new = 1..(n + 1)
        /\ (\A i \in 1..n : new[i] = old[i]) /\ new[n + 1] = e
    <2> DEFINE longer == Append(changes, c)
    <2>1. n \in Nat /\ DOMAIN changes = 1..n /\ DOMAIN longer = 1..(n + 1)
      OBVIOUS
    <2>2. longer[n + 1] = c /\ \A i \in 1..n : longer[i] = changes[i]
      OBVIOUS
    <2> HIDE DEF n, longer
    <2>3. n + 1 \in 1..(n + 1) /\ \A i \in 1..n : i \in 1..(n + 1)
      BY ONLY <2>1
    <2>4. DOMAIN old = 1..n /\ DOMAIN new = 1..(n + 1)
      BY Zenon, <2>1 DEF B!PostingEdits, longer
    <2>5. new[n + 1] = e
      BY Zenon, <2>1, <2>2, <2>3 DEF B!PostingEdits, longer
    <2>6. \A i \in 1..n : new[i] = old[i]
      BY Zenon, <2>1, <2>2, <2>3 DEF B!PostingEdits, longer
    <2> QED BY Zenon, <2>1, <2>4, <2>5, <2>6
  <1>2. DOMAIN e = {c.posting} /\ e[c.posting] = c.present
    OBVIOUS
  <1>3. c.present \in BOOLEAN
    BY DEF B!PostingChange
  <1> HIDE DEF old, new, e, n
  <1>4. /\ HasLast(new)
        /\ DOMAIN Normalize(new) = DOMAIN Normalize(old) \cup DOMAIN e
        /\ \A p \in DOMAIN Normalize(new) :
              Normalize(new)[p] = IF p \in DOMAIN e THEN e[p] ELSE Normalize(old)[p]
    <2>1. HasLast(old)
      BY DEF old
    <2>2. n \in Nat /\ DOMAIN old = 1..n /\ DOMAIN new = 1..(n + 1)
      BY Zenon, <1>1
    <2>3. \A i \in 1..n : new[i] = old[i]
      BY Zenon, <1>1
    <2>4. OneMore(n, old, new)
      BY Zenon, <2>1, <2>2, <2>3 DEF OneMore
    <2>5. LastWins(n, old, new)
      BY Zenon, <2>4, NormalizeAppend
    <2> QED BY Zenon, <1>1, <2>5 DEF LastWins
  <1>5. ASSUME NEW p
        PROVE  p \in PostingsAfter(P, Normalize(new)) <=>
                 IF p = c.posting THEN c.present ELSE p \in PostingsAfter(P, Normalize(old))
    <2>1. CASE p = c.posting
      <3>1. p \in DOMAIN Normalize(new) /\ Normalize(new)[p] = c.present
        BY Zenon, <2>1, <1>2, <1>4
      <3> QED BY Zenon, <2>1, <3>1 DEF PostingsAfter
    <2>2. CASE p # c.posting
      <3>1. /\ p \in DOMAIN Normalize(new) <=> p \in DOMAIN Normalize(old)
            /\ p \in DOMAIN Normalize(new) => Normalize(new)[p] = Normalize(old)[p]
        BY Zenon, <2>2, <1>2, <1>4
      <3> QED BY Zenon, <2>2, <3>1 DEF PostingsAfter
    <2> QED BY Zenon, <2>1, <2>2
  <1>6. PostingsAfter(P, Normalize(new)) =
           IF c.present THEN PostingsAfter(P, Normalize(old)) \cup {c.posting}
           ELSE PostingsAfter(P, Normalize(old)) \ {c.posting}
    BY Zenon, <1>3, <1>5
  <1> QED BY Zenon, <1>4, <1>6 DEF old, new

(* The net changes of a batch of postings concern pairs of the index. *)
LEMMA PostingEditsTyped ==
    ASSUME NEW changes \in Seq(B!PostingChange), HasLast(B!PostingEdits(changes)),
           NEW P \in SUBSET (IndexTerms \X Ids)
    PROVE  LET net == Normalize(B!PostingEdits(changes))
           IN IsPostings(net) /\ PostingsAfter(P, net) \in SUBSET (IndexTerms \X Ids)
  <1> DEFINE edits == B!PostingEdits(changes)
             net == Normalize(edits)
  <1>1. /\ Len(changes) \in Nat /\ DOMAIN edits = 1..Len(changes)
        /\ \A i \in DOMAIN edits : DOMAIN edits[i] \subseteq IndexTerms \X Ids
    <2>1. \A i \in 1..Len(changes) : changes[i].posting \in IndexTerms \X Ids
      <3>1. \A i \in 1..Len(changes) : changes[i] \in B!PostingChange
        OBVIOUS
      <3>2. \A c \in B!PostingChange : c.posting \in IndexTerms \X Ids
        BY DEF B!PostingChange
      <3> QED BY Zenon, <3>1, <3>2
    <2>2. DOMAIN edits = 1..Len(changes) /\ \A i \in 1..Len(changes) : DOMAIN edits[i] = {changes[i].posting}
      BY DEF B!PostingEdits
    <2> HIDE DEF edits
    <2> QED BY <2>1, <2>2
  <1> HIDE DEF edits
  <1>2. \A p \in DOMAIN net : p \in IndexTerms \X Ids
    BY Zenon, <1>1, NormalizeAt
  <1>3. \A p \in IndexTerms \X Ids : p = <<p[1], p[2]>> /\ p[2] \in Nat
    BY ZenonT(30), BatchesAssumption, PairOf
  <1> HIDE DEF net
  <1>4. IsPostings(net)
    BY Zenon, <1>2, <1>3 DEF IsPostings
  <1>5. PostingsAfter(P, net) \in SUBSET (IndexTerms \X Ids)
    BY Zenon, <1>2 DEF PostingsAfter
  <1> QED BY <1>4, <1>5 DEF net, edits

LEMMA BatchInvInit == B!Init => BatchInv
  <1> SUFFICES ASSUME B!Init PROVE BatchInv
    OBVIOUS
  <1> DEFINE nothing == [k \in {} |-> None]
  <1>1. /\ batchCells = [rows |-> nothing, trie |-> {}]
        /\ batchIndex = [rows |-> nothing, trie |-> {}, bitmaps |-> {}, containers |-> {}]
        /\ state_root = RootOf(nothing) /\ index_root = RootOf(nothing)
        /\ batch = [cells |-> <<>>, postings |-> <<>>] /\ content = nothing /\ postings = {}
    BY Zenon, SameTables DEF B!Init, B!NoBatch
  <1>2. /\ IsTable(nothing) /\ DOMAIN nothing = {} /\ BranchesStored({}, RootOf(nothing))
    BY Zenon DEF IsTable, BranchesStored, RootOf
  <1>3. nothing = IndexRows({}) /\ IsPairs({})
    BY DEF IndexRows, IsPairs
  <1> HIDE DEF nothing
  <1>4. CellBatchInv
    <2>1. Edited(nothing, Normalize(B!CellEdits(<<>>))) = nothing
      BY Zenon, <1>2, NoEdits, NothingEdited
    <2> QED BY <1>1, <1>2, <2>1, NoEdits DEF CellBatchInv
  <1>5. PostingBatchInv
    <2>1. IndexHolds(batchIndex, index_root, {})
      BY Zenon, <1>1, <1>2, <1>3 DEF IndexHolds
    <2>2. PostingsAfter({}, Normalize(B!PostingEdits(<<>>))) = {}
      BY Zenon, NoEdits, NoPostings
    <2> QED BY <1>1, <2>1, <2>2, NoEdits DEF PostingBatchInv
  <1> QED BY Zenon, <1>1, <1>4, <1>5 DEF BatchInv

LEMMA BatchInvAddCell ==
    ASSUME BatchInv, NEW c \in B!CellChange, B!AddCell(c)
    PROVE  BatchInv'
  <1>1. /\ batch' = [cells |-> Append(batch.cells, c), postings |-> batch.postings]
        /\ content' = Edited(content, [k \in {c.key} |-> c.value])
        /\ UNCHANGED <<batchCells, state_root, batchIndex, index_root, postings>>
    BY Zenon, SameTables DEF B!AddCell, BatchInv
  <1>2. CellBatchInv'
    <2> DEFINE longer == B!CellEdits(Append(batch.cells, c))
    <2>1. /\ batch.cells \in Seq(B!CellChange) /\ HasLast(B!CellEdits(batch.cells))
          /\ content = Edited(batchCells.rows, Normalize(B!CellEdits(batch.cells)))
      BY Zenon DEF BatchInv, CellBatchInv
    <2>2. /\ HasLast(longer)
          /\ Edited(content, [k \in {c.key} |-> c.value]) = Edited(batchCells.rows, Normalize(longer))
      BY Zenon, <2>1, CellEditsAppend
    <2>3. batch'.cells = Append(batch.cells, c) /\ B!CellEdits(batch'.cells) = longer
      BY Zenon, <1>1
    <2>4. batch'.cells \in Seq(B!CellChange)
      BY <2>1, <2>3
    <2> HIDE DEF longer
    <2> QED BY Zenon, <1>1, <2>2, <2>3, <2>4 DEF BatchInv, CellBatchInv
  <1>3. PostingBatchInv'
    <2>1. batch'.postings = batch.postings
      BY Zenon, <1>1
    <2> QED BY Zenon, <1>1, <2>1 DEF BatchInv, PostingBatchInv
  <1> QED BY Zenon, <1>1, <1>2, <1>3 DEF BatchInv

LEMMA BatchInvAddPosting ==
    ASSUME BatchInv, NEW c \in B!PostingChange, B!AddPosting(c)
    PROVE  BatchInv'
  <1>1. /\ batch' = [cells |-> batch.cells, postings |-> Append(batch.postings, c)]
        /\ postings' = IF c.present THEN postings \cup {c.posting} ELSE postings \ {c.posting}
        /\ UNCHANGED <<batchCells, state_root, batchIndex, index_root, content>>
    BY Zenon DEF B!AddPosting, BatchInv
  <1>2. CellBatchInv'
    <2>1. batch'.cells = batch.cells
      BY Zenon, <1>1
    <2> QED BY Zenon, <1>1, <2>1 DEF BatchInv, CellBatchInv
  <1>3. PostingBatchInv'
    <2> DEFINE longer == B!PostingEdits(Append(batch.postings, c))
    <2>1. batch.postings \in Seq(B!PostingChange) /\ HasLast(B!PostingEdits(batch.postings))
      BY Zenon DEF BatchInv, PostingBatchInv
    <2>2. PICK P \in SUBSET (IndexTerms \X Ids) :
             /\ IndexHolds(batchIndex, index_root, P)
             /\ postings = PostingsAfter(P, Normalize(B!PostingEdits(batch.postings)))
      BY Zenon DEF BatchInv, PostingBatchInv
    <2>3. HasLast(longer) /\ postings' = PostingsAfter(P, Normalize(longer))
      BY ZenonT(30), <1>1, <2>1, <2>2, PostingEditsAppend
    <2>4. batch'.postings = Append(batch.postings, c) /\ B!PostingEdits(batch'.postings) = longer
      BY Zenon, <1>1
    <2>5. batch'.postings \in Seq(B!PostingChange)
      BY <2>1, <2>4
    <2> HIDE DEF longer
    <2> QED BY Zenon, <1>1, <2>2, <2>3, <2>4, <2>5 DEF PostingBatchInv
  <1> QED BY Zenon, <1>1, <1>2, <1>3 DEF BatchInv

LEMMA BatchInvApplyCells ==
    ASSUME BatchInv, B!ApplyCellBatch
    PROVE  BatchInv'
  <1> DEFINE net == Normalize(B!CellEdits(batch.cells))
             rows == Edited(batchCells.rows, net)
  <1>1. /\ state_root = RootOf(batchCells.rows) /\ content = rows
        /\ batch.postings = <<>>
    BY Zenon DEF BatchInv, CellBatchInv, B!ApplyCellBatch
  <1>2. ApplyCells(batchCells, state_root, net)
           = [cells |-> [rows |-> rows, trie |-> Stored(batchCells.trie, RootOf(rows))], root |-> RootOf(rows)]
    BY Zenon, <1>1, RootLeaves DEF ApplyCells
  <1>3. B!ApplyCells(batchCells, state_root, B!Normalize(B!CellEdits(batch.cells)))
           = ApplyCells(batchCells, state_root, net)
    BY Zenon, SameTables
  <1> HIDE DEF net
  <1>4. /\ batchCells' = [rows |-> rows, trie |-> Stored(batchCells.trie, RootOf(rows))]
        /\ state_root' = RootOf(rows)
        /\ batch' = [cells |-> <<>>, postings |-> <<>>]
        /\ UNCHANGED <<batchIndex, index_root, content, postings>>
    <2> DEFINE new == ApplyCells(batchCells, state_root, net)
    <2>1. /\ batchCells' = new.cells /\ state_root' = new.root
          /\ batch' = B!NoBatch
          /\ UNCHANGED <<batchIndex, index_root, content, postings>>
      BY Zenon, <1>3 DEF B!ApplyCellBatch
    <2>2. /\ new.cells = [rows |-> rows, trie |-> Stored(batchCells.trie, RootOf(rows))]
          /\ new.root = RootOf(rows)
      BY <1>2
    <2> QED BY Zenon, <2>1, <2>2 DEF B!NoBatch
  <1>5. IsTable(rows) /\ \A k \in DOMAIN rows : rows[k] # None
    <2>1. /\ DOMAIN rows = {k \in DOMAIN batchCells.rows \cup DOMAIN net :
                IF k \in DOMAIN net THEN net[k] # None ELSE batchCells.rows[k] # None}
          /\ \A k \in DOMAIN rows : rows[k] = IF k \in DOMAIN net THEN net[k] ELSE batchCells.rows[k]
          /\ IsTable(rows)
      BY Zenon, EditedDomain
    <2> HIDE DEF rows
    <2> QED BY Zenon, <2>1
  <1> HIDE DEF rows
  <1>6. CellBatchInv'
    <2>1. Edited(rows, Normalize(B!CellEdits(<<>>))) = rows
      BY Zenon, <1>5, NoEdits, NothingEdited
    <2>2. batchCells'.rows = rows /\ batch'.cells = <<>> /\ BranchesStored(batchCells'.trie, RootOf(rows))
      BY Zenon, <1>4, BranchesAreStored
    <2>3. <<>> \in Seq(B!CellChange)
      OBVIOUS
    <2> QED BY Zenon, <1>1, <1>4, <1>5, <2>1, <2>2, <2>3, NoEdits DEF CellBatchInv
  <1>7. PostingBatchInv'
    <2>1. batch'.postings = batch.postings
      BY Zenon, <1>1, <1>4
    <2> QED BY Zenon, <1>4, <2>1 DEF BatchInv, PostingBatchInv
  <1> QED BY Zenon, <1>4, <1>6, <1>7 DEF BatchInv

LEMMA BatchInvApplyPostings ==
    ASSUME BatchInv, B!ApplyPostingBatch
    PROVE  BatchInv'
  <1> DEFINE net == Normalize(B!PostingEdits(batch.postings))
             new == ApplyIndex(batchIndex, index_root, net)
  <1>1. /\ batch.postings \in Seq(B!PostingChange) /\ HasLast(B!PostingEdits(batch.postings))
        /\ batch.cells = <<>>
    BY Zenon DEF BatchInv, PostingBatchInv, B!ApplyPostingBatch
  <1>2. PICK P \in SUBSET (IndexTerms \X Ids) :
           IndexHolds(batchIndex, index_root, P) /\ postings = PostingsAfter(P, net)
    BY Zenon DEF BatchInv, PostingBatchInv
  <1>3. IsPostings(net) /\ PostingsAfter(P, net) \in SUBSET (IndexTerms \X Ids)
    BY Zenon, <1>1, PostingEditsTyped
  <1>4. B!ApplyIndex(batchIndex, index_root, B!Normalize(B!PostingEdits(batch.postings))) = new
    BY Zenon, SameTables, SameApplyIndex
  <1> HIDE DEF net
  <1>5. IndexHolds(new.index, new.root, PostingsAfter(P, net))
    BY Zenon, <1>2, <1>3, ApplyIndexHolds
  <1> HIDE DEF new
  <1>6. /\ batchIndex' = new.index /\ index_root' = new.root
        /\ batch' = [cells |-> <<>>, postings |-> <<>>]
        /\ UNCHANGED <<batchCells, state_root, content, postings>>
    BY Zenon, <1>4 DEF B!ApplyPostingBatch, B!NoBatch
  <1>7. CellBatchInv'
    <2>1. batch'.cells = batch.cells
      BY Zenon, <1>1, <1>6
    <2> QED BY Zenon, <1>6, <2>1 DEF BatchInv, CellBatchInv
  <1>8. PostingBatchInv'
    <2>1. PostingsAfter(postings, Normalize(B!PostingEdits(<<>>))) = postings
      BY Zenon, NoEdits, NoPostings
    <2>2. batch'.postings = <<>> /\ <<>> \in Seq(B!PostingChange)
      BY <1>6
    <2>3. postings \in SUBSET (IndexTerms \X Ids) /\ IndexHolds(batchIndex', index_root', postings)
      BY Zenon, <1>2, <1>3, <1>5, <1>6
    <2> QED BY Zenon, <1>6, <2>1, <2>2, <2>3, NoEdits DEF PostingBatchInv
  <1> QED BY <1>6, <1>7, <1>8 DEF BatchInv

LEMMA BatchInvStep == BatchInv /\ [B!Next]_(B!vars) => BatchInv'
  <1> SUFFICES ASSUME BatchInv, [B!Next]_(B!vars) PROVE BatchInv'
    OBVIOUS
  <1>1. CASE UNCHANGED B!vars
    BY Zenon, <1>1 DEF B!vars, BatchInv, CellBatchInv, PostingBatchInv
  <1> QED BY <1>1, BatchInvAddCell, BatchInvAddPosting, BatchInvApplyCells, BatchInvApplyPostings
          DEF B!Next

(* A batch of cell changes (Cells::apply) or of posting changes
   (IndexWriter::apply), however long, in whatever order and with whatever keys
   repeated, does what its changes do one after the other. *)
THEOREM BatchesAreInOrder == B!Spec => []BatchesInOrder
  <1>1. BatchInv => BatchesInOrder
    <2> SUFFICES ASSUME BatchInv PROVE BatchesInOrder
      OBVIOUS
    <2>1. B!CellsInOrder
      <3> SUFFICES ASSUME batch.cells = <<>>
                   PROVE  /\ batchCells.rows = content
                          /\ ReopenCells(batchCells, state_root) = RootOf(content)
        BY Zenon, SameTables DEF B!CellsInOrder
      <3>1. content = batchCells.rows
        BY Zenon, NoEdits, NothingEdited DEF BatchInv, CellBatchInv
      <3> QED BY Zenon, <3>1, Reopens DEF BatchInv, CellBatchInv, ReopenCells
    <2>2. B!PostingsInOrder
      <3> SUFFICES ASSUME batch.postings = <<>>
                   PROVE  /\ DOMAIN batchIndex.rows = {p[1] : p \in postings}
                          /\ \A t \in DOMAIN batchIndex.rows :
                                /\ BitmapStored(batchIndex, batchIndex.rows[t])
                                /\ Bitmap(batchIndex.rows[t]) = {id \in Ids : <<t, id>> \in postings}
                          /\ ReopenIndex(batchIndex, index_root) = RootOf(batchIndex.rows)
        BY Zenon, SameTables, SameIndex DEF B!PostingsInOrder
      <3>1. PICK P \in SUBSET (IndexTerms \X Ids) :
               /\ IndexHolds(batchIndex, index_root, P)
               /\ postings = PostingsAfter(P, Normalize(B!PostingEdits(batch.postings)))
        BY Zenon DEF BatchInv, PostingBatchInv
      <3>2. postings = P
        BY Zenon, <3>1, NoEdits, NoPostings
      <3>3. /\ IsPairs(P) /\ batchIndex.rows = IndexRows(P)
            /\ index_root = RootOf(batchIndex.rows) /\ BranchesStored(batchIndex.trie, index_root)
            /\ \A t \in DOMAIN batchIndex.rows : BitmapStored(batchIndex, batchIndex.rows[t])
        BY Zenon, <3>1 DEF IndexHolds
      <3>4. DOMAIN batchIndex.rows = {p[1] : p \in P}
        BY Zenon, <3>3 DEF IndexRows
      <3>5. ASSUME NEW t \in DOMAIN batchIndex.rows
            PROVE  Bitmap(batchIndex.rows[t]) = {id \in Ids : <<t, id>> \in P}
        <4>1. batchIndex.rows[t] = RootOf(LeavesFor(IdsOf(P, t)))
          BY Zenon, <3>3, IndexRowsTable
        <4>2. IdsOf(P, t) \in SUBSET Nat
          BY DEF IdsOf
        <4>3. IdsOf(P, t) = {id \in Ids : <<t, id>> \in P}
          BY Zenon, BatchesAssumption DEF IdsOf
        <4> QED BY Zenon, <4>1, <4>2, <4>3, BitmapOfLeaves
      <3>6. ReopenIndex(batchIndex, index_root) = RootOf(batchIndex.rows)
        BY Zenon, <3>3, Reopens DEF ReopenIndex
      <3> QED BY ZenonT(30), <3>2, <3>3, <3>4, <3>5, <3>6
    <2> QED BY <2>1, <2>2 DEF BatchesInOrder
  <1> QED BY <1>1, BatchInvInit, BatchInvStep, PTL DEF B!Spec
=============================================================================
