-------------------------------- MODULE Seal --------------------------------
(***************************************************************************)
(* Sealing and committing (crates/branch/src/seal.rs): the staged cells of *)
(* a branch become the next cell rows and their root (crates/cells), the   *)
(* changed indexable cells become changes of postings, and these the next  *)
(* index rows, bitmaps and their root (crates/index).                      *)
(*                                                                         *)
(* A seal and the commit that publishes it are one step: module Branches   *)
(* models what happens between the two and shows that a sealed branch is   *)
(* published on the very state it was computed from.                       *)
(***************************************************************************)
EXTENDS Tables, Sequences

CONSTANTS
    Records,     \* record IDs of users
    Names,       \* names of their cells
    Attributes,  \* values that attributes have
    Fields,      \* values that fields have
    Roots,       \* the reserved record that keeps the roots of past commits
    GenesisCells,\* cell rows at genesis, all of them fields
    StagedRoots, \* commits whose #roots cell a branch may stage
    MaxChanges,  \* bound on the cells a branch stages
    MaxCommit    \* bound on commits

VARIABLES
    head,        \* [commit_id, state_root, index_root]
    cells,       \* tables Cell and CellTrie
    index,       \* tables Index, IndexTrie, BitmapTrie and BitmapContainer
    past,        \* the heads before this one and their bitmaps, by commit number (history)
    staged       \* the commits whose #roots cell a branch changed itself (history)

vars == <<head, cells, index, past, staged>>

UserKeys == Records \X Names
Terms == [kind : {"Term"}, name : Names, value : Attributes]

(* Tagged values: the tag has the bit that says whether the value is indexed.  A
   Pair is a field of two hashes, the form of a #roots cell. *)
Attribute(v) == [kind |-> "Attribute", value |-> v]
Field(v) == [kind |-> "Field", value |-> v]
Pair(v) == [kind |-> "Pair", value |-> v]
Values == {Attribute(v) : v \in Attributes} \cup {Field(v) : v \in Fields}

ASSUME SealAssumption ==
    /\ Records \subseteq Nat /\ Roots \notin Records
    /\ Names \cap Nat = {}
    /\ Width \in Nat \ {0} /\ MaxCommit \in Nat
    /\ StagedRoots \subseteq 0..MaxCommit
    /\ DOMAIN GenesisCells \cap (UserKeys \cup {Roots} \X Nat) = {}
    /\ \A k \in DOMAIN GenesisCells : GenesisCells[k] = Field(GenesisCells[k].value)

-----------------------------------------------------------------------------
(* seal.rs. *)

(* The term of a cell: only attributes have one. *)
TermOf(key, value) ==
    IF value.kind = "Attribute"
    THEN [kind |-> "Term", name |-> key[2], value |-> value.value] ELSE None

(* TermError: the name under an attribute is not that of an attribute; the binary
   names in the #roots record never are. *)
HasTerm(key, value) == value.kind = "Attribute" => key[2] \in Names

(* One Remove and one Add for each changed cell whose term changes. *)
PostingsNeverRemoved(c, net) ==                             \* faulty variant
    LET changed == {k \in ChangedCells(c, net) : net[k].kind = "Attribute"}
    IN <<[p \in {<<TermOf(k, net[k]), k[1]>> : k \in changed} |-> TRUE]>>

Postings(c, net) ==
    LET before(k) == TermOf(k, Lookup(c.rows, k))
        after(k)  == TermOf(k, net[k])
        changed   == {k \in ChangedCells(c, net) : before(k) # after(k)}
        removed   == {k \in changed : before(k) # None}
        added     == {k \in changed : after(k) # None}
    IN <<[p \in {<<before(k), k[1]>> : k \in removed} |-> FALSE],
         [p \in {<<after(k), k[1]>> : k \in added} |-> TRUE]>>

RootsKey(commit) == <<Roots, commit>>

RootsCell(h) == <<RootsKey(h.commit_id), Pair(<<h.state_root, h.index_root>>)>>

(* The engine's #roots write comes after whatever the branch staged. *)
ChangesRootsFirst(overlay, h) ==                            \* faulty variant
    <<[k \in {RootsCell(h)[1]} |-> RootsCell(h)[2]], overlay>>

Changes(overlay, h) == <<overlay, [k \in {RootsCell(h)[1]} |-> RootsCell(h)[2]]>>

(* Staged cells: values and tombstones of users' cells, and of the #roots cells,
   which no layer below that of the records refuses. *)
StagedKeys ==
    {s \in SUBSET (UserKeys \cup {RootsKey(c) : c \in StagedRoots}) :
        s = {} \/ \E f \in [1..MaxChanges -> s] : s = {f[i] : i \in 1..MaxChanges}}

Overlays == UNION {[ks -> Values \cup {None}] : ks \in StagedKeys}

(* What compute requires before and while it applies the batch; otherwise it
   fails and the branch stays as it was. *)
SealSucceeds(net) ==
    /\ ReopenCells(cells, head.state_root) = head.state_root
    /\ ReopenIndex(index, head.index_root) = head.index_root
    /\ RootsKey(head.commit_id) \notin DOMAIN cells.rows
    /\ CellsAgree(cells, head.state_root, net)
    /\ \A k \in ChangedCells(cells, net) : HasTerm(k, Lookup(cells.rows, k)) /\ HasTerm(k, net[k])
    /\ IndexAgrees(index, head.index_root, Normalize(Postings(cells, net)))

Seal(overlay) ==
    LET net      == Normalize(Changes(overlay, head))
        newcells == ApplyCells(cells, head.state_root, net)
        newindex == ApplyIndex(index, head.index_root, Normalize(Postings(cells, net)))
    IN /\ head.commit_id < MaxCommit
       /\ SealSucceeds(net)
       /\ cells' = newcells.cells
       /\ index' = newindex.index
       /\ head' = [commit_id |-> head.commit_id + 1, state_root |-> newcells.root,
                   index_root |-> newindex.root]
       /\ past' = Append(past, [commit_id |-> head.commit_id, state_root |-> head.state_root,
                                index_root |-> head.index_root,
                                bitmaps |-> {index.rows[t] : t \in DOMAIN index.rows}])
       /\ staged' = (staged \cup {c \in 0..MaxCommit : RootsKey(c) \in ChangedCells(cells, net)})
                        \ {head.commit_id}

Init ==
    LET nothing == [t \in {} |-> None] IN
    /\ cells = [rows |-> GenesisCells, trie |-> Stored({}, RootOf(GenesisCells))]
    /\ index = [rows |-> nothing, trie |-> {}, bitmaps |-> {}, containers |-> {}]
    /\ head = [commit_id |-> 0, state_root |-> RootOf(GenesisCells),
               index_root |-> RootOf(nothing)]
    /\ past = <<>>
    /\ staged = {}

(* What validate_state asks of the state, here of the roots and the reserved cells
   (module Genesis has the allocator): both roots reopen, the genesis cells are
   there, alone at genesis, later the roots of the previous commit are too, and
   all of these agree with the trie. *)
ValidState ==
    LET genesis  == head.commit_id = 0
        previous == RootsKey(head.commit_id - 1)
        required == DOMAIN GenesisCells \cup IF genesis THEN {} ELSE {previous}
    IN /\ ReopenCells(cells, head.state_root) = head.state_root
       /\ ReopenIndex(index, head.index_root) = head.index_root
       /\ \A k \in DOMAIN GenesisCells : Lookup(cells.rows, k) = GenesisCells[k]
       /\ genesis => DOMAIN cells.rows = required /\ head.index_root.kind = "Empty"
       /\ ~genesis => Lookup(cells.rows, previous).kind = "Pair"
       /\ \A k \in required : Agrees(cells.rows, cells.trie, head.state_root, k)

(* Opening the database again: it is accepted and nothing changes. *)
Validate == ValidState /\ UNCHANGED vars

Next == Validate \/ \E overlay \in Overlays : Seal(overlay)

Spec == Init /\ [][Next]_vars

-----------------------------------------------------------------------------
(* Properties. *)

(* The roots in head can be reopened from the tables and commit to exactly the
   rows of Cell and Index, so no seal fails with RootMismatch; and opening the
   database again never refuses a state that commits lead to (validate_state),
   whatever branches staged under the #roots record. *)
HeadCommitsToRows ==
    /\ ReopenCells(cells, head.state_root) = RootOf(cells.rows)
    /\ ReopenIndex(index, head.index_root) = RootOf(index.rows)
    /\ ValidState

(* The index holds, for each term, exactly the records whose committed cell has
   that name and indexable value, as if it were computed from scratch; a term
   that no record has any more has no row; every bitmap can be read. *)
IndexIsExact ==
    \A t \in Terms :
        LET owners == {r \in Records : Lookup(cells.rows, <<r, t.name>>) = Attribute(t.value)}
        IN IF owners = {} THEN t \notin DOMAIN index.rows
           ELSE /\ t \in DOMAIN index.rows
                /\ BitmapStored(index, index.rows[t])
                /\ Bitmap(index.rows[t]) = owners

(* The #roots record holds the roots of every earlier commit and of no other, but
   for the cells that a branch changed itself, before or after the commit whose
   roots they are for: the engine's write is last and wins over what was staged
   for the same commit, and a seal refuses to overwrite a cell it did not expect
   (RootsCellExists). *)
RootsOfEveryCommit ==
    /\ Len(past) = head.commit_id
    /\ \A c \in 0..MaxCommit \ staged :
          IF c < head.commit_id
          THEN Lookup(cells.rows, RootsKey(c)) = RootsCell(past[c + 1])[2]
          ELSE RootsKey(c) \notin DOMAIN cells.rows

(* Copy on write: the branch rows of the state and index root of every earlier
   commit stay stored, and so do the branch and container rows of every bitmap it
   had.  (The flat rows of earlier commits are not kept, so cells that a later
   commit changed cannot be read from these alone.) *)
HistoryIsRetained ==
    \A c \in DOMAIN past :
        /\ BranchesStored(cells.trie, past[c].state_root)
        /\ BranchesStored(index.trie, past[c].index_root)
        /\ \A root \in past[c].bitmaps : BitmapStored(index, root)
=============================================================================
