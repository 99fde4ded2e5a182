----------------------------- MODULE Documents ------------------------------
(***************************************************************************)
(* What the record layer promises its user: documents addressed by key.    *)
(*                                                                         *)
(* There are no record IDs, bindings, identity cells or allocator here.    *)
(* Module Records, which stores all of these as cells of one branch, is    *)
(* shown to implement this specification.                                  *)
(***************************************************************************)
EXTENDS Integers, Sequences

CONSTANTS
    Handles,    \* branch IDs
    Keys,       \* record keys
    Names,      \* cell names
    Values,     \* cell values
    Missing,    \* a cell the document does not have
    Absent,     \* no document under this key
    None        \* a handle that names no live branch

VARIABLES
    published,  \* [commit |-> number, docs |-> documents of the head]
    open        \* [Handles -> a branch or None]

vars == <<published, open>>

Document == [Names -> Values \cup {Missing}]

Documents == [Keys -> Document \cup {Absent}]

Init ==
    /\ published = [commit |-> 0, docs |-> [k \in Keys |-> Absent]]
    /\ open = [b \in Handles |-> None]

Live(b) == open[b] # None /\ open[b].origin = published.commit

Begin(b) ==
    /\ open[b] = None
    /\ open' = [open EXCEPT ![b] =
          [origin |-> published.commit, docs |-> published.docs,
           stack |-> <<published.docs>>, consumed |-> FALSE]]
    /\ UNCHANGED published

(* One document of the branch, new or updated, becomes d.  Nothing else is
   disturbed. *)
Put(b, k, d) ==
    /\ Live(b)
    /\ open' = [open EXCEPT ![b].docs[k] = d, ![b].consumed = FALSE]
    /\ UNCHANGED published

Delete(b, k) == Live(b) /\ open[b].docs[k] # Absent /\ Put(b, k, Absent)

Checkpoint(b) ==
    /\ Live(b)
    /\ open' = [open EXCEPT
          ![b].stack = IF open[b].consumed THEN @ ELSE Append(@, open[b].docs),
          ![b].consumed = FALSE]
    /\ UNCHANGED published

Rollback(b) ==
    /\ Live(b)
    /\ open[b].consumed => Len(open[b].stack) > 1
    /\ LET kept == IF open[b].consumed
                   THEN SubSeq(open[b].stack, 1, Len(open[b].stack) - 1)
                   ELSE open[b].stack
       IN open' = [open EXCEPT ![b].stack = kept, ![b].docs = kept[Len(kept)],
                               ![b].consumed = TRUE]
    /\ UNCHANGED published

Commit(b) ==
    /\ Live(b)
    /\ published' = [commit |-> published.commit + 1, docs |-> open[b].docs]
    /\ open' = [open EXCEPT ![b] = None]

Drop(b) ==
    /\ open[b] # None
    /\ open' = [open EXCEPT ![b] = None]
    /\ UNCHANGED published

Step(b) ==
    \/ Begin(b) \/ Checkpoint(b) \/ Rollback(b) \/ Commit(b) \/ Drop(b)
    \/ \E k \in Keys :
          \/ Delete(b, k)
          \/ \E d \in Document : Put(b, k, d)

(* A call that leaves its branch as it was leaves everything as it was. *)
Next == \E b \in Handles : open'[b] # open[b] /\ Step(b)

Spec == Init /\ [][Next]_vars
=============================================================================
