------------------------------ MODULE Journal -------------------------------
(***************************************************************************)
(* The overlay of one branch and its undo journal                          *)
(* (crates/branch/src/overlay.rs and journal.rs).                          *)
(*                                                                         *)
(* A write group runs a user callback against the overlay.  Every effective*)
(* write pushes its inverse on the undo log; frames are positions in that  *)
(* log.  A failed group and a rollback both pop the log back to a          *)
(* position; each iteration of that loop is a step here, so that what the  *)
(* loop restores is a consequence of the steps and not of a definition.    *)
(* The branch lock is held throughout, so nothing interleaves.             *)
(***************************************************************************)
EXTENDS Integers, Sequences

CONSTANTS
    Keys,       \* cell addresses (CellKey)
    Values,     \* cell values (CellValue)
    Tombstone,  \* an entry that hides the origin's cell (None)
    Missing,    \* no entry: reads fall through to the origin
    MaxUndo,    \* bound: length of the undo log
    MaxFrames   \* bound: number of open frames

ASSUME JournalAssumption ==
    /\ Missing \notin Values \cup {Tombstone}
    /\ MaxUndo \in Nat
    /\ MaxFrames \in Nat \ {0}

VARIABLES
    entries,    \* CellOverlay.entries, with Missing for an absent key
    undo,       \* Journal.undo
    frames,     \* Journal.frames: undo lengths at which the frames start
    rolledBack, \* Journal.rolled_back
    phase,      \* which call is running: a write group, its undoing, a rollback
    mark,       \* CellWrite.mark, the state a failed group returns to
    past,       \* history: past[i] is the overlay before undo[i] was pushed
    before      \* history: overlay and journal when the running group began

vars == <<entries, undo, frames, rolledBack, phase, mark, past, before>>

(* Vec::last and Vec::pop.  (SequencesExt has both, but the size of that module
   slows every proof obligation down.) *)
Last(s) == s[Len(s)]

Front(s) == SubSeq(s, 1, Len(s) - 1)

Staged == Values \cup {Tombstone}

Overlays == [Keys -> Staged \cup {Missing}]

UndoEntry == [key : Keys, previous : Staged \cup {Missing}]

WriteMark == [undo_len : Nat, rolled_back : BOOLEAN]

NoMark == [undo_len |-> 0, rolled_back |-> FALSE]

Saved ==
    [entries : Overlays, undo : Seq(UndoEntry), frames : Seq(Nat), rolled_back : BOOLEAN]

NoneSaved ==
    [entries |-> [k \in Keys |-> Missing], undo |-> <<>>, frames |-> <<0>>,
     rolled_back |-> FALSE]

TypeOK ==
    /\ entries \in Overlays
    /\ undo \in Seq(UndoEntry)
    /\ frames \in Seq(Nat)
    /\ frames # <<>>
    /\ rolledBack \in BOOLEAN
    /\ phase \in {"idle", "writing", "rewinding", "rolling back"}
    /\ mark \in WriteMark
    /\ past \in Seq(Overlays)
    /\ Len(past) = Len(undo)
    /\ before \in Saved

Init ==
    /\ entries = [k \in Keys |-> Missing]
    /\ undo = <<>>
    /\ frames = <<0>>
    /\ rolledBack = FALSE
    /\ phase = "idle"
    /\ mark = NoMark
    /\ past = <<>>
    /\ before = NoneSaved

-----------------------------------------------------------------------------
(* Write groups: CellOverlay::write and the CellWrite it hands out. *)

BeginWrite ==
    /\ phase = "idle"
    /\ phase' = "writing"
    /\ mark' = [undo_len |-> Len(undo), rolled_back |-> rolledBack]
    /\ before' = [entries |-> entries, undo |-> undo, frames |-> frames,
                  rolled_back |-> rolledBack]
    /\ UNCHANGED <<entries, undo, frames, rolledBack, past>>

(* The entry Journal::record pushes: how to undo a write of k. *)
UndoOfForgets(k) == [key |-> k, previous |-> Missing]       \* faulty variant

UndoOf(k) == [key |-> k, previous |-> entries[k]]

ReactivateNever == UNCHANGED rolledBack                     \* faulty variant

Reactivate == rolledBack' = FALSE

(* Journal::record for put (v a value) and delete (v a tombstone).  A write
   of what is already staged still reactivates the frame. *)
Record(k, v) ==
    /\ phase = "writing"
    /\ Reactivate
    /\ \/ /\ entries[k] = v
          /\ UNCHANGED <<entries, undo, past>>
       \/ /\ entries[k] # v
          /\ Len(undo) < MaxUndo
          /\ entries' = [entries EXCEPT ![k] = v]
          /\ undo' = Append(undo, UndoOf(k))
          /\ past' = Append(past, entries)
    /\ UNCHANGED <<frames, phase, mark, before>>

(* The callback returned Ok. *)
CompleteWrite ==
    /\ phase = "writing"
    /\ phase' = "idle"
    /\ mark' = NoMark
    /\ before' = NoneSaved
    /\ UNCHANGED <<entries, undo, frames, rolledBack, past>>

(* The callback returned Err or unwound: Drop for CellWrite rewinds. *)
FailWrite ==
    /\ phase = "writing"
    /\ phase' = "rewinding"
    /\ UNCHANGED <<entries, undo, frames, rolledBack, mark, past, before>>

-----------------------------------------------------------------------------
(* Journal::undo_to, one iteration per step. *)

UndoTargetIsFrame == Last(frames)                           \* faulty variant

UndoTarget == IF phase = "rewinding" THEN mark.undo_len ELSE Last(frames)

PopUndo ==
    /\ phase \in {"rewinding", "rolling back"}
    /\ Len(undo) > UndoTarget
    /\ entries' = [entries EXCEPT ![Last(undo).key] = Last(undo).previous]
    /\ undo' = Front(undo)
    /\ past' = Front(past)
    /\ UNCHANGED <<frames, rolledBack, phase, mark, before>>

FinishRewind ==
    /\ phase = "rewinding"
    /\ Len(undo) <= UndoTarget
    /\ rolledBack' = mark.rolled_back
    /\ phase' = "idle"
    /\ mark' = NoMark
    /\ before' = NoneSaved
    /\ UNCHANGED <<entries, undo, frames, past>>

FinishRollback ==
    /\ phase = "rolling back"
    /\ Len(undo) <= UndoTarget
    /\ rolledBack' = TRUE
    /\ phase' = "idle"
    /\ UNCHANGED <<entries, undo, frames, mark, past, before>>

-----------------------------------------------------------------------------
(* Frames. *)

(* Journal::checkpoint. *)
CheckpointPushes ==                                         \* faulty variant
    /\ phase = "idle"
    /\ Len(frames) < MaxFrames
    /\ frames' = Append(frames, Len(undo))
    /\ rolledBack' = FALSE
    /\ UNCHANGED <<entries, undo, phase, mark, past, before>>

Checkpoint ==
    /\ phase = "idle"
    /\ \/ rolledBack /\ UNCHANGED frames
       \/ /\ ~rolledBack
          /\ Len(frames) < MaxFrames
          /\ frames' = Append(frames, Len(undo))
    /\ rolledBack' = FALSE
    /\ UNCHANGED <<entries, undo, phase, mark, past, before>>

FrameRemains == Len(frames) > 1

(* Journal::rollback up to its loop: choose the frame to return to. *)
Rollback ==
    /\ phase = "idle"
    /\ rolledBack => FrameRemains
    /\ frames' = IF rolledBack THEN Front(frames) ELSE frames
    /\ phase' = "rolling back"
    /\ UNCHANGED <<entries, undo, rolledBack, mark, past, before>>

(* Journal::rollback with NoFrameToRollback: nothing changes. *)
RollbackExhausted ==
    /\ phase = "idle"
    /\ rolledBack /\ ~FrameRemains
    /\ UNCHANGED vars

Next ==
    \/ BeginWrite
    \/ \E k \in Keys, v \in Staged : Record(k, v)
    \/ CompleteWrite
    \/ FailWrite
    \/ PopUndo
    \/ FinishRewind
    \/ FinishRollback
    \/ Checkpoint
    \/ Rollback
    \/ RollbackExhausted

Spec == Init /\ [][Next]_vars

-----------------------------------------------------------------------------
(* Properties. *)

(* The overlay when the undo log had length n. *)
At(n) == IF n = Len(undo) THEN entries ELSE past[n + 1]

(* Frame markers are ordered positions of the undo log, and a write group
   never dips below the frame it runs in: journal.rs keeps bare lengths, which
   a pop that went too far would leave dangling. *)
MarkersOrdered ==
    /\ \A i, j \in 1..Len(frames) : i <= j => frames[i] <= frames[j]
    /\ Last(frames) <= Len(undo)
    /\ phase \in {"writing", "rewinding"} =>
          Last(frames) <= mark.undo_len /\ mark.undo_len <= Len(undo)

(* A frame flagged as rolled back holds no changes, which is why
   Journal::checkpoint may reuse its marker and Journal::rollback may drop it
   without undoing anything of its own. *)
RolledBackIsEmpty ==
    /\ rolledBack /\ phase # "rolling back" => Len(undo) = Last(frames)
    /\ phase \in {"writing", "rewinding"} /\ mark.rolled_back =>
          mark.undo_len = Last(frames)

(* The journal's own data stay well formed: frame markers, the rolled-back flag
   and the undo log describe each other in every state the calls lead to. *)
FramesConsistent == TypeOK /\ MarkersOrdered /\ RolledBackIsEmpty

(* Every suffix of the undo log inverts the changes made since: popping entry
   i turns the overlay that followed it into the overlay that preceded it. *)
UndoInverts ==
    \A i \in 1..Len(undo) :
        past[i] = [At(i) EXCEPT ![undo[i].key] = undo[i].previous]

(* A group that fails or panics, after any number of writes and reactivations,
   leaves the overlay, the undo log (whose length is the version), the frames and
   the rolled-back flag as they were when it began: Drop for CellWrite keeps no
   copy and rebuilds them from the log (Branches::write's contract). *)
FailedGroupRestores ==
    [][phase = "rewinding" /\ phase' = "idle" =>
         /\ entries' = before.entries
         /\ undo' = before.undo
         /\ frames' = before.frames
         /\ rolledBack' = before.rolled_back]_vars

(* The undo length the running call has settled on: a group counts only once
   it has succeeded, a rollback as soon as it has chosen its frame. *)
Settled ==
    CASE phase = "idle" -> Len(undo)
      [] phase \in {"writing", "rewinding"} -> mark.undo_len
      [] phase = "rolling back" -> Last(frames)

SettledFlag ==
    CASE phase = "idle" -> rolledBack
      [] phase \in {"writing", "rewinding"} -> mark.rolled_back
      [] phase = "rolling back" -> TRUE

FrameStarts == [i \in 1..Len(frames) |-> [cells |-> At(frames[i]), version |-> frames[i]]]

Abstract == INSTANCE Frames WITH
    cells <- At(Settled),
    version <- Settled,
    stack <- FrameStarts,
    consumed <- SettledFlag

(* The journal implements a stack of saved states: a failed or panicking
   group changes nothing, a rollback restores exactly the cells and version
   the frame started with (overlay.rs: "restores the preceding overlay
   exactly"). *)
ImplementsFrames == Abstract!Spec
=============================================================================
