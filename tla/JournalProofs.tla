---------------------------- MODULE JournalProofs ---------------------------
(***************************************************************************)
(* Proofs about Journal, for every set of keys and values and every bound. *)
(***************************************************************************)
EXTENDS Journal, SequenceTheorems, TLAPS

(* A freshly opened journal has an empty undo log. *)
LEMMA EmptyLen == Len(<<>>) = 0
    OBVIOUS

(* Dropping the last element of a non-empty sequence, as both undo_to and
   rollback do. *)
LEMMA FrontProperties ==
    ASSUME NEW S, NEW s \in Seq(S), s # <<>>
    PROVE  /\ Front(s) \in Seq(S)
           /\ Len(Front(s)) = Len(s) - 1
           /\ \A i \in 1..(Len(s) - 1) : Front(s)[i] = s[i]
           /\ Last(s) \in S
           /\ Len(s) \in Nat \ {0}
<1> DEFINE n == Len(s) - 1
<1>1. Len(s) \in Nat \ {0} /\ n \in Nat
    BY EmptySeq
<1>2. \A i \in 1..Len(s) : s[i] \in S
    BY ElementOfSeq
<1>3. 1 \in Int /\ n \in Int /\ \A i \in 1..n : s[i] \in S
    BY <1>1, <1>2
<1> HIDE DEF n
<1>4. /\ SubSeq(s, 1, n) \in Seq(S)
      /\ Len(SubSeq(s, 1, n)) = IF 1 <= n THEN n - 1 + 1 ELSE 0
      /\ \A i \in 1..n - 1 + 1 : SubSeq(s, 1, n)[i] = s[1 + i - 1]
    BY ONLY <1>3, SubSeqProperties
<1>5. Len(SubSeq(s, 1, n)) = n
    BY ONLY <1>1, <1>4
<1>6. ASSUME NEW i \in 1..n PROVE SubSeq(s, 1, n)[i] = s[i]
  <2>1. n - 1 + 1 = n /\ 1 + i - 1 = i
    BY ONLY <1>1, i \in 1..n
  <2>2. QED
    BY ONLY <1>4, <2>1, i \in 1..n
<1>7. Front(s) = SubSeq(s, 1, n) /\ Last(s) = s[Len(s)]
    BY DEF Front, Last, n
<1>8. Last(s) \in S
    BY ONLY <1>1, <1>2, <1>7
<1>9. QED
    BY <1>1, <1>4, <1>5, <1>6, <1>7, <1>8 DEF n

-----------------------------------------------------------------------------
(* The lengths journal.rs compares and stores are natural numbers. *)
LEMMA LengthsAreNat ==
    ASSUME TypeOK
    PROVE  /\ Len(undo) \in Nat
           /\ Len(past) = Len(undo)
           /\ Len(frames) \in Nat \ {0}
           /\ \A i \in 1..Len(frames) : frames[i] \in Nat
           /\ Last(frames) = frames[Len(frames)]
           /\ Last(frames) \in Nat
           /\ mark.undo_len \in Nat
           /\ mark.rolled_back \in BOOLEAN
<1>1. undo \in Seq(UndoEntry) /\ frames \in Seq(Nat) /\ frames # <<>> /\ Len(past) = Len(undo)
    BY DEF TypeOK
<1>2. Len(undo) \in Nat /\ Last(frames) \in Nat
    BY Zenon, <1>1, LenProperties, FrontProperties
<1>3. Len(frames) \in Nat \ {0}
    BY <1>1, FrontProperties
<1>4. \A i \in 1..Len(frames) : frames[i] \in Nat
    BY <1>1, ElementOfSeq
<1>5. mark.undo_len \in Nat /\ mark.rolled_back \in BOOLEAN
    BY DEF TypeOK, WriteMark
<1>6. QED
    BY <1>1, <1>2, <1>3, <1>4, <1>5 DEF Last

(* One iteration of undo_to shortens the undo log and its history by one. *)
LEMMA PopUndoLengths ==
    ASSUME TypeOK, PopUndo
    PROVE  /\ undo # <<>> /\ past # <<>>
           /\ Len(undo') = Len(undo) - 1
           /\ Len(undo) > UndoTarget
<1>1. UndoTarget \in Nat
    BY LengthsAreNat DEF UndoTarget
<1>2. Len(undo) > UndoTarget
    BY Zenon DEF PopUndo
<1>3. Len(undo) # 0 /\ Len(past) # 0
    BY <1>1, <1>2, LengthsAreNat
<1>4. undo # <<>> /\ past # <<>>
    BY ONLY <1>3, EmptyLen, Zenon
<1>5. undo \in Seq(UndoEntry) /\ undo' = Front(undo)
    BY DEF TypeOK, PopUndo
<1>6. Len(undo') = Len(undo) - 1
    BY <1>4, <1>5, FrontProperties
<1>7. QED
    BY <1>2, <1>4, <1>6

-----------------------------------------------------------------------------
(* Journal's variables keep their types, and a frame is always open
   (journal.rs: "The last marker is always retained"). *)
THEOREM TypeCorrect == Spec => []TypeOK
<1>1. Init => TypeOK
  <2>1. <<0>> \in Seq(Nat) /\ <<0>> # <<>>
    OBVIOUS
  <2>2. <<>> \in Seq(UndoEntry) /\ <<>> \in Seq(Overlays)
    BY EmptySeq
  <2>3. [k \in Keys |-> Missing] \in Overlays /\ NoMark \in WriteMark
    BY DEF Overlays, NoMark, WriteMark
  <2>4. NoneSaved \in Saved
    BY <2>1, <2>2, <2>3 DEF NoneSaved, Saved
  <2>5. QED
    BY Zenon, <2>1, <2>2, <2>3, <2>4 DEF Init, TypeOK
<1>2. TypeOK /\ [Next]_vars => TypeOK'
  <2> SUFFICES ASSUME TypeOK, [Next]_vars PROVE TypeOK'
    OBVIOUS
  <2>a. undo \in Seq(UndoEntry) /\ past \in Seq(Overlays) /\ Len(past) = Len(undo)
    BY DEF TypeOK
  <2>b. frames \in Seq(Nat) /\ frames # <<>>
    BY DEF TypeOK
  <2>c. Len(undo) \in Nat /\ Last(frames) \in Nat
    BY LengthsAreNat
  <2>d. NoMark \in WriteMark /\ NoneSaved \in Saved
    <3>1. <<0>> \in Seq(Nat) /\ <<>> \in Seq(UndoEntry)
      OBVIOUS
    <3>2. QED
      BY <3>1 DEF NoMark, WriteMark, NoneSaved, Saved, Overlays
  <2>1. CASE BeginWrite
    <3>1. mark' \in WriteMark
      BY <2>1, <2>c DEF BeginWrite, WriteMark, TypeOK
    <3>2. before' \in Saved
      BY <2>1 DEF BeginWrite, Saved, TypeOK
    <3>3. QED
      BY Zenon, <2>1, <3>1, <3>2 DEF BeginWrite, TypeOK
  <2>2. ASSUME NEW k \in Keys, NEW v \in Staged, Record(k, v) PROVE TypeOK'
    <3>1. CASE entries[k] = v
      BY Zenon, <2>2, <3>1 DEF Record, Reactivate, UndoOf, TypeOK
    <3>2. CASE entries[k] # v
      <4> DEFINE e == UndoOf(k)
      <4>1. entries' \in Overlays /\ e \in UndoEntry /\ entries \in Overlays
        BY Zenon, <2>2, <3>2 DEF Record, Reactivate, UndoOf, Overlays, UndoEntry, TypeOK
      <4>2. undo' = Append(undo, e) /\ past' = Append(past, entries)
        BY <2>2, <3>2 DEF Record, Reactivate
      <4> HIDE DEF e
      <4>3. undo' \in Seq(UndoEntry) /\ Len(undo') = Len(undo) + 1
        BY ONLY <2>a, <4>1, <4>2, AppendProperties
      <4>4. past' \in Seq(Overlays) /\ Len(past') = Len(past) + 1
        BY ONLY <2>a, <4>1, <4>2, AppendProperties
      <4>5. QED
        BY Zenon, <2>2, <2>a, <4>1, <4>3, <4>4 DEF Record, Reactivate, UndoOf, TypeOK
    <3>3. QED
      BY <3>1, <3>2
  <2>3. CASE CompleteWrite
    BY Zenon, <2>3, <2>d DEF CompleteWrite, TypeOK
  <2>4. CASE FailWrite
    BY <2>4 DEF FailWrite, TypeOK
  <2>5. CASE PopUndo
    <3>1. undo # <<>> /\ past # <<>>
      BY <2>5, PopUndoLengths
    <3>2. Last(undo) \in UndoEntry
      BY <2>a, <3>1, FrontProperties
    <3>3. entries' \in Overlays
      BY <2>5, <3>2 DEF PopUndo, Overlays, UndoEntry, TypeOK
    <3>4. /\ Front(undo) \in Seq(UndoEntry) /\ Len(Front(undo)) = Len(undo) - 1
          /\ Front(past) \in Seq(Overlays) /\ Len(Front(past)) = Len(past) - 1
      BY ONLY <2>a, <3>1, FrontProperties
    <3>5. QED
      BY <2>5, <2>a, <3>3, <3>4 DEF PopUndo, TypeOK
  <2>6. CASE FinishRewind
    <3>1. rolledBack' \in BOOLEAN
      BY <2>6 DEF FinishRewind, WriteMark, TypeOK
    <3>2. QED
      BY Zenon, <2>6, <2>d, <3>1 DEF FinishRewind, TypeOK
  <2>7. CASE FinishRollback
    BY <2>7 DEF FinishRollback, FrameRemains, TypeOK
  <2>8. CASE Checkpoint
    <3>1. Append(frames, Len(undo)) \in Seq(Nat) /\ Append(frames, Len(undo)) # <<>>
      BY ONLY <2>b, <2>c, AppendProperties
    <3>2. frames' \in Seq(Nat) /\ frames' # <<>>
      BY Zenon, <2>8, <2>b, <3>1 DEF Checkpoint
    <3>3. QED
      BY Zenon, <2>8, <3>2 DEF Checkpoint, TypeOK
  <2>9. CASE Rollback
    <3>1. /\ Front(frames) \in Seq(Nat) /\ Len(Front(frames)) = Len(frames) - 1
          /\ Len(frames) \in Nat
      BY ONLY <2>b, FrontProperties
    <3>2. Len(frames) > 1 => Front(frames) # <<>>
      <4> DEFINE m == Len(frames)
                 n == Len(Front(frames))
      <4>1. m \in Nat /\ n = m - 1
        BY <3>1, Zenon
      <4> HIDE DEF m, n
      <4>2. m > 1 => n # 0
        BY ONLY <4>1
      <4>3. QED
        BY ONLY <4>2, EmptyLen, Zenon DEF m, n
    <3>3. frames' \in Seq(Nat) /\ frames' # <<>>
      BY <2>9, <2>b, <3>1, <3>2 DEF Rollback, FrameRemains
    <3>4. QED
      BY <2>9, <3>3 DEF Rollback, FrameRemains, TypeOK
  <2>10. CASE RollbackExhausted
    BY <2>10 DEF RollbackExhausted, vars, TypeOK
  <2>11. CASE UNCHANGED vars
    BY <2>11 DEF vars, TypeOK
  <2>12. QED
    BY <2>1, <2>2, <2>3, <2>4, <2>5, <2>6, <2>7, <2>8, <2>9, <2>10, <2>11 DEF Next
<1>3. QED
    BY <1>1, <1>2, PTL DEF Spec

-----------------------------------------------------------------------------
(* MarkersOrdered and RolledBackIsEmpty support each other: a rollback may drop
   a frame without undoing anything because that frame is known to be empty. *)
FrameInv == MarkersOrdered /\ RolledBackIsEmpty

(* Every step of the journal keeps its markers meaningful. *)
LEMMA FrameStep == TypeOK /\ FrameInv /\ [Next]_vars /\ TypeOK' => FrameInv'
<1> SUFFICES ASSUME TypeOK, FrameInv, [Next]_vars, TypeOK' PROVE FrameInv'
    OBVIOUS
<1>a. /\ Len(undo) \in Nat /\ Len(frames) \in Nat \ {0}
      /\ \A i \in 1..Len(frames) : frames[i] \in Nat
      /\ Last(frames) = frames[Len(frames)] /\ Last(frames) \in Nat
      /\ mark.undo_len \in Nat
    BY LengthsAreNat
<1>b. /\ \A i, j \in 1..Len(frames) : i <= j => frames[i] <= frames[j]
      /\ Last(frames) <= Len(undo)
      /\ phase \in {"writing", "rewinding"} =>
            Last(frames) <= mark.undo_len /\ mark.undo_len <= Len(undo)
    BY Zenon DEF FrameInv, MarkersOrdered
<1>c. /\ rolledBack /\ phase # "rolling back" => Len(undo) = Last(frames)
      /\ phase \in {"writing", "rewinding"} /\ mark.rolled_back =>
            mark.undo_len = Last(frames)
    BY Zenon DEF FrameInv, RolledBackIsEmpty
<1>1. CASE BeginWrite
    BY <1>1, <1>a DEF BeginWrite, FrameInv, MarkersOrdered, RolledBackIsEmpty
<1>2. ASSUME NEW k \in Keys, NEW v \in Staged, Record(k, v) PROVE FrameInv'
  <2>1. Len(undo') = Len(undo) \/ Len(undo') = Len(undo) + 1
    <3> DEFINE e == UndoOf(k)
    <3>1. undo \in Seq(UndoEntry) /\ e \in UndoEntry
      BY DEF TypeOK, UndoEntry, Overlays, UndoOf
    <3>2. undo' = undo \/ undo' = Append(undo, e)
      BY <1>2 DEF Record, Reactivate
    <3> HIDE DEF e
    <3>3. Len(Append(undo, e)) = Len(undo) + 1
      BY <3>1, AppendProperties
    <3>4. QED
      BY <3>2, <3>3
  <2>2. /\ UNCHANGED <<frames, phase, mark>> /\ phase = "writing" /\ rolledBack' = FALSE
    BY <1>2 DEF Record, Reactivate
  <2>3. QED
    BY <1>a, <2>1, <2>2 DEF FrameInv, MarkersOrdered, RolledBackIsEmpty, Last
<1>3. CASE CompleteWrite
    BY <1>3, <1>a DEF CompleteWrite, FrameInv, MarkersOrdered, RolledBackIsEmpty, NoMark
<1>4. CASE FailWrite
    BY <1>4, <1>a DEF FailWrite, FrameInv, MarkersOrdered, RolledBackIsEmpty
<1>5. CASE PopUndo
  <2>1. Len(undo') = Len(undo) - 1 /\ Len(undo) > UndoTarget
    BY <1>5, PopUndoLengths
  <2>2. /\ UNCHANGED <<frames, rolledBack, phase, mark>>
        /\ phase \in {"rewinding", "rolling back"}
    BY <1>5 DEF PopUndo
  <2>3. Last(frames)' = Last(frames)
    BY <2>2 DEF Last
  <2>4. CASE phase = "rewinding"
    <3>1. /\ UndoTarget = mark.undo_len
          /\ Last(frames) <= mark.undo_len
      BY <2>4, <1>b DEF UndoTarget
    <3>2. mark.undo_len <= Len(undo') /\ Last(frames) <= Len(undo') /\ Len(undo) # Last(frames)
      BY ONLY <1>a, <2>1, <3>1
    <3>3. MarkersOrdered'
      BY <1>b, <2>2, <2>3, <3>1, <3>2 DEF MarkersOrdered
    <3>4. RolledBackIsEmpty'
      BY <1>c, <2>2, <2>3, <2>4, <3>2 DEF RolledBackIsEmpty
    <3>5. QED
      BY <3>3, <3>4 DEF FrameInv
  <2>5. CASE phase = "rolling back"
    <3>1. UndoTarget = Last(frames)
      BY <2>5 DEF UndoTarget
    <3>2. Last(frames) <= Len(undo')
      BY ONLY <1>a, <2>1, <3>1
    <3>3. QED
      BY <1>b, <2>2, <2>3, <2>5, <3>2 DEF FrameInv, MarkersOrdered, RolledBackIsEmpty
  <2>6. QED
    BY <2>2, <2>4, <2>5
<1>6. CASE FinishRewind
    BY <1>6, <1>a DEF FinishRewind, FrameInv, MarkersOrdered, RolledBackIsEmpty, UndoTarget, NoMark, Last
<1>7. CASE FinishRollback
  <2>1. Last(frames)' = Last(frames)
    BY <1>7 DEF FinishRollback, Last
  <2>2. MarkersOrdered'
    BY <1>7, <2>1 DEF FinishRollback, FrameInv, MarkersOrdered
  <2>3. Len(undo) = Last(frames)
    <3>1. Len(undo) <= Last(frames)
      BY <1>7 DEF FinishRollback, UndoTarget
    <3>2. QED
      BY ONLY <1>a, <1>b, <3>1
  <2>4. RolledBackIsEmpty'
    BY <1>7, <2>1, <2>3 DEF FinishRollback, RolledBackIsEmpty
  <2>5. QED
    BY <2>2, <2>4 DEF FrameInv
<1>8. CASE Checkpoint
  <2>1. CASE rolledBack
    BY <1>8, <1>a, <2>1 DEF Checkpoint, FrameInv, MarkersOrdered, RolledBackIsEmpty, Last
  <2>2. CASE ~rolledBack
    <3>1. frames' = Append(frames, Len(undo)) /\ frames \in Seq(Nat)
      BY <1>8, <2>2 DEF Checkpoint, TypeOK
    <3>2. /\ Len(frames') = Len(frames) + 1
          /\ \A i \in 1..Len(frames) : frames'[i] = frames[i]
          /\ frames'[Len(frames) + 1] = Len(undo)
      BY <3>1, <1>a, AppendProperties
    <3>3. \A i \in 1..Len(frames) : frames[i] <= Len(undo)
      BY <1>a DEF FrameInv, MarkersOrdered
    <3>4. UNCHANGED <<undo, phase, mark>> /\ phase = "idle" /\ rolledBack' = FALSE
      BY <1>8 DEF Checkpoint
    <3>5. QED
      BY <1>a, <3>2, <3>3, <3>4 DEF FrameInv, MarkersOrdered, RolledBackIsEmpty, Last
  <2>3. QED
    BY <2>1, <2>2
<1>9. CASE Rollback
  <2>0. UNCHANGED <<undo, rolledBack, mark>> /\ phase' = "rolling back"
    BY <1>9 DEF Rollback
  <2>1. CASE ~rolledBack
    BY <1>9, <1>a, <2>0, <2>1 DEF Rollback, FrameInv, MarkersOrdered, RolledBackIsEmpty, Last
  <2>2. CASE rolledBack
    <3>1. /\ frames' = Front(frames) /\ frames \in Seq(Nat) /\ frames # <<>>
          /\ Len(frames) > 1
      BY <1>9, <2>2 DEF Rollback, FrameRemains, TypeOK
    <3>2. /\ Len(frames') = Len(frames) - 1
          /\ \A i \in 1..(Len(frames) - 1) : frames'[i] = frames[i]
      BY Zenon, <3>1, FrontProperties
    <3>3. \A i, j \in 1..Len(frames') : i <= j => frames'[i] <= frames'[j]
      BY <1>a, <3>1, <3>2 DEF FrameInv, MarkersOrdered
    <3>4. Last(frames)' = frames[Len(frames) - 1] /\ Last(frames)' <= Last(frames)
      BY <1>a, <3>1, <3>2 DEF FrameInv, MarkersOrdered, Last
    <3>5. Last(frames)' <= Len(undo')
      <4>1. Last(frames)' \in Nat
        BY <1>a, <3>1, <3>4
      <4>2. Last(frames)' <= Len(undo)
        BY ONLY <1>a, <1>b, <3>4, <4>1
      <4>3. QED
        BY <2>0, <4>2
    <3>6. QED
      BY <2>0, <3>3, <3>5 DEF FrameInv, MarkersOrdered, RolledBackIsEmpty
  <2>3. QED
    BY <2>1, <2>2
<1>10. CASE RollbackExhausted \/ UNCHANGED vars
  <2>1. UNCHANGED vars
    BY <1>10 DEF RollbackExhausted
  <2>2. Last(frames)' = Last(frames)
    BY <2>1 DEF vars, Last
  <2>3. QED
    BY <2>1, <2>2 DEF vars, FrameInv, MarkersOrdered, RolledBackIsEmpty
<1>11. QED
    BY <1>1, <1>2, <1>3, <1>4, <1>5, <1>6, <1>7, <1>8, <1>9, <1>10 DEF Next

(* The frame markers of the journal are ordered positions of its undo log, and
   a frame flagged as rolled back holds no changes. *)
THEOREM FramesCorrect == Spec => [](MarkersOrdered /\ RolledBackIsEmpty)
<1>1. Init => FrameInv
  <2>1. Len(<<0>>) = 1 /\ <<0>>[1] = 0
    OBVIOUS
  <2>2. QED
    BY <2>1, EmptyLen DEF Init, FrameInv, MarkersOrdered, RolledBackIsEmpty, Last, NoMark
<1>2. QED
    BY <1>1, TypeCorrect, FrameStep, PTL DEF Spec, FrameInv

(* The journal's data stay well formed: markers ascend within the undo log, and a
   frame still flagged as rolled back has nothing left to undo, which is why a
   checkpoint after a rollback may reuse it. *)
THEOREM ConsistencyCorrect == Spec => []FramesConsistent
BY TypeCorrect, FramesCorrect, PTL DEF FramesConsistent

-----------------------------------------------------------------------------
(* Every step keeps the undo log the inverse of what was recorded. *)
LEMMA InvertStep == TypeOK /\ UndoInverts /\ [Next]_vars => UndoInverts'
<1> SUFFICES ASSUME TypeOK, UndoInverts, [Next]_vars PROVE UndoInverts'
    OBVIOUS
<1> DEFINE n == Len(undo)
<1>a. n \in Nat /\ Len(past) = n
    BY LengthsAreNat
<1>b. undo \in Seq(UndoEntry) /\ past \in Seq(Overlays) /\ entries \in Overlays
    BY DEF TypeOK
<1>1. CASE UNCHANGED <<entries, undo, past>>
    BY <1>1 DEF UndoInverts, At
<1>2. ASSUME NEW k \in Keys, NEW v \in Staged, Record(k, v), entries[k] # v
      PROVE  UndoInverts'
  <2> DEFINE e == UndoOf(k)
  <2>1. e \in UndoEntry /\ e.key = k /\ e.previous = entries[k]
    BY <1>b DEF UndoEntry, Overlays, UndoOf
  <2>2. /\ undo' = Append(undo, e) /\ past' = Append(past, entries)
        /\ entries' = [entries EXCEPT ![k] = v]
    BY <1>2 DEF Record, Reactivate
  <2> HIDE DEF e
  <2>3. /\ Len(undo') = n + 1 /\ undo'[n + 1] = e
        /\ \A i \in 1..n : undo'[i] = undo[i]
    BY <1>b, <2>1, <2>2, AppendProperties
  <2>4. /\ past'[n + 1] = entries
        /\ \A i \in 1..n : past'[i] = past[i]
    BY <1>a, <1>b, <2>2, AppendProperties
  <2>5. ASSUME NEW i \in 1..(n + 1)
        PROVE  past'[i] = [At(i)' EXCEPT ![undo'[i].key] = undo'[i].previous]
    <3>1. CASE i = n + 1
      <4>1. At(i)' = entries'
        BY <2>3, <3>1 DEF At
      <4>2. [entries' EXCEPT ![k] = entries[k]] = entries
        BY Zenon, <1>b, <2>2 DEF Overlays
      <4>3. QED
        BY <2>1, <2>3, <2>4, <3>1, <4>1, <4>2
    <3>2. CASE i # n + 1
      <4>1. i \in 1..n /\ i # Len(undo') /\ (i # n => i + 1 \in 1..n)
        BY <1>a, <2>3, <3>2
      <4>2. At(i)' = past'[i + 1]
        BY <4>1 DEF At
      <4>3. At(i)' = At(i)
        BY <2>4, <4>1, <4>2 DEF At
      <4>4. QED
        BY Zenon, <2>3, <2>4, <4>1, <4>3 DEF UndoInverts
    <3>3. QED
      BY <3>1, <3>2
  <2>6. QED
    BY <2>3, <2>5 DEF UndoInverts
<1>3. CASE PopUndo
  <2>1. /\ undo # <<>> /\ past # <<>>
        /\ undo' = Front(undo) /\ past' = Front(past)
        /\ entries' = [entries EXCEPT ![undo[n].key] = undo[n].previous]
    BY <1>3, PopUndoLengths DEF PopUndo, Last
  <2>2. n \in Nat \ {0} /\ n \in 1..n
    BY <1>b, <2>1, FrontProperties
  <2>3. /\ Len(undo') = n - 1
        /\ \A i \in 1..(n - 1) : undo'[i] = undo[i]
        /\ \A i \in 1..(n - 1) : past'[i] = past[i]
    BY Zenon, <1>a, <1>b, <2>1, FrontProperties
  <2>4. entries' = past[n]
    BY Zenon, <2>1, <2>2 DEF UndoInverts, At
  <2>5. ASSUME NEW i \in 1..(n - 1)
        PROVE  past'[i] = [At(i)' EXCEPT ![undo'[i].key] = undo'[i].previous]
    <3>1. i \in 1..n /\ i # n /\ i + 1 \in 1..n /\ (i # n - 1 => i + 1 \in 1..(n - 1))
      BY <2>2
    <3>2. At(i) = past[i + 1]
      BY <3>1 DEF At
    <3>3. At(i)' = past[i + 1]
      BY <2>2, <2>3, <2>4, <3>1 DEF At
    <3>4. past[i] = [At(i) EXCEPT ![undo[i].key] = undo[i].previous]
      BY Zenon, <3>1 DEF UndoInverts
    <3>5. past'[i] = past[i] /\ undo'[i] = undo[i] /\ At(i)' = At(i)
      BY <2>3, <3>2, <3>3
    <3>6. QED
      BY <3>4, <3>5
  <2>6. QED
    BY <2>3, <2>5 DEF UndoInverts
<1>4. ASSUME NEW k \in Keys, NEW v \in Staged, Record(k, v) PROVE UndoInverts'
    BY Zenon, <1>1, <1>2, <1>4 DEF Record, Reactivate
<1>5. QED
    BY <1>1, <1>3, <1>4 DEF Next, vars, BeginWrite, CompleteWrite, FailWrite,
        FinishRewind, FinishRollback, Checkpoint, Rollback, RollbackExhausted

(* Every suffix of the undo log inverts the changes recorded since it: this is
   what lets Journal::undo_to restore an overlay it never stored. *)
THEOREM UndoCorrect == Spec => []UndoInverts
<1>1. Init => UndoInverts
    BY EmptyLen DEF Init, UndoInverts
<1>2. QED
    BY <1>1, TypeCorrect, InvertStep, PTL DEF Spec

-----------------------------------------------------------------------------
(* The journal implements Frames.  A group that still runs under a rolled-back
   flag began under one, so completing it leaves the frame consumed. *)
FlagInherited ==
    phase \in {"writing", "rewinding"} /\ rolledBack => mark.rolled_back

(* While a group runs, the flag is set only if it was set when it began. *)
LEMMA FlagCorrect == Spec => []FlagInherited
<1>1. Init => FlagInherited
    BY DEF Init, FlagInherited
<1>2. FlagInherited /\ [Next]_vars => FlagInherited'
  <2> SUFFICES ASSUME FlagInherited, [Next]_vars PROVE FlagInherited'
    OBVIOUS
  <2>1. CASE BeginWrite
    BY <2>1 DEF BeginWrite, FlagInherited
  <2>2. ASSUME NEW k \in Keys, NEW v \in Staged, Record(k, v) PROVE FlagInherited'
    BY <2>2 DEF Record, Reactivate, UndoOf, FlagInherited
  <2>3. CASE FailWrite \/ PopUndo \/ UNCHANGED vars
    BY <2>3 DEF FailWrite, PopUndo, vars, FlagInherited
  <2>4. CASE CompleteWrite \/ FinishRewind \/ FinishRollback
    BY <2>4 DEF CompleteWrite, FinishRewind, FinishRollback, FlagInherited
  <2>5. CASE Checkpoint \/ Rollback \/ RollbackExhausted
    BY <2>5 DEF Checkpoint, Rollback, RollbackExhausted, FlagInherited, vars
  <2>6. QED
    BY <2>1, <2>2, <2>3, <2>4, <2>5 DEF Next
<1>3. QED
    BY <1>1, <1>2, PTL DEF Spec

JInv == TypeOK /\ FrameInv /\ UndoInverts /\ FlagInherited

(* Steps of the log preserve the remembered overlays below it. *)
LEMMA RecordKeepsPast ==
    ASSUME JInv, NEW k \in Keys, NEW v \in Staged, Record(k, v),
           NEW j \in 0..Len(undo)
    PROVE  At(j)' = At(j)
<1>0. TypeOK
    BY DEF JInv
<1>a. Len(undo) \in Nat /\ Len(past) = Len(undo)
    BY <1>0, LengthsAreNat
<1>b. undo \in Seq(UndoEntry) /\ past \in Seq(Overlays) /\ entries \in Overlays
    BY <1>0 DEF TypeOK
<1>1. CASE UNCHANGED <<entries, undo, past>>
    BY <1>1 DEF At
<1>2. CASE entries[k] # v
  <2> DEFINE e == UndoOf(k)
  <2>1. e \in UndoEntry
    BY <1>b DEF UndoEntry, Overlays, UndoOf
  <2>2. undo' = Append(undo, e) /\ past' = Append(past, entries)
    BY <1>2 DEF Record, Reactivate
  <2> HIDE DEF e
  <2>3. Len(undo') = Len(undo) + 1
    BY <1>b, <2>1, <2>2, AppendProperties
  <2>4. /\ past'[Len(undo) + 1] = entries
        /\ \A i \in 1..Len(undo) : past'[i] = past[i]
    BY <1>a, <1>b, <2>2, AppendProperties
  <2>5. j # Len(undo') /\ (j # Len(undo) => j + 1 \in 1..Len(undo))
    BY <1>a, <2>3
  <2>6. QED
    BY <2>4, <2>5 DEF At
<1>3. QED
    BY <1>1, <1>2 DEF Record, Reactivate

(* Undoing the newest change keeps the overlays remembered below it. *)
LEMMA PopKeepsPast ==
    ASSUME JInv, PopUndo, NEW j \in 0..(Len(undo) - 1)
    PROVE  At(j)' = At(j)
<1>0. TypeOK /\ UndoInverts
    BY DEF JInv
<1> DEFINE n == Len(undo)
<1>a. n \in Nat /\ Len(past) = n
    BY <1>0, LengthsAreNat
<1>b. undo \in Seq(UndoEntry) /\ past \in Seq(Overlays)
    BY <1>0 DEF TypeOK
<1>1. /\ undo # <<>> /\ past # <<>>
      /\ undo' = Front(undo) /\ past' = Front(past)
      /\ entries' = [entries EXCEPT ![undo[n].key] = undo[n].previous]
    BY <1>0, PopUndoLengths DEF PopUndo, Last
<1>2. n \in Nat \ {0} /\ n \in 1..n
    BY <1>b, <1>1, FrontProperties
<1>3. /\ Len(undo') = n - 1
      /\ \A i \in 1..(n - 1) : past'[i] = past[i]
    BY Zenon, <1>a, <1>b, <1>1, FrontProperties
<1>4. entries' = past[n]
    BY Zenon, <1>0, <1>1, <1>2 DEF UndoInverts, At
<1>5. j # n /\ (j # n - 1 => j + 1 \in 1..(n - 1)) /\ (j = n - 1 => j + 1 = n)
    BY <1>2
<1>6. QED
    BY <1>3, <1>4, <1>5 DEF At

(* While a group runs, and while it is rewound, the state saved when it began is
   the overlay at its mark, the undo log up to its mark, the frames, and the flag
   its mark remembers. *)
GroupInv ==
    phase \in {"writing", "rewinding"} =>
        /\ before.entries = At(mark.undo_len)
        /\ Len(before.undo) = mark.undo_len
        /\ \A i \in 1..mark.undo_len : undo[i] = before.undo[i]
        /\ before.frames = frames
        /\ before.rolled_back = mark.rolled_back

(* A change that is recorded or undone above the mark leaves the log below it
   alone. *)
LEMMA LogKept ==
    ASSUME JInv, phase \in {"writing", "rewinding"},
           \/ \E k \in Keys, v \in Staged : Record(k, v)
           \/ PopUndo
    PROVE  \A i \in 1..mark.undo_len : undo'[i] = undo[i]
<1>0. TypeOK /\ mark.undo_len <= Len(undo)
    BY Zenon DEF JInv, FrameInv, MarkersOrdered
<1>a. Len(undo) \in Nat /\ mark.undo_len \in Nat
    BY <1>0, LengthsAreNat
<1>b. undo \in Seq(UndoEntry) /\ entries \in Overlays
    BY <1>0 DEF TypeOK
<1>1. \A i \in 1..mark.undo_len : i \in 1..Len(undo)
    BY ONLY <1>0, <1>a
<1>2. CASE PopUndo
  <2>1. undo # <<>> /\ Len(undo) > UndoTarget
    BY <1>0, <1>2, PopUndoLengths
  <2>2. undo' = Front(undo) /\ UndoTarget = mark.undo_len
    BY <1>2 DEF PopUndo, UndoTarget
  <2>3. \A i \in 1..(Len(undo) - 1) : Front(undo)[i] = undo[i]
    BY Zenon, <1>b, <2>1, FrontProperties
  <2>4. \A i \in 1..mark.undo_len : i \in 1..(Len(undo) - 1)
    BY ONLY <1>a, <2>1, <2>2
  <2>5. QED
    BY Zenon, <2>2, <2>3, <2>4
<1>3. ASSUME NEW k \in Keys, NEW v \in Staged, Record(k, v)
      PROVE  \A i \in 1..mark.undo_len : undo'[i] = undo[i]
  <2> DEFINE e == UndoOf(k)
  <2>1. e \in UndoEntry
    BY <1>b DEF UndoEntry, Overlays, UndoOf
  <2>2. undo' = undo \/ undo' = Append(undo, e)
    BY Zenon, <1>3 DEF Record
  <2> HIDE DEF e
  <2>3. \A i \in 1..Len(undo) : Append(undo, e)[i] = undo[i]
    BY <1>b, <2>1, AppendProperties
  <2>4. QED
    BY Zenon, <1>1, <2>2, <2>3
<1>4. QED
    BY Zenon, <1>2, <1>3

(* Every step keeps what the running group saved. *)
LEMMA GroupStep == JInv /\ GroupInv /\ [Next]_vars => GroupInv'
<1> SUFFICES ASSUME JInv, GroupInv, [Next]_vars PROVE GroupInv'
    OBVIOUS
<1>0. TypeOK /\ (phase \in {"writing", "rewinding"} => mark.undo_len <= Len(undo))
    BY Zenon DEF JInv, FrameInv, MarkersOrdered
<1>a. Len(undo) \in Nat /\ mark.undo_len \in Nat
    BY <1>0, LengthsAreNat
<1>1. CASE BeginWrite
  <2>1. /\ mark'.undo_len = Len(undo) /\ mark'.rolled_back = rolledBack
        /\ before'.entries = entries /\ before'.undo = undo /\ before'.frames = frames
        /\ before'.rolled_back = rolledBack
        /\ UNCHANGED <<entries, undo, frames, past>>
    BY <1>1 DEF BeginWrite
  <2>2. At(mark.undo_len)' = entries
    BY Zenon, <2>1 DEF At
  <2>3. QED
    BY Zenon, <2>1, <2>2 DEF GroupInv
<1>2. ASSUME phase \in {"writing", "rewinding"}, UNCHANGED <<frames, phase, mark, before>>,
             At(mark.undo_len)' = At(mark.undo_len),
             \A i \in 1..mark.undo_len : undo'[i] = undo[i]
      PROVE  GroupInv'
    BY Zenon, <1>2 DEF GroupInv
<1>3. ASSUME NEW k \in Keys, NEW v \in Staged, Record(k, v) PROVE GroupInv'
  <2>1. phase = "writing" /\ UNCHANGED <<frames, phase, mark, before>>
    BY Zenon, <1>3 DEF Record
  <2>2. mark.undo_len \in 0..Len(undo)
    BY <1>0, <1>a, <2>1
  <2> DEFINE m == mark.undo_len
  <2>3. m \in 0..Len(undo) /\ m' = m
    BY Zenon, <2>1, <2>2
  <2> HIDE DEF m
  <2>4. (IF m = Len(undo') THEN entries' ELSE past'[m + 1]) = At(m)
    BY <1>3, <2>3, RecordKeepsPast DEF At
  <2>5. At(mark.undo_len)' = At(mark.undo_len)
    BY Zenon, <2>1, <2>4 DEF At, m
  <2>6. \A i \in 1..mark.undo_len : undo'[i] = undo[i]
    BY Zenon, <1>3, <2>1, LogKept
  <2>7. QED
    BY Zenon, <1>2, <2>1, <2>5, <2>6
<1>4. CASE FailWrite
    BY Zenon, <1>4 DEF FailWrite, GroupInv, At
<1>5. CASE PopUndo
  <2>1. CASE phase = "rewinding"
    <3>1. UNCHANGED <<frames, phase, mark, before>> /\ Len(undo) > mark.undo_len
      BY <1>5, <2>1 DEF PopUndo, UndoTarget
    <3> DEFINE m == mark.undo_len
    <3>2. m \in 0..(Len(undo) - 1)
      BY ONLY <1>a, <3>1
    <3> HIDE DEF m
    <3>3. (IF m = Len(undo') THEN entries' ELSE past'[m + 1]) = At(m)
      BY <1>5, <3>2, PopKeepsPast DEF At
    <3>4. At(mark.undo_len)' = At(mark.undo_len)
      BY Zenon, <3>1, <3>3 DEF At, m
    <3>5. \A i \in 1..mark.undo_len : undo'[i] = undo[i]
      BY Zenon, <1>5, <2>1, LogKept
    <3>6. QED
      BY Zenon, <1>2, <2>1, <3>1, <3>4, <3>5
  <2>2. CASE phase # "rewinding"
    BY <1>5, <2>2 DEF PopUndo, GroupInv
  <2>3. QED
    BY Zenon, <2>1, <2>2
<1>6. CASE CompleteWrite \/ FinishRewind \/ FinishRollback \/ Checkpoint \/ Rollback
    BY <1>6 DEF CompleteWrite, FinishRewind, FinishRollback, Checkpoint, Rollback, GroupInv
<1>7. CASE RollbackExhausted \/ UNCHANGED vars
    BY Zenon, <1>7 DEF RollbackExhausted, vars, GroupInv, At
<1>8. QED
    BY Zenon, <1>1, <1>3, <1>4, <1>5, <1>6, <1>7 DEF Next

(* A failed or panicking write group leaves the overlay, the undo log, the frames
   and the rolled-back flag exactly as they were when the call began, however many
   writes it made (Branches::write): the rewind stops at the mark, where the log
   has its old entries and, as it inverts what it recorded, the overlay its old
   cells. *)
THEOREM FailedGroupsRestore == Spec => FailedGroupRestores
<1> DEFINE Restores == phase = "rewinding" /\ phase' = "idle" =>
                         /\ entries' = before.entries
                         /\ undo' = before.undo
                         /\ frames' = before.frames
                         /\ rolledBack' = before.rolled_back
<1>1. JInv /\ GroupInv /\ [Next]_vars => [Restores]_vars
  <2> SUFFICES ASSUME JInv, GroupInv, Next, phase = "rewinding", phase' = "idle"
               PROVE  /\ entries' = before.entries
                      /\ undo' = before.undo
                      /\ frames' = before.frames
                      /\ rolledBack' = before.rolled_back
    BY DEF vars
  <2>0. TypeOK /\ mark.undo_len <= Len(undo)
    BY Zenon DEF JInv, FrameInv, MarkersOrdered
  <2>1. FinishRewind
    BY DEF Next, BeginWrite, Record, CompleteWrite, FailWrite, PopUndo, FinishRollback,
        Checkpoint, Rollback, RollbackExhausted, vars
  <2>2. Len(undo) \in Nat /\ mark.undo_len \in Nat
    BY <2>0, LengthsAreNat
  <2>3. Len(undo) <= mark.undo_len
    BY <2>1 DEF FinishRewind, UndoTarget
  <2>4. Len(undo) = mark.undo_len
    BY ONLY <2>0, <2>2, <2>3
  <2>5. /\ before.entries = At(mark.undo_len) /\ Len(before.undo) = mark.undo_len
        /\ \A i \in 1..mark.undo_len : undo[i] = before.undo[i]
        /\ before.frames = frames /\ before.rolled_back = mark.rolled_back
    BY Zenon DEF GroupInv
  <2>6. before.entries = entries
    BY Zenon, <2>4, <2>5 DEF At
  <2>7. before.undo = undo
    <3>1. undo \in Seq(UndoEntry) /\ before.undo \in Seq(UndoEntry)
      BY <2>0 DEF TypeOK, Saved
    <3> DEFINE old == before.undo
    <3>2. old \in Seq(UndoEntry) /\ Len(old) = Len(undo) /\ \A i \in 1..Len(undo) : undo[i] = old[i]
      BY Zenon, <2>4, <2>5, <3>1
    <3> HIDE DEF old
    <3>3. undo = old
      BY <3>1, <3>2, SeqEqual
    <3>4. QED
      BY Zenon, <3>3 DEF old
  <2>8. QED
    BY Zenon, <2>1, <2>5, <2>6, <2>7 DEF FinishRewind
<1>2. Init => GroupInv
    BY DEF Init, GroupInv
<1>3. JInv <=> TypeOK /\ (MarkersOrdered /\ RolledBackIsEmpty) /\ UndoInverts /\ FlagInherited
    BY DEF JInv, FrameInv
<1>4. QED
    BY <1>1, <1>2, <1>3, GroupStep, TypeCorrect, FramesCorrect, UndoCorrect, FlagCorrect, PTL
        DEF Spec, FailedGroupRestores

(* Sequences given as functions: what Append and SubSeq do to them. *)
LEMMA FunIsSeq ==
    ASSUME NEW S, NEW n \in Nat, NEW f \in [1..n -> S]
    PROVE  f \in Seq(S) /\ Len(f) = n
    OBVIOUS

(* Appending, as Journal::checkpoint does to the frames. *)
LEMMA AppendFun ==
    ASSUME NEW S, NEW n \in Nat, NEW f \in [1..n -> S], NEW g \in [1..(n + 1) -> S],
           \A i \in 1..n : g[i] = f[i]
    PROVE  g = Append(f, g[n + 1])
<1>1. f \in Seq(S) /\ Len(f) = n
    BY FunIsSeq
<1>2. n + 1 \in Nat /\ g[n + 1] \in S
    OBVIOUS
<1>3. g \in Seq(S) /\ Len(g) = n + 1
    BY <1>2, FunIsSeq
<1> DEFINE h == Append(f, g[n + 1])
<1>4. /\ h \in Seq(S) /\ Len(h) = n + 1
      /\ \A i \in 1..n : h[i] = f[i]
      /\ h[n + 1] = g[n + 1]
    BY <1>1, <1>2, AppendProperties
<1> HIDE DEF h
<1>5. \A i \in 1..(n + 1) : i = n + 1 \/ i \in 1..n
    OBVIOUS
<1>6. \A i \in 1..Len(g) : g[i] = h[i]
    BY <1>3, <1>4, <1>5
<1>7. g = h
    BY <1>3, <1>4, <1>6, SeqEqual
<1>8. QED
    BY <1>7 DEF h

(* Dropping the last element, as Journal::rollback does to the frames. *)
LEMMA FrontFun ==
    ASSUME NEW S, NEW n \in Nat \ {0}, NEW f \in [1..n -> S], NEW g \in [1..(n - 1) -> S],
           \A i \in 1..(n - 1) : g[i] = f[i]
    PROVE  g = SubSeq(f, 1, Len(f) - 1)
<1>1. f \in Seq(S) /\ Len(f) = n
    BY FunIsSeq
<1>2. n - 1 \in Nat
    OBVIOUS
<1>3. g \in Seq(S) /\ Len(g) = n - 1
    BY <1>2, FunIsSeq
<1>4. f # <<>>
    BY <1>1, EmptyLen
<1> DEFINE h == Front(f)
<1>5. h \in Seq(S) /\ Len(h) = n - 1 /\ \A i \in 1..(n - 1) : h[i] = f[i]
    BY <1>1, <1>4, FrontProperties
<1> HIDE DEF h
<1>6. g = h
    BY <1>3, <1>5, SeqEqual
<1>7. QED
    BY <1>6 DEF h, Front

(* A step that keeps the settled length and flag, the frames, and the overlay
   at the settled length and at every frame is invisible to Frames. *)
LEMMA Stutter ==
    ASSUME UNCHANGED frames, Settled' = Settled, SettledFlag' = SettledFlag,
           At(Settled)' = At(Settled),
           \A i \in 1..Len(frames) : At(frames[i])' = At(frames[i])
    PROVE  UNCHANGED Abstract!vars
<1>1. FrameStarts' = FrameStarts
    BY DEF FrameStarts
<1>2. QED
    BY <1>1 DEF Abstract!vars

(* The frames and the settled length lie within the undo log. *)
LEMMA Positions ==
    ASSUME JInv
    PROVE  /\ Settled \in 0..Len(undo)
           /\ \A i \in 1..Len(frames) : frames[i] \in 0..Last(frames)
           /\ \A i \in 1..Len(frames) : frames[i] \in 0..Len(undo)
           /\ Len(frames) \in 1..Len(frames)
           /\ Last(frames) = frames[Len(frames)]
<1>a. /\ Len(undo) \in Nat /\ Len(frames) \in Nat \ {0}
      /\ \A i \in 1..Len(frames) : frames[i] \in Nat
      /\ Last(frames) = frames[Len(frames)] /\ Last(frames) \in Nat
      /\ mark.undo_len \in Nat
    BY LengthsAreNat DEF JInv
<1>b. /\ \A i, j \in 1..Len(frames) : i <= j => frames[i] <= frames[j]
      /\ Last(frames) <= Len(undo)
      /\ phase \in {"writing", "rewinding"} => mark.undo_len <= Len(undo)
    BY Zenon DEF JInv, FrameInv, MarkersOrdered
<1>1. Len(frames) \in 1..Len(frames)
    BY ONLY <1>a
<1>2. ASSUME NEW i \in 1..Len(frames)
      PROVE  frames[i] \in 0..Last(frames) /\ frames[i] \in 0..Len(undo)
  <2>1. i <= Len(frames)
    BY <1>a
  <2>2. frames[i] <= Last(frames)
    BY <1>a, <1>b, <1>1, <2>1
  <2>3. QED
    BY ONLY <1>a, <1>b, <2>2, i \in 1..Len(frames)
<1>3. \/ Settled = Len(undo)
      \/ Settled = Last(frames)
      \/ Settled = mark.undo_len /\ phase \in {"writing", "rewinding"}
  <2>1. phase \in {"idle", "writing", "rewinding", "rolling back"}
    BY DEF JInv, TypeOK
  <2>2. QED
    BY <2>1 DEF Settled
<1>4. Settled \in 0..Len(undo)
  <2>1. Last(frames) \in 0..Len(undo) /\ Len(undo) \in 0..Len(undo)
    BY ONLY <1>a, <1>b
  <2>2. phase \in {"writing", "rewinding"} => mark.undo_len \in 0..Len(undo)
    BY <1>a, <1>b
  <2>3. QED
    BY <1>3, <2>1, <2>2
<1>5. QED
    BY <1>a, <1>1, <1>2, <1>4

(* The overlay at every position of the log is an overlay. *)
LEMMA AtTyped ==
    ASSUME TypeOK, NEW j \in 0..Len(undo)
    PROVE  At(j) \in Overlays
<1>1. past \in Seq(Overlays) /\ Len(past) = Len(undo) /\ entries \in Overlays
    BY DEF TypeOK
<1>2. j # Len(undo) => j + 1 \in 1..Len(past)
    BY <1>1, LengthsAreNat
<1>3. QED
    BY <1>1, <1>2, ElementOfSeq DEF At

(* Every step of the journal is a step of Frames, or invisible to it. *)
LEMMA RefineStep == JInv /\ [Next]_vars /\ TypeOK' => [Abstract!Next]_(Abstract!vars)
<1> SUFFICES ASSUME JInv, [Next]_vars, TypeOK' PROVE [Abstract!Next]_(Abstract!vars)
    OBVIOUS
<1>a. /\ Settled \in 0..Len(undo)
      /\ \A i \in 1..Len(frames) : frames[i] \in 0..Last(frames)
      /\ \A i \in 1..Len(frames) : frames[i] \in 0..Len(undo)
      /\ Len(frames) \in 1..Len(frames)
      /\ Last(frames) = frames[Len(frames)]
    BY Positions
<1>b. /\ Len(undo) \in Nat /\ Len(frames) \in Nat \ {0} /\ Last(frames) \in Nat
      /\ mark.undo_len \in Nat
    BY LengthsAreNat DEF JInv
<1>c. /\ Last(frames) <= Len(undo)
      /\ phase \in {"writing", "rewinding"} =>
            Last(frames) <= mark.undo_len /\ mark.undo_len <= Len(undo)
    BY Zenon DEF JInv, FrameInv, MarkersOrdered
<1>d. At(Len(undo)) = entries
    BY DEF At
<1>1. CASE BeginWrite
  <2>1. Settled' = Settled /\ SettledFlag' = SettledFlag /\ UNCHANGED frames
    BY <1>1 DEF BeginWrite, Settled, SettledFlag
  <2>2. At(Settled)' = At(Settled)
    BY <1>1, <2>1 DEF BeginWrite, At
  <2>3. \A i \in 1..Len(frames) : At(frames[i])' = At(frames[i])
    BY <1>1 DEF BeginWrite, At
  <2>4. QED
    BY <2>1, <2>2, <2>3, Stutter
<1>2. ASSUME NEW k \in Keys, NEW v \in Staged, Record(k, v)
      PROVE  [Abstract!Next]_(Abstract!vars)
  <2>1. Settled' = Settled /\ SettledFlag' = SettledFlag /\ UNCHANGED frames
    BY <1>2 DEF Record, Reactivate, UndoOf, Settled, SettledFlag
  <2>2. \A j \in 0..Len(undo) :
            (IF j = Len(undo') THEN entries' ELSE past'[j + 1]) = At(j)
    BY <1>2, RecordKeepsPast DEF At
  <2>3. At(Settled)' = At(Settled)
    BY <1>a, <2>1, <2>2 DEF At
  <2>4. \A i \in 1..Len(frames) : At(frames[i])' = At(frames[i])
    BY <1>a, <2>1, <2>2 DEF At
  <2>5. QED
    BY <2>1, <2>3, <2>4, Stutter
<1>3. CASE CompleteWrite
  <2>1. /\ UNCHANGED <<entries, undo, frames, rolledBack, past>> /\ phase = "writing"
        /\ phase' = "idle"
    BY <1>3 DEF CompleteWrite
  <2>2. /\ Settled = mark.undo_len /\ SettledFlag = mark.rolled_back
        /\ Settled' = Len(undo) /\ SettledFlag' = rolledBack
    BY <2>1 DEF Settled, SettledFlag
  <2>3. At(Settled)' = entries /\ entries \in Overlays
    BY <2>1, <2>2 DEF At, JInv, TypeOK
  <2>4. At(Settled)' # At(Settled) => Settled' > Settled
    <3>1. Settled = Len(undo) => At(Settled) = entries
      BY <1>d
    <3>2. Settled # Len(undo) => Len(undo) > Settled
      BY ONLY <1>a, <1>b
    <3>3. QED
      BY <2>2, <2>3, <3>1, <3>2
  <2>5. rolledBack => mark.rolled_back /\ Len(undo) = mark.undo_len
    <3>1. rolledBack => mark.rolled_back
      BY <2>1 DEF JInv, FlagInherited
    <3>2. rolledBack => Len(undo) = Last(frames)
      BY <2>1 DEF JInv, FrameInv, RolledBackIsEmpty
    <3>3. Last(frames) <= mark.undo_len /\ mark.undo_len <= Len(undo)
      BY <1>c, <2>1
    <3>4. QED
      BY <1>b, <3>1, <3>2, <3>3
  <2>6. FrameStarts' = FrameStarts
    BY <2>1 DEF FrameStarts, At
  <2>7. Settled' \in Nat /\ Settled' >= Settled /\ SettledFlag' \in BOOLEAN
    <3>1. Settled' \in Nat /\ Settled' >= Settled
      BY ONLY <1>a, <1>b, <2>2
    <3>2. rolledBack \in BOOLEAN
      BY DEF JInv, TypeOK
    <3>3. QED
      BY <2>2, <3>1, <3>2
  <2>8. Abstract!Write
    BY <2>2, <2>3, <2>4, <2>5, <2>6, <2>7 DEF Abstract!Write, Abstract!Overlays, Overlays
  <2>9. QED
    BY <2>8 DEF Abstract!Next
<1>4. CASE FailWrite
  <2>1. Settled' = Settled /\ SettledFlag' = SettledFlag /\ UNCHANGED frames
    BY <1>4 DEF FailWrite, Settled, SettledFlag
  <2>2. At(Settled)' = At(Settled)
    BY <1>4, <2>1 DEF FailWrite, At
  <2>3. \A i \in 1..Len(frames) : At(frames[i])' = At(frames[i])
    BY <1>4 DEF FailWrite, At
  <2>4. QED
    BY <2>1, <2>2, <2>3, Stutter
<1>5. CASE PopUndo
  <2>1. Settled' = Settled /\ SettledFlag' = SettledFlag /\ UNCHANGED frames
    BY <1>5 DEF PopUndo, Settled, SettledFlag, Last
  <2>2. \A j \in 0..(Len(undo) - 1) :
            (IF j = Len(undo') THEN entries' ELSE past'[j + 1]) = At(j)
    BY <1>5, PopKeepsPast DEF At
  <2>3. Settled = UndoTarget /\ Len(undo) > UndoTarget
    BY <1>5 DEF PopUndo, Settled, UndoTarget
  <2>4. Last(frames) <= UndoTarget
    <3>1. phase \in {"rewinding", "rolling back"}
      BY <1>5 DEF PopUndo
    <3>2. CASE phase = "rewinding"
      BY <1>c, <3>2 DEF UndoTarget
    <3>3. CASE phase = "rolling back"
      <4>1. UndoTarget = Last(frames)
        BY <3>3 DEF UndoTarget
      <4>2. QED
        BY ONLY <1>b, <4>1
    <3>4. QED
      BY <3>1, <3>2, <3>3
  <2>5. Settled \in 0..(Len(undo) - 1)
    BY ONLY <1>a, <1>b, <2>3
  <2>6. \A i \in 1..Len(frames) : frames[i] \in 0..(Len(undo) - 1)
    BY <1>a, <1>b, <2>3, <2>4, <2>5
  <2>7. At(Settled)' = At(Settled)
    BY <2>1, <2>2, <2>5 DEF At
  <2>8. \A i \in 1..Len(frames) : At(frames[i])' = At(frames[i])
    BY Zenon, <2>1, <2>2, <2>6 DEF At
  <2>9. QED
    BY <2>1, <2>7, <2>8, Stutter
<1>6. CASE FinishRewind
  <2>1. Len(undo) = mark.undo_len
    BY <1>6, <1>b, <1>c DEF FinishRewind, UndoTarget
  <2>2. Settled' = Settled /\ SettledFlag' = SettledFlag /\ UNCHANGED frames
    BY <1>6, <2>1 DEF FinishRewind, Settled, SettledFlag
  <2>3. At(Settled)' = At(Settled)
    BY <1>6, <2>2 DEF FinishRewind, At
  <2>4. \A i \in 1..Len(frames) : At(frames[i])' = At(frames[i])
    BY <1>6 DEF FinishRewind, At
  <2>5. QED
    BY <2>2, <2>3, <2>4, Stutter
<1>7. CASE FinishRollback
  <2>1. Len(undo) = Last(frames)
    <3>1. Len(undo) <= Last(frames)
      BY <1>7 DEF FinishRollback, UndoTarget
    <3>2. QED
      BY ONLY <1>b, <1>c, <3>1
  <2>2. Settled' = Settled /\ SettledFlag' = SettledFlag /\ UNCHANGED frames
    BY <1>7, <2>1 DEF FinishRollback, Settled, SettledFlag
  <2>3. At(Settled)' = At(Settled)
    BY <1>7, <2>2 DEF FinishRollback, At
  <2>4. \A i \in 1..Len(frames) : At(frames[i])' = At(frames[i])
    BY <1>7 DEF FinishRollback, At
  <2>5. QED
    BY <2>2, <2>3, <2>4, Stutter
<1> DEFINE S == [cells : Overlays, version : Nat]
<1>e. FrameStarts \in [1..Len(frames) -> S]
  <2>1. ASSUME NEW i \in 1..Len(frames)
        PROVE  At(frames[i]) \in Overlays /\ frames[i] \in Nat
    BY <1>a, AtTyped DEF JInv
  <2>2. QED
    BY <2>1 DEF FrameStarts
<1>8. CASE Checkpoint
  <2>0. /\ UNCHANGED <<entries, undo, phase, mark, past>> /\ phase = "idle"
        /\ rolledBack' = FALSE
    BY <1>8 DEF Checkpoint
  <2>1. /\ Settled = Len(undo) /\ Settled' = Len(undo)
        /\ SettledFlag = rolledBack /\ SettledFlag' = FALSE
    BY <2>0 DEF Settled, SettledFlag
  <2>2. At(Settled) = entries /\ At(Settled)' = entries
    BY <2>0, <2>1 DEF At
  <2>3. CASE rolledBack
    <3>1. FrameStarts' = FrameStarts
      BY <1>8, <2>0, <2>3 DEF Checkpoint, FrameStarts, At
    <3>2. Abstract!Checkpoint
      BY <2>1, <2>2, <2>3, <3>1 DEF Abstract!Checkpoint
    <3>3. QED
      BY <3>2 DEF Abstract!Next
  <2>4. CASE ~rolledBack
    <3> DEFINE n == Len(frames)
               saved == [cells |-> entries, version |-> Len(undo)]
    <3>1. frames' = Append(frames, Len(undo)) /\ frames \in Seq(Nat)
      BY <1>8, <2>4 DEF Checkpoint, JInv, TypeOK
    <3>2. /\ Len(frames') = n + 1
          /\ \A i \in 1..n : frames'[i] = frames[i]
          /\ frames'[n + 1] = Len(undo)
      BY <1>b, <3>1, AppendProperties
    <3>3. FrameStarts' = [i \in 1..(n + 1) |->
                [cells |-> IF frames'[i] = Len(undo) THEN entries ELSE past[frames'[i] + 1],
                 version |-> frames'[i]]]
      BY <2>0, <3>2 DEF FrameStarts, At
    <3>4. \A i \in 1..(n + 1) : i = n + 1 \/ i \in 1..n
      BY <1>b
    <3>5. n + 1 \in 1..(n + 1) /\ \A i \in 1..n : i \in 1..(n + 1)
      BY <1>b
    <3>6. FrameStarts'[n + 1] = saved
      BY <3>2, <3>3, <3>5
    <3>7. ASSUME NEW i \in 1..n PROVE FrameStarts'[i] = FrameStarts[i]
      <4>1. FrameStarts[i] = [cells |-> IF frames[i] = Len(undo) THEN entries ELSE past[frames[i] + 1],
                              version |-> frames[i]]
        BY Zenon DEF FrameStarts, At
      <4>2. frames'[i] = frames[i] /\ i \in 1..(n + 1)
        BY <3>2, <3>5
      <4>3. QED
        BY ONLY <3>3, <4>1, <4>2
    <3>8. saved \in S
      BY <1>b DEF JInv, TypeOK
    <3>9. FrameStarts' \in [1..(n + 1) -> S]
      <4>1. \A i \in 1..(n + 1) : FrameStarts'[i] \in S
        BY <1>e, <3>4, <3>6, <3>7, <3>8
      <4>2. QED
        BY <3>3, <4>1
    <3>10. FrameStarts' = Append(FrameStarts, FrameStarts'[n + 1])
      BY <1>b, <1>e, <3>7, <3>9, AppendFun
    <3>11. Abstract!Checkpoint
      BY <2>1, <2>2, <2>4, <3>6, <3>10 DEF Abstract!Checkpoint, Abstract!Saved
    <3>12. QED
      BY <3>11 DEF Abstract!Next
  <2>5. QED
    BY <2>3, <2>4
<1>9. CASE Rollback
  <2>0. UNCHANGED <<entries, undo, rolledBack, mark, past>> /\ phase = "idle" /\ phase' = "rolling back"
    BY <1>9 DEF Rollback
  <2>1. /\ SettledFlag = rolledBack /\ SettledFlag' = TRUE /\ Settled' = Last(frames)'
    BY <2>0 DEF Settled, SettledFlag
  <2>2. /\ \A i \in 1..Len(frames') : i \in 1..Len(frames) /\ frames'[i] = frames[i]
        /\ Len(frames') \in 1..Len(frames')
        /\ rolledBack => Len(frames') = Len(frames) - 1 /\ Len(frames) > 1
        /\ ~rolledBack => Len(frames') = Len(frames)
    <3>1. CASE ~rolledBack
      BY <1>9, <1>a, <3>1 DEF Rollback
    <3>2. CASE rolledBack
      <4>1. frames' = Front(frames) /\ frames \in Seq(Nat) /\ frames # <<>> /\ Len(frames) > 1
        BY <1>9, <3>2 DEF Rollback, FrameRemains, JInv, TypeOK
      <4>2. /\ Len(frames') = Len(frames) - 1
            /\ \A i \in 1..(Len(frames) - 1) : frames'[i] = frames[i]
        BY Zenon, <4>1, FrontProperties
      <4>3. QED
        BY <1>b, <3>2, <4>1, <4>2
    <3>3. QED
      BY <3>1, <3>2
  <2>3. FrameStarts' \in [1..Len(frames') -> S]
    <3>1. \A i \in 1..Len(frames') : FrameStarts'[i] = FrameStarts[i] /\ FrameStarts[i] \in S
      BY <1>e, <2>0, <2>2 DEF FrameStarts, At
    <3>2. FrameStarts' = [i \in 1..Len(frames') |-> FrameStarts'[i]]
      BY DEF FrameStarts
    <3>3. QED
      BY <3>1, <3>2
  <2>4. \A i \in 1..Len(frames') : FrameStarts'[i] = FrameStarts[i]
    BY <2>0, <2>2 DEF FrameStarts, At
  <2>5. FrameStarts' = IF SettledFlag THEN SubSeq(FrameStarts, 1, Len(FrameStarts) - 1) ELSE FrameStarts
    <3>1. CASE ~rolledBack
      BY <1>9, <2>0, <2>1, <3>1 DEF Rollback, FrameStarts, At
    <3>2. CASE rolledBack
      BY <1>b, <1>e, <2>1, <2>2, <2>3, <2>4, <3>2, FrontFun
    <3>3. QED
      BY <3>1, <3>2
  <2>6. Len(FrameStarts) = Len(frames) /\ Len(FrameStarts') = Len(frames')
    BY <1>b, <1>e, <2>2, <2>3, FunIsSeq
  <2>7. /\ FrameStarts'[Len(frames')].cells = At(Settled)'
        /\ FrameStarts'[Len(frames')].version = Settled'
    BY <2>1, <2>2 DEF FrameStarts, Last, At
  <2>8. Abstract!Rollback
    BY <2>1, <2>2, <2>5, <2>6, <2>7 DEF Abstract!Rollback
  <2>9. QED
    BY <2>8 DEF Abstract!Next
<1>10. CASE RollbackExhausted \/ UNCHANGED vars
  <2>1. UNCHANGED vars
    BY <1>10 DEF RollbackExhausted
  <2>2. Settled' = Settled /\ SettledFlag' = SettledFlag /\ UNCHANGED frames
    BY <2>1 DEF vars, Settled, SettledFlag, Last
  <2>3. At(Settled)' = At(Settled)
    BY <2>1, <2>2 DEF vars, At
  <2>4. \A i \in 1..Len(frames) : At(frames[i])' = At(frames[i])
    BY <2>1 DEF vars, At
  <2>5. QED
    BY <2>2, <2>3, <2>4, Stutter
<1>11. QED
    BY <1>1, <1>2, <1>3, <1>4, <1>5, <1>6, <1>7, <1>8, <1>9, <1>10 DEF Next

(* The undo journal implements the stack of saved states: write groups are
   atomic whether they succeed, fail or panic, and rollback restores exactly
   the cells and the version its frame started with. *)
THEOREM JournalImplementsFrames == Spec => ImplementsFrames
<1>1. Init => Abstract!Init
  <2> SUFFICES ASSUME Init PROVE Abstract!Init
    OBVIOUS
  <2>1. Len(<<0>>) = 1 /\ <<0>>[1] = 0
    OBVIOUS
  <2>2. Len(undo) = 0 /\ frames = <<0>> /\ entries = [k \in Keys |-> Missing]
    BY EmptyLen DEF Init
  <2>3. Settled = 0 /\ SettledFlag = FALSE
    BY <2>2 DEF Init, Settled, SettledFlag
  <2>4. At(0) = entries
    BY <2>2 DEF At
  <2>5. FrameStarts = <<[cells |-> entries, version |-> 0]>>
    BY <2>1, <2>2, <2>4 DEF FrameStarts
  <2>6. QED
    BY <2>2, <2>3, <2>4, <2>5 DEF Abstract!Init, Abstract!Saved
<1>2. JInv <=> TypeOK /\ (MarkersOrdered /\ RolledBackIsEmpty) /\ UndoInverts /\ FlagInherited
    BY DEF JInv, FrameInv
<1>3. QED
    BY <1>1, <1>2, TypeCorrect, FramesCorrect, UndoCorrect, FlagCorrect, RefineStep, PTL
        DEF Spec, ImplementsFrames, Abstract!Spec
=============================================================================
