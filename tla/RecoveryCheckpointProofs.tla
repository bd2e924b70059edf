----------------------- MODULE RecoveryCheckpointProofs ----------------------
(***************************************************************************)
(* Theorems about RecoveryCheckpoint, for any bounds: a barrier is never   *)
(* overtaken, what was reported as persisted survives, a restart never     *)
(* goes back, and no sidecar outlives a clean turn.                        *)
(***************************************************************************)
EXTENDS RecoveryCheckpoint, SequenceTheorems, TLAPS

USE BoundsAssumption DEF BoundsAssumption

-----------------------------------------------------------------------------
(* The line at the persistence lock.                                       *)

\* Appending to a sequence of one gives the sequence of two.
LEMMA AppendToOne ==
  ASSUME NEW S, NEW a \in S, NEW b \in S
  PROVE  Append(<<a>>, b) = <<a, b>>
<1>1. <<a>> \in Seq(S) /\ Len(<<a>>) = 1
  OBVIOUS
<1>2. <<a, b>> \in Seq(S) /\ Len(<<a, b>>) = 2
  OBVIOUS
<1>3. Append(<<a>>, b) \in Seq(S) /\ Len(Append(<<a>>, b)) = 2
  BY <1>1, AppendProperties
<1>4. Append(<<a>>, b)[1] = a /\ Append(<<a>>, b)[2] = b
  BY <1>1, AppendProperties
<1>5. \A i \in 1 .. 2 : Append(<<a>>, b)[i] = <<a, b>>[i]
  <2> SUFFICES ASSUME NEW i \in 1 .. 2 PROVE Append(<<a>>, b)[i] = <<a, b>>[i]
    OBVIOUS
  <2>1. i = 1 \/ i = 2
    OBVIOUS
  <2> QED BY <1>4, <2>1
<1> QED BY <1>2, <1>3, <1>5, SeqEqual

\* The five lines there can be at the lock are different.
LEMMA LinesDiffer ==
  /\ <<>> # <<"writer">> /\ <<>> # <<"barrier">>
  /\ <<>> # <<"barrier", "writer">> /\ <<>> # <<"writer", "barrier">>
  /\ <<"writer">> # <<"barrier">> /\ <<"writer">> # <<"barrier", "writer">>
  /\ <<"writer">> # <<"writer", "barrier">> /\ <<"barrier">> # <<"barrier", "writer">>
  /\ <<"barrier">> # <<"writer", "barrier">> /\ <<"barrier", "writer">> # <<"writer", "barrier">>
OBVIOUS

-----------------------------------------------------------------------------
(* The invariant.                                                          *)

\* A snapshot is of the conversation as it was or is.
Behind(s) == s # NoSnap => s.seq <= seq /\ s.ver <= live

\* A snapshot that may still be written takes nothing back.
Fresh(s) ==
  s # NoSnap /\ s.seq > persisted =>
    s.ver >= acked /\ (~crossed => s.ver >= Effective.ver)

\* A later number is more of the conversation.
Ordered(a, b) == a # NoSnap /\ b # NoSnap /\ a.seq < b.seq => a.ver <= b.ver

\* The lock has the writers in line that there are, and a background write is
\* only ahead of a barrier that was taken later.
LineInv ==
  /\ taken = NoSnap /\ barrier = NoSnap => line = <<>>
  /\ taken # NoSnap /\ barrier = NoSnap => line = <<"writer">>
  /\ taken = NoSnap /\ barrier # NoSnap => line = <<"barrier">>
  /\ taken # NoSnap /\ barrier # NoSnap => line \in {<<"writer", "barrier">>, <<"barrier", "writer">>}
  /\ line = <<"writer", "barrier">> => taken.seq < barrier.seq
  /\ BarrierIsNewest

BehindInv ==
  /\ persisted <= seq
  /\ Behind(pending) /\ Behind(taken) /\ Behind(barrier)
  /\ ~draining => pending = NoSnap /\ taken = NoSnap

FreshInv == Fresh(pending) /\ Fresh(taken) /\ Fresh(barrier)

OrderInv ==
  /\ Ordered(pending, taken) /\ Ordered(taken, pending)
  /\ Ordered(pending, barrier) /\ Ordered(barrier, pending)
  /\ Ordered(taken, barrier) /\ Ordered(barrier, taken)

\* Between turns everything is merged; a crash leaves nobody at work.
TurnInv ==
  /\ run # "crashed" => acked <= live /\ (~crossed => Effective.ver <= live)
  /\ run \in {"idle", "ended", "down"} => merged = live
  /\ attended => run = "running"
  /\ run = "crashed" => /\ pending = NoSnap /\ taken = NoSnap /\ barrier = NoSnap
                        /\ saver = [s \in Savers |-> "off"]
                        /\ ~saved

\* The sidecar is not from the future, and beaten by the save that deletes it.
DiskInv ==
  /\ sidecar # NoFile => sidecar.at <= Later(now, primary.at + 1)
  /\ \A s \in Savers : saver[s] = "delete" => ~SidecarWins
  /\ AckedSurvives

NobodyWrites == pending = NoSnap /\ taken = NoSnap /\ barrier = NoSnap

\* A turn's save comes after its last recovery write, and before the next.
CleanInv ==
  /\ run = "ended" /\ saver["turn"] \in {"queued", "delete"} => NobodyWrites
  /\ run = "running" => ~saved
  /\ saved /\ run \in {"idle", "ended", "down"} => NobodyWrites /\ ~SidecarWins

RecoveryInv ==
  /\ TypeOK /\ LineInv /\ BehindInv /\ FreshInv /\ OrderInv
  /\ TurnInv /\ DiskInv /\ CleanInv

-----------------------------------------------------------------------------
(* What the steps of several actions come to.                              *)

\* A snapshot of any number and progress is one.
LEMMA SnapsAreSnaps ==
  \A n \in Nat, v \in Nat : [seq |-> n, ver |-> v] \in Snap /\ [seq |-> n, ver |-> v] # NoSnap
BY DEF Snap

\* Who holds the lock, and who is left when the holder leaves.
LEMMA WriterHolds ==
  ASSUME LineInv, Holds("writer")
  PROVE  /\ taken # NoSnap
         /\ barrier = NoSnap => Tail(line) = <<>>
         /\ barrier # NoSnap => Tail(line) = <<"barrier">> /\ taken.seq < barrier.seq
<1>1. Head(line) = "writer" /\ line # <<>>
  BY DEF Holds
<1>2. taken # NoSnap
  BY <1>1 DEF LineInv
<1>3. CASE barrier = NoSnap
  <2>1. line = <<"writer">>
    BY <1>2, <1>3 DEF LineInv
  <2> QED BY <1>2, <1>3, <2>1
<1>4. CASE barrier # NoSnap
  <2>1. line = <<"writer", "barrier">>
    BY <1>1, <1>2, <1>4 DEF LineInv
  <2> QED BY <1>2, <1>4, <2>1 DEF LineInv
<1> QED BY <1>2, <1>3, <1>4

\* The same of a barrier that holds the lock.
LEMMA BarrierHolds ==
  ASSUME LineInv, Holds("barrier")
  PROVE  /\ barrier # NoSnap
         /\ taken = NoSnap => Tail(line) = <<>>
         /\ taken # NoSnap => Tail(line) = <<"writer">>
<1>1. Head(line) = "barrier" /\ line # <<>>
  BY DEF Holds
<1>2. barrier # NoSnap
  BY <1>1 DEF LineInv
<1>3. CASE taken = NoSnap
  <2>1. line = <<"barrier">>
    BY <1>2, <1>3 DEF LineInv
  <2> QED BY <1>2, <1>3, <2>1
<1>4. CASE taken # NoSnap
  <2>1. line = <<"barrier", "writer">>
    BY <1>1, <1>2, <1>4 DEF LineInv
  <2> QED BY <1>2, <1>4, <2>1 DEF LineInv
<1> QED BY <1>2, <1>3, <1>4

\* A barrier that does not write waits behind the background writer.
LEMMA BarrierWaits ==
  ASSUME LineInv, ~Holds("barrier"), barrier # NoSnap
  PROVE  taken # NoSnap /\ line = <<"writer", "barrier">> /\ <<Head(line)>> = <<"writer">>
<1>1. taken # NoSnap
  BY LinesDiffer DEF LineInv, Holds
<1>2. line = <<"writer", "barrier">>
  BY <1>1, LinesDiffer DEF LineInv, Holds
<1> QED BY <1>1, <1>2

\* A writer that queues for the lock is the first or comes after the barrier.
LEMMA WriterJoins ==
  ASSUME LineInv, taken = NoSnap
  PROVE  /\ barrier = NoSnap => Append(line, "writer") = <<"writer">>
         /\ barrier # NoSnap => Append(line, "writer") = <<"barrier", "writer">>
<1>1. Append(<<"barrier">>, "writer") = <<"barrier", "writer">>
  <2> DEFINE S == {"barrier", "writer"}
  <2>1. "barrier" \in S /\ "writer" \in S
    OBVIOUS
  <2> HIDE DEF S
  <2> QED BY <2>1, AppendToOne
<1>2. Append(<<>>, "writer") = <<"writer">>
  OBVIOUS
<1> QED BY <1>1, <1>2 DEF LineInv

\* The same of a barrier.
LEMMA BarrierJoins ==
  ASSUME LineInv, barrier = NoSnap
  PROVE  /\ taken = NoSnap => Append(line, "barrier") = <<"barrier">>
         /\ taken # NoSnap => Append(line, "barrier") = <<"writer", "barrier">>
<1>1. Append(<<"writer">>, "barrier") = <<"writer", "barrier">>
  <2> DEFINE S == {"barrier", "writer"}
  <2>1. "barrier" \in S /\ "writer" \in S
    OBVIOUS
  <2> HIDE DEF S
  <2> QED BY <2>1, AppendToOne
<1>2. Append(<<>>, "barrier") = <<"barrier">>
  OBVIOUS
<1> QED BY <1>1, <1>2 DEF LineInv

\* A snapshot that is not overtaken is newer than the last that was written.
LEMMA Overtakes ==
  ASSUME TypeOK, NEW s \in Snap, ~Overtaken(s)
  PROVE  s.seq > persisted
BY DEF Overtaken, Snap, TypeOK

\* A run that has drained its recovery writes leaves no snapshot to be written.
LEMMA NobodyLeft ==
  ASSUME LineInv, BehindInv, Drained
  PROVE  NobodyWrites
BY BarrierWaits DEF BehindInv, Drained, NobodyWrites

\* What a restart opens is a file.
LEMMA EffectiveIsFile ==
  ASSUME TypeOK PROVE Effective \in File
BY DEF TypeOK, Effective, SidecarWins

\* With both files as they were, a restart opens the same one.
LEMMA DiskKept ==
  ASSUME UNCHANGED diskVars
  PROVE  Effective' = Effective /\ SidecarWins' = SidecarWins /\ UNCHANGED <<primary, sidecar, now>>
BY DEF diskVars, Effective, SidecarWins

\* A recovery write is what a restart opens from then on.
LEMMA SidecarWritten ==
  ASSUME TypeOK, NEW v \in Nat, WriteSidecar(v)
  PROVE  /\ Effective'.ver = v
         /\ sidecar' \in File /\ primary' \in File /\ now' \in Nat
         /\ sidecar'.at <= Later(now', primary'.at + 1)
<1>1. now' \in Nat /\ primary' = primary /\ primary \in File
  BY DEF TypeOK, WriteSidecar, Clock
<1>2. sidecar' = [ver |-> v, at |-> RecoveryAt(now')]
  BY DEF WriteSidecar
<1>3. RecoveryAt(now') \in Nat /\ RecoveryAt(now') >= primary.at + 1
  BY <1>1 DEF RecoveryAt, Later, File
<1>4. RecoveryAt(now') = Later(now', primary'.at + 1)
  BY <1>1 DEF RecoveryAt
<1>5. sidecar' \in File /\ sidecar'.at > primary'.at
  BY <1>1, <1>2, <1>3 DEF File
<1>6. SidecarWins'
  BY <1>5 DEF SidecarWins, File
<1> QED BY <1>1, <1>2, <1>3, <1>4, <1>5, <1>6 DEF Effective, Later, File

\* A primary save is what a restart opens, even if there is a sidecar still.
LEMMA PrimaryWritten ==
  ASSUME TypeOK, DiskInv, NEW s \in Savers, SavePrimary(s)
  PROVE  /\ ~SidecarWins' /\ Effective' = primary'
         /\ primary'.ver = merged /\ primary' \in File /\ now' \in Nat
         /\ sidecar # NoFile => sidecar.at <= primary'.at
<1>1. now' \in Nat /\ now <= now' /\ primary \in File /\ merged \in Nat /\ now \in Nat
  BY DEF TypeOK, SavePrimary, Clock
<1>2. PICK same \in BOOLEAN : primary' = [ver |-> merged, at |-> PrimaryAt(now', same)]
  BY DEF SavePrimary
<1>3. PrimaryAt(now', same) \in Nat
  BY <1>1 DEF PrimaryAt, Later, File
<1>4. primary' \in File /\ primary'.ver = merged
  BY <1>1, <1>2, <1>3 DEF File
<1>5. sidecar # NoFile => sidecar.at <= primary'.at
  <2> SUFFICES ASSUME sidecar # NoFile PROVE sidecar.at <= primary'.at
    OBVIOUS
  <2>1. sidecar \in File
    BY DEF TypeOK
  <2>2. primary'.at = Later(now', primary.at + 1)
    BY <1>2, <1>3 DEF PrimaryAt
  <2>3. sidecar.at <= Later(now, primary.at + 1)
    BY DEF DiskInv
  <2> QED BY <1>1, <2>1, <2>2, <2>3 DEF Later, File
<1>6. sidecar' = sidecar /\ sidecar \in File \cup {NoFile}
  BY DEF SavePrimary, TypeOK
<1>7. ~SidecarWins'
  BY <1>4, <1>5, <1>6 DEF SidecarWins, File
<1> QED BY <1>1, <1>4, <1>5, <1>7 DEF Effective

\* Each bound is used up one at a time.
LEMMA SpendTyped ==
  ASSUME TypeOK, NEW w \in {"turns", "idle", "failures", "crashes"}, Spend(w)
  PROVE  spent' \in [{"turns", "idle", "failures", "crashes"} -> Nat]
BY DEF TypeOK, Spend

\* The line at the lock is typed by what is known of it.
LEMMA LineTyped == ASSUME LineInv' PROVE line' \in Lines
BY DEF LineInv, Lines

\* A saver that goes on keeps the type of them all.
LEMMA SaverTyped ==
  ASSUME TypeOK, NEW s \in Savers, NEW m \in {"off", "flush", "queued", "delete"}
  PROVE  [saver EXCEPT ![s] = m] \in [Savers -> {"off", "flush", "queued", "delete"}]
BY DEF TypeOK

-----------------------------------------------------------------------------
(* The theorems.                                                           *)

\* No step of a turn, a writer, a save or a crash leaves the invariant.
LEMMA RecoveryStep == RecoveryInv /\ [Next]_vars => RecoveryInv'
<1> SUFFICES ASSUME RecoveryInv, [Next]_vars PROVE RecoveryInv'
  OBVIOUS
<1>1. CASE Next
  <2> USE DEF RecoveryInv, turnVars, snapVars, ghosts
  <2>1. ASSUME StartTurn PROVE RecoveryInv'
    <3>d. Effective' = Effective /\ SidecarWins' = SidecarWins /\ UNCHANGED <<primary, sidecar, now>>
      BY <2>1, DiskKept DEF StartTurn
    <3>1. LineInv'
      BY <2>1, LinesDiffer DEF LineInv, BarrierIsNewest, BehindInv, Behind, TypeOK, Snap, StartTurn
    <3>2. BehindInv'
      BY <2>1, <3>d DEF BehindInv, Behind, TurnInv, TypeOK, Snap, StartTurn
    <3>3. FreshInv'
      BY <2>1, EffectiveIsFile, <3>d DEF FreshInv, Fresh, TurnInv, BehindInv, Behind, OrderInv, Ordered,
         TypeOK, Snap, File, Later, BarrierIsNewest, LineInv, StartTurn
    <3>4. OrderInv'
      BY <2>1, <3>d DEF OrderInv, Ordered, BehindInv, Behind, TypeOK, Snap, StartTurn
    <3>5. TurnInv'
      BY <2>1, EffectiveIsFile, <3>d DEF TurnInv, BehindInv, Behind, TypeOK, Snap, File, Later, StartTurn
    <3>6. DiskInv'
      BY <2>1, EffectiveIsFile, <3>d DEF DiskInv, AckedSurvives, TurnInv, FreshInv, Fresh, LineInv,
         BarrierIsNewest, TypeOK, Snap, File, StartTurn
    <3>7. CleanInv'
      BY <2>1, <3>d DEF CleanInv, NobodyWrites, DiskInv, TurnInv, TypeOK, StartTurn
    <3>l. line' \in Lines
      BY <3>1, LineTyped
    <3>8. TypeOK'
      BY ZenonT(60), <2>1, SpendTyped, <3>l, <3>d DEF TypeOK, Snap, File, StartTurn
    <3> QED BY <3>1, <3>2, <3>3, <3>4, <3>5, <3>6, <3>7, <3>8
  <2>2. ASSUME Progress PROVE RecoveryInv'
    <3>d. Effective' = Effective /\ SidecarWins' = SidecarWins /\ UNCHANGED <<primary, sidecar, now>>
      BY <2>2, DiskKept DEF Progress
    <3>1. LineInv'
      BY <2>2, LinesDiffer DEF LineInv, BarrierIsNewest, BehindInv, Behind, TypeOK, Snap, Progress
    <3>2. BehindInv'
      BY <2>2, <3>d DEF BehindInv, Behind, TurnInv, TypeOK, Snap, Progress
    <3>3. FreshInv'
      BY <2>2, EffectiveIsFile, <3>d DEF FreshInv, Fresh, TurnInv, BehindInv, Behind, OrderInv, Ordered,
         TypeOK, Snap, File, Later, BarrierIsNewest, LineInv, Progress
    <3>4. OrderInv'
      BY <2>2, <3>d DEF OrderInv, Ordered, BehindInv, Behind, TypeOK, Snap, Progress
    <3>5. TurnInv'
      BY <2>2, EffectiveIsFile, <3>d DEF TurnInv, BehindInv, Behind, TypeOK, Snap, File, Later, Progress
    <3>6. DiskInv'
      BY <2>2, EffectiveIsFile, <3>d DEF DiskInv, AckedSurvives, TurnInv, FreshInv, Fresh, LineInv,
         BarrierIsNewest, TypeOK, Snap, File, Progress
    <3>7. CleanInv'
      BY <2>2, <3>d DEF CleanInv, NobodyWrites, DiskInv, TurnInv, TypeOK, Progress
    <3>l. line' \in Lines
      BY <3>1, LineTyped
    <3>8. TypeOK'
      BY <2>2, <3>l, <3>d DEF TypeOK, Snap, File, Progress
    <3> QED BY <3>1, <3>2, <3>3, <3>4, <3>5, <3>6, <3>7, <3>8
  <2>3. ASSUME Checkpoint PROVE RecoveryInv'
    <3>d. Effective' = Effective /\ SidecarWins' = SidecarWins /\ UNCHANGED <<primary, sidecar, now>>
      BY <2>3, DiskKept DEF Checkpoint, NextSeq
    <3>1. LineInv'
      BY <2>3, SnapsAreSnaps, LinesDiffer DEF LineInv, BarrierIsNewest, BehindInv, Behind, TypeOK, Snap,
         Checkpoint, NextSeq
    <3>2. BehindInv'
      BY <2>3, SnapsAreSnaps, <3>d DEF BehindInv, Behind, TurnInv, TypeOK, Snap, Checkpoint, NextSeq
    <3>3. FreshInv'
      BY <2>3, SnapsAreSnaps, EffectiveIsFile, <3>d DEF FreshInv, Fresh, TurnInv, BehindInv, Behind,
         OrderInv, Ordered, TypeOK, Snap, File, Later, BarrierIsNewest, LineInv, Checkpoint, NextSeq
    <3>4. OrderInv'
      BY <2>3, SnapsAreSnaps, <3>d DEF OrderInv, Ordered, BehindInv, Behind, TypeOK, Snap, Checkpoint, NextSeq
    <3>5. TurnInv'
      BY <2>3, EffectiveIsFile, <3>d DEF TurnInv, BehindInv, Behind, TypeOK, Snap, File, Later, Checkpoint,
         NextSeq
    <3>6. DiskInv'
      BY <2>3, EffectiveIsFile, <3>d DEF DiskInv, AckedSurvives, TurnInv, FreshInv, Fresh, LineInv,
         BarrierIsNewest, TypeOK, Snap, File, Checkpoint, NextSeq
    <3>7. CleanInv'
      BY <2>3, <3>d DEF CleanInv, NobodyWrites, DiskInv, TurnInv, TypeOK, Checkpoint, NextSeq
    <3>l. line' \in Lines
      BY <3>1, LineTyped
    <3>8. TypeOK'
      BY <2>3, SnapsAreSnaps, <3>l, <3>d DEF TypeOK, Snap, File, Checkpoint, NextSeq
    <3> QED BY <3>1, <3>2, <3>3, <3>4, <3>5, <3>6, <3>7, <3>8
  <2>4. ASSUME EndTurn PROVE RecoveryInv'
    <3>d. Effective' = Effective /\ SidecarWins' = SidecarWins /\ UNCHANGED <<primary, sidecar, now>>
      BY <2>4, DiskKept DEF EndTurn
    <3>1. LineInv'
      BY <2>4, BarrierWaits, LinesDiffer DEF LineInv, BarrierIsNewest, BehindInv, Behind, TypeOK, Snap, EndTurn
    <3>2. BehindInv'
      BY <2>4, <3>d DEF BehindInv, Behind, TurnInv, TypeOK, Snap, EndTurn
    <3>3. FreshInv'
      BY <2>4, EffectiveIsFile, <3>d DEF FreshInv, Fresh, TurnInv, BehindInv, Behind, OrderInv, Ordered,
         TypeOK, Snap, File, Later, BarrierIsNewest, LineInv, EndTurn
    <3>4. OrderInv'
      BY <2>4, <3>d DEF OrderInv, Ordered, BehindInv, Behind, TypeOK, Snap, EndTurn
    <3>5. TurnInv'
      BY <2>4, BarrierWaits, EffectiveIsFile, <3>d DEF TurnInv, BehindInv, Behind, TypeOK, Snap, File, Later,
         EndTurn
    <3>6. DiskInv'
      BY <2>4, EffectiveIsFile, <3>d DEF DiskInv, AckedSurvives, TurnInv, FreshInv, Fresh, LineInv,
         BarrierIsNewest, TypeOK, Snap, File, EndTurn
    <3>7. CleanInv'
      BY <2>4, SaverTyped DEF CleanInv, TypeOK, EndTurn, Savers
    <3>l. line' \in Lines
      BY <3>1, LineTyped
    <3>8. TypeOK'
      BY ZenonT(60), <2>4, SaverTyped, <3>l, <3>d DEF TypeOK, Snap, File, EndTurn
    <3> QED BY <3>1, <3>2, <3>3, <3>4, <3>5, <3>6, <3>7, <3>8
  <2>5. ASSUME Pick PROVE RecoveryInv'
    <3>d. Effective' = Effective /\ SidecarWins' = SidecarWins /\ UNCHANGED <<primary, sidecar, now>>
      BY <2>5, DiskKept DEF Pick
    <3>1. LineInv'
      BY <2>5, WriterJoins, LinesDiffer DEF LineInv, BarrierIsNewest, BehindInv, Behind, TypeOK, Snap, Pick
    <3>2. BehindInv'
      BY <2>5, <3>d DEF BehindInv, Behind, TurnInv, TypeOK, Snap, Pick
    <3>3. FreshInv'
      BY <2>5, EffectiveIsFile, <3>d DEF FreshInv, Fresh, TurnInv, BehindInv, Behind, OrderInv, Ordered,
         TypeOK, Snap, File, Later, BarrierIsNewest, LineInv, Pick
    <3>4. OrderInv'
      BY <2>5, <3>d DEF OrderInv, Ordered, BehindInv, Behind, TypeOK, Snap, Pick
    <3>5. TurnInv'
      BY <2>5, EffectiveIsFile, <3>d DEF TurnInv, BehindInv, Behind, TypeOK, Snap, File, Later, Pick
    <3>6. DiskInv'
      BY <2>5, EffectiveIsFile, <3>d DEF DiskInv, AckedSurvives, TurnInv, FreshInv, Fresh, LineInv,
         BarrierIsNewest, TypeOK, Snap, File, Pick
    <3>7. CleanInv'
      BY <2>5, <3>d DEF CleanInv, NobodyWrites, DiskInv, TurnInv, TypeOK, Pick
    <3>l. line' \in Lines
      BY <3>1, LineTyped
    <3>8. TypeOK'
      BY ZenonT(60), <2>5, <3>l, <3>d DEF TypeOK, Snap, File, Pick
    <3> QED BY <3>1, <3>2, <3>3, <3>4, <3>5, <3>6, <3>7, <3>8
  <2>6. ASSUME WriterSkips PROVE RecoveryInv'
    <3>d. Effective' = Effective /\ SidecarWins' = SidecarWins /\ UNCHANGED <<primary, sidecar, now>>
      BY <2>6, DiskKept DEF WriterSkips, WriterLeaves, Overtaken
    <3>1. LineInv'
      BY <2>6, WriterHolds, LinesDiffer DEF LineInv, BarrierIsNewest, BehindInv, Behind, TypeOK, Snap,
         WriterSkips, WriterLeaves, Overtaken
    <3>2. BehindInv'
      BY <2>6, WriterHolds, <3>d DEF BehindInv, Behind, TurnInv, TypeOK, Snap, WriterSkips, WriterLeaves,
         Overtaken
    <3>3. FreshInv'
      BY <2>6, WriterHolds, EffectiveIsFile, <3>d DEF FreshInv, Fresh, TurnInv, BehindInv, Behind, OrderInv,
         Ordered, TypeOK, Snap, File, Later, BarrierIsNewest, LineInv, WriterSkips, WriterLeaves, Overtaken
    <3>4. OrderInv'
      BY <2>6, WriterHolds, <3>d DEF OrderInv, Ordered, BehindInv, Behind, TypeOK, Snap, WriterSkips,
         WriterLeaves, Overtaken
    <3>5. TurnInv'
      BY <2>6, WriterHolds, EffectiveIsFile, <3>d DEF TurnInv, BehindInv, Behind, TypeOK, Snap, File, Later,
         WriterSkips, WriterLeaves, Overtaken
    <3>6. DiskInv'
      BY <2>6, WriterHolds, EffectiveIsFile, <3>d DEF DiskInv, AckedSurvives, TurnInv, FreshInv, Fresh,
         LineInv, BarrierIsNewest, TypeOK, Snap, File, WriterSkips, WriterLeaves, Overtaken
    <3>7. CleanInv'
      BY <2>6, WriterHolds, <3>d DEF CleanInv, NobodyWrites, DiskInv, TurnInv, TypeOK, WriterSkips,
         WriterLeaves, Overtaken
    <3>l. line' \in Lines
      BY <3>1, LineTyped
    <3>8. TypeOK'
      BY <2>6, WriterHolds, <3>l, <3>d DEF TypeOK, Snap, File, WriterSkips, WriterLeaves, Overtaken
    <3> QED BY <3>1, <3>2, <3>3, <3>4, <3>5, <3>6, <3>7, <3>8
  <2>7. ASSUME WriterWrites PROVE RecoveryInv'
    <3>e. taken # NoSnap /\ taken \in Snap
      BY <2>7, WriterHolds DEF TypeOK, WriterWrites
    <3>d. /\ Effective'.ver = taken.ver /\ sidecar' \in File /\ primary' \in File /\ now' \in Nat
          /\ sidecar'.at <= Later(now', primary'.at + 1)
      BY <2>7, <3>e, SidecarWritten DEF WriterWrites, Snap
    <3>1. LineInv'
      BY <2>7, WriterHolds, LinesDiffer, <3>e DEF LineInv, BarrierIsNewest, BehindInv, Behind, TypeOK, Snap,
         WriterWrites, WriterLeaves, Overtaken, FileLockFree
    <3>2. BehindInv'
      BY <2>7, WriterHolds, <3>d, <3>e DEF BehindInv, Behind, TurnInv, TypeOK, Snap, WriterWrites,
         WriterLeaves, Overtaken, FileLockFree
    <3>p. /\ taken.seq > persisted /\ persisted' = taken.seq
          /\ UNCHANGED <<pending, barrier, crossed>> /\ taken' = NoSnap
          /\ acked' = acked
      BY <2>7, <3>e, Overtakes DEF TypeOK, Snap, WriterWrites, WriterLeaves, Acknowledge
    <3>q. \A s \in {pending, barrier} : s \in Snap /\ s.seq > persisted' =>
             s.ver >= acked /\ s.ver >= taken.ver
      BY <3>e, <3>p DEF FreshInv, Fresh, OrderInv, Ordered, TypeOK, Snap
    <3>r. Fresh(pending)' /\ Fresh(barrier)' /\ Fresh(taken)'
      BY <3>d, <3>e, <3>p, <3>q DEF TypeOK, Fresh, Snap, Later
    <3>3. FreshInv'
      BY <3>r DEF FreshInv
    <3>4. OrderInv'
      BY <2>7, WriterHolds, <3>d, <3>e DEF OrderInv, Ordered, BehindInv, Behind, TypeOK, Snap, WriterWrites,
         WriterLeaves, Overtaken, FileLockFree
    <3>5. TurnInv'
      BY <2>7, WriterHolds, EffectiveIsFile, <3>d, <3>e DEF TurnInv, BehindInv, Behind, TypeOK, Snap, File,
         Later, WriterWrites, WriterLeaves, Overtaken, FileLockFree
    <3>u. taken.ver >= acked /\ acked \in Nat /\ crossed' = crossed /\ saver' = saver
      BY <2>7, <3>e, <3>p DEF FreshInv, Fresh, TypeOK, Snap, WriterWrites, WriterLeaves
    <3>v. AckedSurvives'
      BY <3>d, <3>e, <3>p, <3>u DEF AckedSurvives, Later, Snap
    <3>w. \A s \in Savers : saver'[s] # "delete"
      BY <2>7, <3>u DEF WriterWrites, FileLockFree
    <3>6. DiskInv'
      BY <3>d, <3>v, <3>w DEF DiskInv
    <3>7. CleanInv'
      BY <2>7, WriterHolds, <3>d, <3>e DEF CleanInv, NobodyWrites, DiskInv, TurnInv, TypeOK, WriterWrites,
         WriterLeaves, Overtaken, FileLockFree
    <3>l. line' \in Lines
      BY <3>1, LineTyped
    <3>8. TypeOK'
      BY <2>7, WriterHolds, <3>l, <3>d, <3>e DEF TypeOK, Snap, File, WriterWrites, WriterLeaves, Overtaken,
         FileLockFree
    <3> QED BY <3>1, <3>2, <3>3, <3>4, <3>5, <3>6, <3>7, <3>8
  <2>8. ASSUME WriterFails PROVE RecoveryInv'
    <3>d. Effective' = Effective /\ SidecarWins' = SidecarWins /\ UNCHANGED <<primary, sidecar, now>>
      BY <2>8, DiskKept DEF WriterFails, WriterLeaves, Overtaken
    <3>1. LineInv'
      BY <2>8, WriterHolds, LinesDiffer DEF LineInv, BarrierIsNewest, BehindInv, Behind, TypeOK, Snap,
         WriterFails, WriterLeaves, Overtaken
    <3>2. BehindInv'
      BY <2>8, WriterHolds, <3>d DEF BehindInv, Behind, TurnInv, TypeOK, Snap, WriterFails, WriterLeaves,
         Overtaken
    <3>p. /\ taken # NoSnap /\ taken \in Snap /\ taken.seq > persisted /\ persisted' = taken.seq
          /\ UNCHANGED <<pending, barrier, acked, crossed>> /\ taken' = NoSnap
      BY <2>8, WriterHolds, Overtakes DEF TypeOK, Snap, WriterFails, WriterLeaves
    <3>q. \A s \in {pending, barrier} : s # NoSnap /\ s.seq > persisted' => s \in Snap /\ s.seq > persisted
      BY <3>p DEF TypeOK, Snap
    <3>r. Fresh(pending)' /\ Fresh(barrier)' /\ Fresh(taken)'
      BY <3>d, <3>p, <3>q DEF FreshInv, Fresh
    <3>3. FreshInv'
      BY <3>r DEF FreshInv
    <3>4. OrderInv'
      BY <2>8, WriterHolds, <3>d DEF OrderInv, Ordered, BehindInv, Behind, TypeOK, Snap, WriterFails,
         WriterLeaves, Overtaken
    <3>5. TurnInv'
      BY <2>8, WriterHolds, EffectiveIsFile, <3>d DEF TurnInv, BehindInv, Behind, TypeOK, Snap, File, Later,
         WriterFails, WriterLeaves, Overtaken
    <3>6. DiskInv'
      BY <2>8, WriterHolds, EffectiveIsFile, <3>d DEF DiskInv, AckedSurvives, TurnInv, FreshInv, Fresh,
         LineInv, BarrierIsNewest, TypeOK, Snap, File, WriterFails, WriterLeaves, Overtaken
    <3>7. CleanInv'
      BY <2>8, WriterHolds, <3>d DEF CleanInv, NobodyWrites, DiskInv, TurnInv, TypeOK, WriterFails,
         WriterLeaves, Overtaken
    <3>l. line' \in Lines
      BY <3>1, LineTyped
    <3>s. spent' \in [{"turns", "idle", "failures", "crashes"} -> Nat]
      BY <2>8, SpendTyped DEF WriterFails
    <3>8. TypeOK'
      BY ZenonT(60), <2>8, WriterHolds, <3>l, <3>s, <3>d DEF TypeOK, Snap, WriterFails, WriterLeaves, Overtaken
    <3> QED BY <3>1, <3>2, <3>3, <3>4, <3>5, <3>6, <3>7, <3>8
  <2>9. ASSUME Barrier PROVE RecoveryInv'
    <3>d. Effective' = Effective /\ SidecarWins' = SidecarWins /\ UNCHANGED <<primary, sidecar, now>>
      BY <2>9, DiskKept DEF Barrier, NextSeq
    <3>e. barrier' \in Snap /\ barrier' # NoSnap /\ barrier'.seq = seq + 1 /\ barrier'.ver = live /\ seq' = seq + 1
      <4>1. barrier' = [seq |-> seq + 1, ver |-> live] /\ seq' = seq + 1
        BY <2>9 DEF Barrier, NextSeq
      <4>2. seq + 1 \in Nat /\ live \in Nat
        BY DEF TypeOK
      <4>3. [seq |-> seq + 1, ver |-> live] \in Snap /\ [seq |-> seq + 1, ver |-> live] # NoSnap
        BY <4>2, SnapsAreSnaps
      <4> QED BY <4>1, <4>3
    <3>p. /\ pending' = pending /\ taken' = taken /\ persisted' = persisted /\ draining' = draining
          /\ live' = live /\ barrier = NoSnap /\ line' = Append(line, "barrier")
      BY <2>9 DEF Barrier
    <3>q. /\ persisted <= seq
          /\ \A s \in {pending, taken} : s # NoSnap => /\ s.seq <= seq /\ s.ver <= live
                                                       /\ s.seq \in Nat /\ s.ver \in Nat
          /\ ~draining => pending = NoSnap /\ taken = NoSnap
          /\ persisted \in Nat /\ seq \in Nat /\ live \in Nat
      BY DEF BehindInv, Behind, TypeOK, Snap
    <3>b. BarrierIsNewest'
      BY <3>e, <3>p, <3>q DEF BarrierIsNewest
    <3>1. LineInv'
      <4>1. CASE taken = NoSnap
        <5>1. line' = <<"barrier">>
          BY <3>p, <4>1, BarrierJoins
        <5>2. line' # <<"writer", "barrier">> /\ taken' = NoSnap /\ barrier' # NoSnap
          BY <3>e, <3>p, <4>1, <5>1, LinesDiffer
        <5> QED BY <3>b, <5>1, <5>2 DEF LineInv
      <4>2. CASE taken # NoSnap
        <5>1. line' = <<"writer", "barrier">>
          BY <3>p, <4>2, BarrierJoins
        <5>2. taken'.seq < barrier'.seq
          BY <3>e, <3>p, <3>q, <4>2
        <5>3. taken' # NoSnap /\ barrier' # NoSnap
          BY <3>e, <3>p, <4>2
        <5> QED BY <3>b, <5>1, <5>2, <5>3 DEF LineInv
      <4> QED BY <4>1, <4>2
    <3>2. BehindInv'
      BY <3>e, <3>p, <3>q DEF BehindInv, Behind
    <3>3. FreshInv'
      BY <2>9, EffectiveIsFile, <3>d, <3>e DEF FreshInv, Fresh, TurnInv, BehindInv, Behind, OrderInv,
         Ordered, TypeOK, Snap, File, Later, BarrierIsNewest, LineInv, Barrier, NextSeq
    <3>4. OrderInv'
      <4>1. \A s \in {pending, taken} : Ordered(s, barrier') /\ Ordered(barrier', s)
        BY <3>e, <3>q DEF Ordered
      <4>2. Ordered(pending, taken) /\ Ordered(taken, pending)
        BY DEF OrderInv
      <4> QED BY <3>p, <4>1, <4>2 DEF OrderInv, Ordered
    <3>5. TurnInv'
      BY <2>9, EffectiveIsFile, <3>d, <3>e DEF TurnInv, BehindInv, Behind, TypeOK, Snap, File, Later,
         Barrier, NextSeq
    <3>6. DiskInv'
      BY <2>9, EffectiveIsFile, <3>d, <3>e DEF DiskInv, AckedSurvives, TurnInv, FreshInv, Fresh, LineInv,
         BarrierIsNewest, TypeOK, Snap, File, Barrier, NextSeq
    <3>7. CleanInv'
      BY <2>9, <3>d, <3>e DEF CleanInv, NobodyWrites, DiskInv, TurnInv, TypeOK, Barrier, NextSeq
    <3>l. line' \in Lines
      BY <3>1, LineTyped
    <3>8. TypeOK'
      BY <2>9, <3>l, <3>d, <3>e DEF TypeOK, Snap, File, Barrier, NextSeq
    <3> QED BY <3>1, <3>2, <3>3, <3>4, <3>5, <3>6, <3>7, <3>8
  <2>10. ASSUME BarrierWrites PROVE RecoveryInv'
    <3>e. barrier # NoSnap /\ barrier \in Snap /\ ~Overtaken(barrier)
      BY <2>10, BarrierHolds DEF TypeOK, BarrierWrites, LineInv, BarrierIsNewest, Overtaken, Snap
    <3>d. /\ Effective'.ver = barrier.ver /\ sidecar' \in File /\ primary' \in File /\ now' \in Nat
          /\ sidecar'.at <= Later(now', primary'.at + 1)
      BY <2>10, <3>e, SidecarWritten DEF BarrierWrites, Snap
    <3>1. LineInv'
      BY <2>10, BarrierHolds, LinesDiffer, <3>e DEF LineInv, BarrierIsNewest, BehindInv, Behind, TypeOK,
         Snap, BarrierWrites, BarrierLeaves, Acknowledge, Overtaken, FileLockFree
    <3>2. BehindInv'
      BY <2>10, BarrierHolds, <3>d, <3>e DEF BehindInv, Behind, TurnInv, TypeOK, Snap, BarrierWrites,
         BarrierLeaves, Acknowledge, Overtaken, FileLockFree
    <3>p. /\ barrier.seq > persisted /\ persisted' = barrier.seq
          /\ UNCHANGED <<pending, taken, crossed>> /\ barrier' = NoSnap
          /\ acked' \in {acked, Later(acked, barrier.ver)}
      BY <2>10, <3>e, Overtakes DEF TypeOK, Snap, BarrierWrites, BarrierLeaves, Acknowledge
    <3>q. \A s \in {pending, taken} : s \in Snap /\ s.seq > persisted' =>
             s.ver >= acked /\ s.ver >= barrier.ver
      BY <3>e, <3>p DEF FreshInv, Fresh, OrderInv, Ordered, TypeOK, Snap
    <3>r. Fresh(pending)' /\ Fresh(taken)' /\ Fresh(barrier)'
      BY <3>d, <3>e, <3>p, <3>q DEF TypeOK, Fresh, Snap, Later
    <3>3. FreshInv'
      BY <3>r DEF FreshInv
    <3>4. OrderInv'
      BY <2>10, BarrierHolds, <3>d, <3>e DEF OrderInv, Ordered, BehindInv, Behind, TypeOK, Snap,
         BarrierWrites, BarrierLeaves, Acknowledge, Overtaken, FileLockFree
    <3>5. TurnInv'
      BY <2>10, BarrierHolds, EffectiveIsFile, <3>d, <3>e DEF TurnInv, BehindInv, Behind, TypeOK, Snap, File,
         Later, BarrierWrites, BarrierLeaves, Acknowledge, Overtaken, FileLockFree
    <3>u. barrier.ver >= acked /\ acked \in Nat /\ crossed' = crossed /\ saver' = saver
      BY <2>10, <3>e, <3>p DEF FreshInv, Fresh, TypeOK, Snap, BarrierWrites, BarrierLeaves
    <3>v. AckedSurvives'
      BY <3>d, <3>e, <3>p, <3>u DEF AckedSurvives, Later, Snap
    <3>w. \A s \in Savers : saver'[s] # "delete"
      BY <2>10, <3>u DEF BarrierWrites, FileLockFree
    <3>6. DiskInv'
      BY <3>d, <3>v, <3>w DEF DiskInv
    <3>7. CleanInv'
      BY <2>10, BarrierHolds, <3>d, <3>e DEF CleanInv, NobodyWrites, DiskInv, TurnInv, TypeOK, BarrierWrites,
         BarrierLeaves, Acknowledge, Overtaken, FileLockFree
    <3>l. line' \in Lines
      BY <3>1, LineTyped
    <3>s. acked' \in Nat /\ persisted' \in Nat
      BY <2>10, <3>e, <3>p DEF TypeOK, Snap, Later
    <3>8. TypeOK'
      BY ZenonT(60), <2>10, <3>l, <3>s, <3>d DEF TypeOK, BarrierWrites, BarrierLeaves, Acknowledge, Overtaken, FileLockFree
    <3> QED BY <3>1, <3>2, <3>3, <3>4, <3>5, <3>6, <3>7, <3>8
  <2>11. ASSUME BarrierFails PROVE RecoveryInv'
    <3>d. Effective' = Effective /\ SidecarWins' = SidecarWins /\ UNCHANGED <<primary, sidecar, now>>
      BY <2>11, DiskKept DEF BarrierFails, BarrierLeaves, Overtaken
    <3>1. LineInv'
      BY <2>11, BarrierHolds, LinesDiffer DEF LineInv, BarrierIsNewest, BehindInv, Behind, TypeOK, Snap,
         BarrierFails, BarrierLeaves, Overtaken
    <3>2. BehindInv'
      BY <2>11, BarrierHolds, <3>d DEF BehindInv, Behind, TurnInv, TypeOK, Snap, BarrierFails, BarrierLeaves,
         Overtaken
    <3>3. FreshInv'
      BY <2>11, BarrierHolds, EffectiveIsFile, <3>d DEF FreshInv, Fresh, TurnInv, BehindInv, Behind,
         OrderInv, Ordered, TypeOK, Snap, File, Later, BarrierIsNewest, LineInv, BarrierFails, BarrierLeaves,
         Overtaken
    <3>4. OrderInv'
      BY <2>11, BarrierHolds, <3>d DEF OrderInv, Ordered, BehindInv, Behind, TypeOK, Snap, BarrierFails,
         BarrierLeaves, Overtaken
    <3>5. TurnInv'
      BY <2>11, BarrierHolds, EffectiveIsFile, <3>d DEF TurnInv, BehindInv, Behind, TypeOK, Snap, File,
         Later, BarrierFails, BarrierLeaves, Overtaken
    <3>6. DiskInv'
      BY <2>11, BarrierHolds, EffectiveIsFile, <3>d DEF DiskInv, AckedSurvives, TurnInv, FreshInv, Fresh,
         LineInv, BarrierIsNewest, TypeOK, Snap, File, BarrierFails, BarrierLeaves, Overtaken
    <3>7. CleanInv'
      BY <2>11, BarrierHolds, <3>d DEF CleanInv, NobodyWrites, DiskInv, TurnInv, TypeOK, BarrierFails,
         BarrierLeaves, Overtaken
    <3>l. line' \in Lines
      BY <3>1, LineTyped
    <3>s. spent' \in [{"turns", "idle", "failures", "crashes"} -> Nat]
      BY <2>11, SpendTyped DEF BarrierFails
    <3>8. TypeOK'
      BY ZenonT(60), <2>11, BarrierHolds, <3>l, <3>s, <3>d DEF TypeOK, Snap, BarrierFails, BarrierLeaves, Overtaken
    <3> QED BY <3>1, <3>2, <3>3, <3>4, <3>5, <3>6, <3>7, <3>8
  <2>12. ASSUME IdleSave PROVE RecoveryInv'
    <3>d. Effective' = Effective /\ SidecarWins' = SidecarWins /\ UNCHANGED <<primary, sidecar, now>>
      BY <2>12, DiskKept DEF IdleSave
    <3>1. LineInv'
      BY <2>12, LinesDiffer DEF LineInv, BarrierIsNewest, BehindInv, Behind, TypeOK, Snap, IdleSave
    <3>2. BehindInv'
      BY <2>12, <3>d DEF BehindInv, Behind, TurnInv, TypeOK, Snap, IdleSave
    <3>3. FreshInv'
      BY <2>12, EffectiveIsFile, <3>d DEF FreshInv, Fresh, TurnInv, BehindInv, Behind, OrderInv, Ordered,
         TypeOK, Snap, File, Later, BarrierIsNewest, LineInv, IdleSave
    <3>4. OrderInv'
      BY <2>12, <3>d DEF OrderInv, Ordered, BehindInv, Behind, TypeOK, Snap, IdleSave
    <3>5. TurnInv'
      BY <2>12, EffectiveIsFile, <3>d DEF TurnInv, BehindInv, Behind, TypeOK, Snap, File, Later, IdleSave
    <3>6. DiskInv'
      BY <2>12, EffectiveIsFile, <3>d DEF DiskInv, AckedSurvives, TurnInv, FreshInv, Fresh, LineInv,
         BarrierIsNewest, TypeOK, Snap, File, IdleSave
    <3>7. CleanInv'
      BY <2>12, <3>d DEF CleanInv, NobodyWrites, DiskInv, TurnInv, TypeOK, IdleSave
    <3>l. line' \in Lines
      BY <3>1, LineTyped
    <3>s. spent' \in [{"turns", "idle", "failures", "crashes"} -> Nat]
      BY <2>12, SpendTyped DEF IdleSave
    <3>8. TypeOK'
      BY ZenonT(60), <2>12, SaverTyped, <3>l, <3>s, <3>d DEF TypeOK, Snap, IdleSave
    <3> QED BY <3>1, <3>2, <3>3, <3>4, <3>5, <3>6, <3>7, <3>8
  <2>13. ASSUME TrailingSave PROVE RecoveryInv'
    <3>d. Effective' = Effective /\ SidecarWins' = SidecarWins /\ UNCHANGED <<primary, sidecar, now>>
      BY <2>13, DiskKept DEF TrailingSave
    <3>1. LineInv'
      BY <2>13, LinesDiffer DEF LineInv, BarrierIsNewest, BehindInv, Behind, TypeOK, Snap, TrailingSave
    <3>2. BehindInv'
      BY <2>13, <3>d DEF BehindInv, Behind, TurnInv, TypeOK, Snap, TrailingSave
    <3>3. FreshInv'
      BY <2>13, EffectiveIsFile, <3>d DEF FreshInv, Fresh, TurnInv, BehindInv, Behind, OrderInv, Ordered,
         TypeOK, Snap, File, Later, BarrierIsNewest, LineInv, TrailingSave
    <3>4. OrderInv'
      BY <2>13, <3>d DEF OrderInv, Ordered, BehindInv, Behind, TypeOK, Snap, TrailingSave
    <3>5. TurnInv'
      BY <2>13, EffectiveIsFile, <3>d DEF TurnInv, BehindInv, Behind, TypeOK, Snap, File, Later, TrailingSave
    <3>6. DiskInv'
      BY <2>13, EffectiveIsFile, <3>d DEF DiskInv, AckedSurvives, TurnInv, FreshInv, Fresh, LineInv,
         BarrierIsNewest, TypeOK, Snap, File, TrailingSave
    <3>7. CleanInv'
      BY <2>13, <3>d DEF CleanInv, NobodyWrites, DiskInv, TurnInv, TypeOK, TrailingSave
    <3>l. line' \in Lines
      BY <3>1, LineTyped
    <3>8. TypeOK'
      BY ZenonT(60), <2>13, SaverTyped, <3>l, <3>d DEF TypeOK, Snap, File, TrailingSave
    <3> QED BY <3>1, <3>2, <3>3, <3>4, <3>5, <3>6, <3>7, <3>8
  <2>14. ASSUME NEW s \in Savers, Flushed(s) PROVE RecoveryInv'
    <3>d. Effective' = Effective /\ SidecarWins' = SidecarWins /\ UNCHANGED <<primary, sidecar, now>>
      BY <2>14, DiskKept DEF Flushed, SaveEnds
    <3>1. LineInv'
      BY <2>14, LinesDiffer DEF LineInv, BarrierIsNewest, BehindInv, Behind, TypeOK, Snap, Flushed, SaveEnds
    <3>2. BehindInv'
      BY <2>14, NobodyLeft, <3>d DEF BehindInv, Behind, TurnInv, TypeOK, Snap, Flushed, SaveEnds
    <3>3. FreshInv'
      BY <2>14, NobodyLeft, EffectiveIsFile, <3>d DEF FreshInv, Fresh, TurnInv, BehindInv, Behind, OrderInv,
         Ordered, TypeOK, Snap, File, Later, BarrierIsNewest, LineInv, Flushed, SaveEnds
    <3>4. OrderInv'
      BY <2>14, NobodyLeft, <3>d DEF OrderInv, Ordered, BehindInv, Behind, TypeOK, Snap, Flushed, SaveEnds
    <3>5. TurnInv'
      BY <2>14, NobodyLeft, EffectiveIsFile, <3>d DEF TurnInv, BehindInv, Behind, TypeOK, Snap, File, Later,
         Flushed, SaveEnds
    <3>6. DiskInv'
      BY <2>14, NobodyLeft, EffectiveIsFile, <3>d DEF DiskInv, AckedSurvives, TurnInv, FreshInv, Fresh,
         LineInv, BarrierIsNewest, TypeOK, Snap, File, Flushed, SaveEnds
    <3>7. CleanInv'
      BY <2>14, NobodyLeft, <3>d DEF CleanInv, NobodyWrites, DiskInv, TurnInv, TypeOK, Flushed, SaveEnds
    <3>l. line' \in Lines
      BY <3>1, LineTyped
    <3>8. TypeOK'
      BY <2>14, SaverTyped, <3>l, <3>d DEF TypeOK, Snap, File, Flushed, SaveEnds
    <3> QED BY <3>1, <3>2, <3>3, <3>4, <3>5, <3>6, <3>7, <3>8
  <2>15. ASSUME NEW s \in Savers, SavePrimary(s) PROVE RecoveryInv'
    <3>d. /\ ~SidecarWins' /\ Effective' = primary'
          /\ primary'.ver = merged /\ primary' \in File /\ now' \in Nat
          /\ sidecar # NoFile => sidecar.at <= primary'.at
      BY <2>15, PrimaryWritten
    <3>1. LineInv'
      BY <2>15, LinesDiffer DEF LineInv, BarrierIsNewest, BehindInv, Behind, TypeOK, Snap, SavePrimary,
         FileLockFree
    <3>2. BehindInv'
      BY <2>15, NobodyLeft, <3>d DEF BehindInv, Behind, TurnInv, TypeOK, Snap, SavePrimary, FileLockFree
    <3>n. crossed' = (crossed \/ run = "running" \/ ~Drained) /\ acked' = acked
      BY <2>15 DEF SavePrimary
    <3>o. ~crossed' => ~crossed /\ NobodyWrites /\ run \in {"idle", "ended", "down"} /\ merged = live
      <4>1. run # "crashed"
        BY <2>15 DEF TurnInv, SavePrimary
      <4> QED BY <3>n, <4>1, NobodyLeft DEF TypeOK, TurnInv
    <3>p. UNCHANGED <<pending, taken, barrier, persisted, live, merged, run, attended, line, draining, seq, sidecar>>
      BY <2>15 DEF SavePrimary
    <3>3. FreshInv'
      BY <3>n, <3>o, <3>p DEF FreshInv, Fresh, NobodyWrites
    <3>4. OrderInv'
      BY <2>15, NobodyLeft, <3>d DEF OrderInv, Ordered, BehindInv, Behind, TypeOK, Snap, SavePrimary,
         FileLockFree
    <3>5. TurnInv'
      <4>1. run # "crashed" => acked <= live /\ (~crossed' => Effective'.ver <= live)
        BY <3>d, <3>n, <3>o DEF TurnInv, TypeOK
      <4>2. run # "crashed"
        BY <2>15 DEF TurnInv, SavePrimary
      <4> QED BY <3>n, <3>p, <4>1, <4>2 DEF TurnInv
    <3>u. sidecar' # NoFile => sidecar'.at <= Later(now', primary'.at + 1)
      BY <3>d, <3>p DEF TypeOK, File, Later
    <3>v. AckedSurvives'
      BY <3>d, <3>n, <3>o DEF TurnInv, AckedSurvives, TypeOK
    <3>6. DiskInv'
      BY <3>d, <3>u, <3>v DEF DiskInv
    <3>7. CleanInv'
      BY <2>15, NobodyLeft, <3>d DEF CleanInv, NobodyWrites, DiskInv, TurnInv, TypeOK, SavePrimary, FileLockFree
    <3>l. line' \in Lines
      BY <3>1, LineTyped
    <3>8. TypeOK'
      BY <2>15, SaverTyped, <3>l, <3>d DEF TypeOK, Snap, File, SavePrimary, FileLockFree
    <3> QED BY <3>1, <3>2, <3>3, <3>4, <3>5, <3>6, <3>7, <3>8
  <2>16. ASSUME NEW s \in Savers, SaveFails(s) PROVE RecoveryInv'
    <3>d. Effective' = Effective /\ SidecarWins' = SidecarWins /\ UNCHANGED <<primary, sidecar, now>>
      BY <2>16, DiskKept DEF SaveFails, SaveEnds
    <3>1. LineInv'
      BY <2>16, LinesDiffer DEF LineInv, BarrierIsNewest, BehindInv, Behind, TypeOK, Snap, SaveFails, SaveEnds
    <3>2. BehindInv'
      BY <2>16, <3>d DEF BehindInv, Behind, TurnInv, TypeOK, Snap, SaveFails, SaveEnds
    <3>3. FreshInv'
      BY <2>16, EffectiveIsFile, <3>d DEF FreshInv, Fresh, TurnInv, BehindInv, Behind, OrderInv, Ordered,
         TypeOK, Snap, File, Later, BarrierIsNewest, LineInv, SaveFails, SaveEnds
    <3>4. OrderInv'
      BY <2>16, <3>d DEF OrderInv, Ordered, BehindInv, Behind, TypeOK, Snap, SaveFails, SaveEnds
    <3>5. TurnInv'
      BY <2>16, EffectiveIsFile, <3>d DEF TurnInv, BehindInv, Behind, TypeOK, Snap, File, Later, SaveFails,
         SaveEnds
    <3>6. DiskInv'
      BY <2>16, EffectiveIsFile, <3>d DEF DiskInv, AckedSurvives, TurnInv, FreshInv, Fresh, LineInv,
         BarrierIsNewest, TypeOK, Snap, File, SaveFails, SaveEnds
    <3>7. CleanInv'
      BY <2>16, <3>d DEF CleanInv, NobodyWrites, DiskInv, TurnInv, TypeOK, SaveFails, SaveEnds
    <3>l. line' \in Lines
      BY <3>1, LineTyped
    <3>8. TypeOK'
      BY <2>16, SpendTyped, SaverTyped, <3>l, <3>d DEF TypeOK, Snap, File, SaveFails, SaveEnds
    <3> QED BY <3>1, <3>2, <3>3, <3>4, <3>5, <3>6, <3>7, <3>8
  <2>17. ASSUME NEW s \in Savers, DeleteSidecar(s) PROVE RecoveryInv'
    <3>d. /\ ~SidecarWins /\ ~SidecarWins' /\ Effective' = Effective
          /\ UNCHANGED <<primary, now>> /\ sidecar' \in {sidecar, NoFile}
      BY <2>17 DEF DiskInv, DeleteSidecar, SidecarWins, Effective
    <3>1. LineInv'
      BY <2>17, LinesDiffer DEF LineInv, BarrierIsNewest, BehindInv, Behind, TypeOK, Snap, DeleteSidecar,
         SaveEnds
    <3>2. BehindInv'
      BY <2>17, <3>d DEF BehindInv, Behind, TurnInv, TypeOK, Snap, DeleteSidecar, SaveEnds
    <3>3. FreshInv'
      BY <2>17, EffectiveIsFile, <3>d DEF FreshInv, Fresh, TurnInv, BehindInv, Behind, OrderInv, Ordered,
         TypeOK, Snap, File, Later, BarrierIsNewest, LineInv, DeleteSidecar, SaveEnds
    <3>4. OrderInv'
      BY <2>17, <3>d DEF OrderInv, Ordered, BehindInv, Behind, TypeOK, Snap, DeleteSidecar, SaveEnds
    <3>5. TurnInv'
      BY <2>17, EffectiveIsFile, <3>d DEF TurnInv, BehindInv, Behind, TypeOK, Snap, File, Later,
         DeleteSidecar, SaveEnds
    <3>6. DiskInv'
      BY <2>17, EffectiveIsFile, <3>d DEF DiskInv, AckedSurvives, TurnInv, FreshInv, Fresh, LineInv,
         BarrierIsNewest, TypeOK, Snap, File, DeleteSidecar, SaveEnds
    <3>7. CleanInv'
      BY <2>17, <3>d DEF CleanInv, NobodyWrites, DiskInv, TurnInv, TypeOK, DeleteSidecar, SaveEnds
    <3>l. line' \in Lines
      BY <3>1, LineTyped
    <3>8. TypeOK'
      BY <2>17, SpendTyped, SaverTyped, <3>l, <3>d DEF TypeOK, Snap, File, DeleteSidecar, SaveEnds
    <3> QED BY <3>1, <3>2, <3>3, <3>4, <3>5, <3>6, <3>7, <3>8
  <2>18. ASSUME Shutdown PROVE RecoveryInv'
    <3>d. Effective' = Effective /\ SidecarWins' = SidecarWins /\ UNCHANGED <<primary, sidecar, now>>
      BY <2>18, DiskKept DEF Shutdown
    <3>1. LineInv'
      BY <2>18, LinesDiffer DEF LineInv, BarrierIsNewest, BehindInv, Behind, TypeOK, Snap, Shutdown
    <3>2. BehindInv'
      BY <2>18, <3>d DEF BehindInv, Behind, TurnInv, TypeOK, Snap, Shutdown
    <3>3. FreshInv'
      BY <2>18, EffectiveIsFile, <3>d DEF FreshInv, Fresh, TurnInv, BehindInv, Behind, OrderInv, Ordered,
         TypeOK, Snap, File, Later, BarrierIsNewest, LineInv, Shutdown
    <3>4. OrderInv'
      BY <2>18, <3>d DEF OrderInv, Ordered, BehindInv, Behind, TypeOK, Snap, Shutdown
    <3>5. TurnInv'
      BY <2>18, EffectiveIsFile, <3>d DEF TurnInv, BehindInv, Behind, TypeOK, Snap, File, Later, Shutdown
    <3>6. DiskInv'
      BY <2>18, EffectiveIsFile, <3>d DEF DiskInv, AckedSurvives, TurnInv, FreshInv, Fresh, LineInv,
         BarrierIsNewest, TypeOK, Snap, File, Shutdown
    <3>7. CleanInv'
      BY <2>18, <3>d DEF CleanInv, NobodyWrites, DiskInv, TurnInv, TypeOK, Shutdown
    <3>l. line' \in Lines
      BY <3>1, LineTyped
    <3>8. TypeOK'
      BY <2>18, <3>l, <3>d DEF TypeOK, Snap, File, Shutdown
    <3> QED BY <3>1, <3>2, <3>3, <3>4, <3>5, <3>6, <3>7, <3>8
  <2>19. ASSUME CancelFinalizer PROVE RecoveryInv'
    <3>d. Effective' = Effective /\ SidecarWins' = SidecarWins /\ UNCHANGED <<primary, sidecar, now>>
      BY <2>19, DiskKept DEF CancelFinalizer
    <3>1. LineInv'
      BY <2>19, LinesDiffer DEF LineInv, BarrierIsNewest, BehindInv, Behind, TypeOK, Snap, CancelFinalizer
    <3>2. BehindInv'
      BY <2>19, <3>d DEF BehindInv, Behind, TurnInv, TypeOK, Snap, CancelFinalizer
    <3>3. FreshInv'
      BY <2>19, EffectiveIsFile, <3>d DEF FreshInv, Fresh, TurnInv, BehindInv, Behind, OrderInv, Ordered,
         TypeOK, Snap, File, Later, BarrierIsNewest, LineInv, CancelFinalizer
    <3>4. OrderInv'
      BY <2>19, <3>d DEF OrderInv, Ordered, BehindInv, Behind, TypeOK, Snap, CancelFinalizer
    <3>5. TurnInv'
      BY <2>19, EffectiveIsFile, <3>d DEF TurnInv, BehindInv, Behind, TypeOK, Snap, File, Later, CancelFinalizer
    <3>6. DiskInv'
      BY <2>19, EffectiveIsFile, <3>d DEF DiskInv, AckedSurvives, TurnInv, FreshInv, Fresh, LineInv,
         BarrierIsNewest, TypeOK, Snap, File, CancelFinalizer
    <3>7. CleanInv'
      BY <2>19, <3>d DEF CleanInv, NobodyWrites, DiskInv, TurnInv, TypeOK, CancelFinalizer
    <3>l. line' \in Lines
      BY <3>1, LineTyped
    <3>8. TypeOK'
      BY <2>19, SaverTyped, <3>l, <3>d DEF TypeOK, Snap, File, CancelFinalizer
    <3> QED BY <3>1, <3>2, <3>3, <3>4, <3>5, <3>6, <3>7, <3>8
  <2>20. ASSUME Crash PROVE RecoveryInv'
    <3>d. Effective' = Effective /\ SidecarWins' = SidecarWins /\ UNCHANGED <<primary, sidecar, now>>
      BY <2>20, DiskKept DEF Crash
    <3>1. LineInv'
      BY <2>20, LinesDiffer DEF LineInv, BarrierIsNewest, BehindInv, Behind, TypeOK, Snap, Crash
    <3>2. BehindInv'
      BY <2>20, <3>d DEF BehindInv, Behind, TurnInv, TypeOK, Snap, Crash
    <3>3. FreshInv'
      BY <2>20, EffectiveIsFile, <3>d DEF FreshInv, Fresh, TurnInv, BehindInv, Behind, OrderInv, Ordered,
         TypeOK, Snap, File, Later, BarrierIsNewest, LineInv, Crash
    <3>4. OrderInv'
      BY <2>20, <3>d DEF OrderInv, Ordered, BehindInv, Behind, TypeOK, Snap, Crash
    <3>5. TurnInv'
      BY <2>20, EffectiveIsFile, <3>d DEF TurnInv, BehindInv, Behind, TypeOK, Snap, File, Later, Crash
    <3>6. DiskInv'
      BY <2>20, EffectiveIsFile, <3>d DEF DiskInv, AckedSurvives, TurnInv, FreshInv, Fresh, LineInv,
         BarrierIsNewest, TypeOK, Snap, File, Crash
    <3>7. CleanInv'
      BY <2>20, <3>d DEF CleanInv, NobodyWrites, DiskInv, TurnInv, TypeOK, Crash
    <3>l. line' \in Lines
      BY <3>1, LineTyped
    <3>8. TypeOK'
      BY <2>20, SpendTyped, <3>l, <3>d DEF TypeOK, Snap, File, Crash
    <3> QED BY <3>1, <3>2, <3>3, <3>4, <3>5, <3>6, <3>7, <3>8
  <2>21. ASSUME Restore PROVE RecoveryInv'
    <3>d. /\ Effective' = Effective /\ UNCHANGED <<primary, now>> /\ sidecar' \in {sidecar, NoFile}
          /\ SidecarWins' = SidecarWins
      BY <2>21 DEF Restore, SidecarWins, Effective
    <3>1. LineInv'
      BY <2>21, LinesDiffer DEF LineInv, BarrierIsNewest, BehindInv, Behind, TypeOK, Snap, Restore
    <3>2. BehindInv'
      BY <2>21, <3>d DEF BehindInv, Behind, TurnInv, TypeOK, Snap, Restore
    <3>3. FreshInv'
      BY <2>21, EffectiveIsFile, <3>d DEF FreshInv, Fresh, TurnInv, BehindInv, Behind, OrderInv, Ordered,
         TypeOK, Snap, File, Later, BarrierIsNewest, LineInv, Restore
    <3>4. OrderInv'
      BY <2>21, <3>d DEF OrderInv, Ordered, BehindInv, Behind, TypeOK, Snap, Restore
    <3>5. TurnInv'
      BY <2>21, EffectiveIsFile, <3>d DEF TurnInv, BehindInv, Behind, TypeOK, Snap, File, Later, Restore
    <3>6. DiskInv'
      <4>1. acked' = Effective'.ver /\ acked' \in Nat
        BY <2>21, <3>d, EffectiveIsFile DEF Restore, File
      <4>2. \A s \in Savers : saver'[s] # "delete"
        BY <2>21 DEF Restore, TurnInv
      <4> QED BY <3>d, <4>1, <4>2 DEF DiskInv, AckedSurvives
    <3>7. CleanInv'
      BY <2>21, <3>d DEF CleanInv, NobodyWrites, DiskInv, TurnInv, TypeOK, Restore
    <3>l. line' \in Lines
      BY <3>1, LineTyped
    <3>8. TypeOK'
      BY <2>21, <3>l, <3>d, EffectiveIsFile DEF TypeOK, Snap, File, Restore
    <3> QED BY <3>1, <3>2, <3>3, <3>4, <3>5, <3>6, <3>7, <3>8
  <2> QED BY <1>1, <2>1, <2>2, <2>3, <2>4, <2>5, <2>6, <2>7, <2>8, <2>9, <2>10, <2>11, <2>12, <2>13, <2>14,
  <2>15, <2>16, <2>17, <2>18, <2>19, <2>20, <2>21 DEF Next
<1>2. CASE UNCHANGED vars
  BY <1>2 DEF vars, diskVars, turnVars, snapVars, ghosts, RecoveryInv, TypeOK, LineInv, BehindInv, FreshInv,
     OrderInv, TurnInv,
     DiskInv, CleanInv, Behind, Fresh, Ordered, NobodyWrites, BarrierIsNewest, AckedSurvives, Effective, SidecarWins
<1> QED BY <1>1, <1>2

\* A session that starts has one file, one lock and nobody in line.
LEMMA RecoveryStart == Init => RecoveryInv
<1> SUFFICES ASSUME Init PROVE RecoveryInv
  OBVIOUS
<1>1. TypeOK
  <2>1. primary \in File /\ spent \in [{"turns", "idle", "failures", "crashes"} -> Nat]
    BY DEF Init, File
  <2>2. saver \in [Savers -> {"off", "flush", "queued", "delete"}] /\ line \in Lines
    BY DEF Init, Lines
  <2> QED BY <2>1, <2>2 DEF Init, TypeOK
<1>2. ~SidecarWins /\ Effective = [ver |-> 0, at |-> 0]
  BY DEF Init, SidecarWins, Effective
<1>3. LineInv /\ BehindInv /\ FreshInv /\ OrderInv
  BY DEF Init, LineInv, BehindInv, Behind, FreshInv, Fresh, OrderInv, Ordered, BarrierIsNewest
<1>4. TurnInv /\ DiskInv /\ CleanInv
  BY <1>2 DEF Init, TurnInv, DiskInv, CleanInv, AckedSurvives, NobodyWrites, Savers
<1> QED BY <1>1, <1>3, <1>4 DEF RecoveryInv

\* The inductive invariant: what each snapshot in flight, each file and each
\* saver may be, so that no write takes back what a restart would find.
THEOREM RecoveryHolds == Spec => []RecoveryInv
BY RecoveryStart, RecoveryStep, PTL DEF Spec

\* Every variable keeps its type, and the lock never has more than its holder
\* and one writer in line (_recovery_persistence_lock).
THEOREM RecoveryTyped == Spec => []TypeOK
<1>1. RecoveryInv => TypeOK
  BY DEF RecoveryInv
<1> QED BY <1>1, RecoveryHolds, PTL

\* RecoveryCheckpoint's BarrierIsNewest: persist_recovery_barrier is never told
\* that a newer snapshot came first, so it never reports on another's write.
THEOREM NewestBarrier == Spec => []BarrierIsNewest
<1>1. RecoveryInv => BarrierIsNewest
  BY DEF RecoveryInv, LineInv
<1> QED BY <1>1, RecoveryHolds, PTL

\* RecoveryCheckpoint's AckedSurvives: what a barrier reported as persisted is
\* in whatever a restart would open, for any number of turns, saves, crashes
\* and failures.
THEOREM AckedIsKept == Spec => []AckedSurvives
<1>1. RecoveryInv => AckedSurvives
  BY DEF RecoveryInv, DiskInv
<1> QED BY <1>1, RecoveryHolds, PTL

\* RecoveryCheckpoint's NoStaleSidecar: after a turn's own save the primary is
\* preferred, whether its sidecar could be deleted or not.
THEOREM CleanTurn == Spec => []NoStaleSidecar
<1>1. RecoveryInv => NoStaleSidecar
  BY DEF RecoveryInv, CleanInv, NoStaleSidecar
<1> QED BY <1>1, RecoveryHolds, PTL

\* A write of either file opens what was there or more.
LEMMA NoStepBack ==
  ASSUME RecoveryInv, Next, ~crossed'
  PROVE  Effective'.ver >= Effective.ver
<1>e. Effective.ver \in Nat
  BY EffectiveIsFile DEF RecoveryInv, File
<1>1. CASE UNCHANGED diskVars
  BY <1>1, <1>e, DiskKept
<1>2. CASE WriterWrites
  <2>1. taken # NoSnap /\ taken \in Snap /\ taken.seq > persisted /\ ~crossed
    BY <1>2, WriterHolds, Overtakes DEF RecoveryInv, TypeOK, WriterWrites, WriterLeaves, ghosts
  <2>2. Effective'.ver = taken.ver
    BY <1>2, <2>1, SidecarWritten DEF RecoveryInv, WriterWrites, Snap
  <2> QED BY <1>e, <2>1, <2>2 DEF RecoveryInv, FreshInv, Fresh, Snap
<1>3. CASE BarrierWrites
  <2>1. barrier # NoSnap /\ barrier \in Snap /\ ~crossed
    BY <1>3, BarrierHolds DEF RecoveryInv, TypeOK, BarrierWrites, BarrierLeaves
  <2>2. persisted < barrier.seq /\ persisted \in Nat /\ barrier.seq \in Nat /\ barrier.ver \in Nat
    BY <2>1 DEF RecoveryInv, LineInv, BarrierIsNewest, TypeOK, Snap
  <2>3. ~Overtaken(barrier) /\ barrier.seq > persisted
    BY <2>2 DEF Overtaken
  <2>4. Effective'.ver = barrier.ver
    BY <1>3, <2>2, <2>3, SidecarWritten DEF RecoveryInv, BarrierWrites
  <2> QED BY <1>e, <2>1, <2>2, <2>3, <2>4 DEF RecoveryInv, FreshInv, Fresh
<1>4. CASE \E s \in Savers : SavePrimary(s)
  <2> PICK s \in Savers : SavePrimary(s)
    BY <1>4
  <2>1. Effective'.ver = merged
    BY PrimaryWritten DEF RecoveryInv
  <2>2. ~crossed /\ run # "running" /\ run # "crashed"
    BY DEF SavePrimary, RecoveryInv, TurnInv
  <2>3. merged = live /\ Effective.ver <= live
    BY <2>2 DEF RecoveryInv, TurnInv, TypeOK
  <2> QED BY <1>e, <2>1, <2>3 DEF RecoveryInv, TypeOK
<1>5. CASE \E s \in Savers : DeleteSidecar(s)
  <2> PICK s \in Savers : DeleteSidecar(s)
    BY <1>5
  <2>1. Effective' = Effective
    BY DEF RecoveryInv, DiskInv, DeleteSidecar, SidecarWins, Effective
  <2> QED BY <1>e, <2>1
<1>6. CASE Restore
  <2>1. Effective' = Effective
    BY <1>6 DEF Restore, SidecarWins, Effective
  <2> QED BY <1>e, <2>1
<1>7. \/ UNCHANGED diskVars
      \/ WriterWrites \/ BarrierWrites \/ Restore
      \/ \E s \in Savers : SavePrimary(s) \/ DeleteSidecar(s)
  BY DEF Next, StartTurn, Progress, Checkpoint, EndTurn, Pick, WriterSkips, WriterFails, Barrier,
         BarrierFails, IdleSave, TrailingSave, Flushed, SaveFails, Shutdown, CancelFinalizer, Crash
<1> QED BY <1>1, <1>2, <1>3, <1>4, <1>5, <1>6, <1>7

\* RecoveryCheckpoint's RestartNeverGoesBack: no write, deletion, crash or
\* restart takes progress away that a restart would have found before.
THEOREM NeverBack == Spec => RestartNeverGoesBack
<1>1. RecoveryInv /\ [Next]_vars => [~crossed' => Effective'.ver >= Effective.ver]_vars
  BY NoStepBack
<1> QED BY <1>1, RecoveryHolds, PTL DEF Spec, RestartNeverGoesBack
=============================================================================
