------------------------- MODULE RecoveryCheckpoint -------------------------
(***************************************************************************)
(* What survives a crash of one session: the recovery checkpoints of the   *)
(* engine (orchestration/engine/engine.py) against the primary saves, and  *)
(* the two files of the state store (service/state/store.py) they compete  *)
(* for.                                                                    *)
(*                                                                         *)
(* The content of a file is the amount of the conversation it holds, a     *)
(* version.  A turn makes progress that only the loop recorder has (live)  *)
(* until its finalizer merges it into history_state (merged): a recovery   *)
(* snapshot holds live, a primary save holds merged.  A coroutine's steps  *)
(* end at its awaits; a thread holding the session's file lock is a step   *)
(* per file it changes.                                                    *)
(***************************************************************************)
EXTENDS Naturals, Sequences

CONSTANTS
    MaxVer,         \* bound: progress made
    MaxTurns,       \* bound: turns started
    MaxSeq,         \* bound: recovery snapshots taken per process
    MaxNow,         \* bound: ticks of the wall clock
    MaxIdleSaves,   \* bound: saves made outside a turn
    MaxFailures,    \* bound: file operations that fail
    MaxCrashes,     \* bound: crashes
    NoFile, NoSnap

ASSUME BoundsAssumption ==
    /\ {MaxVer, MaxTurns, MaxSeq, MaxNow, MaxIdleSaves, MaxFailures, MaxCrashes} \subseteq Nat
    /\ NoFile \notin [ver : Nat, at : Nat]
    /\ NoSnap \notin [seq : Nat, ver : Nat]

File == [ver : Nat, at : Nat]
Snap == [seq : Nat, ver : Nat]
Savers == {"turn", "trailing", "idle"}

VARIABLES
    primary,    \* session.json: content and meta.updated_at
    sidecar,    \* session.recovery.json, or NoFile
    now,        \* the wall clock, read when an envelope is built
    run,        \* "idle", "running", "ended" (finalizing), "down", "crashed"
    stopping,   \* _shutting_down
    fallback,   \* _shutdown_used_cancel_fallback: the trailing save is off
    live,       \* progress of the conversation, the running turn included
    merged,     \* progress history_state holds
    seq,        \* _recovery_snapshot_seq
    persisted,  \* _recovery_persisted_seq
    pending,    \* _pending_recovery_state
    draining,   \* the background writer runs (_drain_recovery_checkpoints)
    taken,      \* the snapshot it has taken, or NoSnap
    barrier,    \* the strict writer's snapshot, or NoSnap
    attended,   \* its caller still waits for it
    line,       \* _recovery_persistence_lock: its holder, then those in line
    saver,      \* each save: "off", "flush", "queued" or "delete"
    acked,      \* ghost: progress reported as persisted
    crossed,    \* ghost: an idle save wrote the primary amid recovery writes
    saved,      \* ghost: the last turn's own save went through
    spent       \* what of each bound is used up

diskVars == <<primary, sidecar, now>>
turnVars == <<run, stopping, fallback, live, merged>>
snapVars == <<seq, persisted, pending, draining, taken, barrier, attended, line>>
ghosts   == <<acked, crossed, saved>>
vars     == <<diskVars, turnVars, snapVars, saver, ghosts, spent>>

Later(a, b) == IF a >= b THEN a ELSE b

Spend(what) == spent' = [spent EXCEPT ![what] = @ + 1]

Init == /\ primary = [ver |-> 0, at |-> 0]
        /\ sidecar = NoFile
        /\ now = 0
        /\ run = "idle" /\ stopping = FALSE /\ fallback = FALSE
        /\ live = 0 /\ merged = 0
        /\ seq = 0 /\ persisted = 0
        /\ pending = NoSnap
        /\ draining = FALSE /\ taken = NoSnap
        /\ barrier = NoSnap /\ attended = FALSE
        /\ line = <<>>
        /\ saver = [s \in Savers |-> "off"]
        /\ acked = 0 /\ crossed = FALSE /\ saved = FALSE
        /\ spent = [turns |-> 0, idle |-> 0, failures |-> 0, crashes |-> 0]

-----------------------------------------------------------------------------
\* The state store.

Holds(job) == line # <<>> /\ Head(line) = job

\* A saver that has written the primary keeps the file lock until it has
\* deleted the sidecar.
FileLockFree == \A s \in Savers : saver[s] # "delete"

\* The clock moves on or two reads of it give the same time.
Clock == now' \in {now, now + 1} /\ now' <= MaxNow

\* Mutant of RecoveryAt: the floor is the primary's own time.
RecoveryAtFloor(t) == Later(t, primary.at)

\* A recovery envelope is always newer than the primary.
RecoveryAt(t) == Later(t, primary.at + 1)

\* Mutant of PrimaryAt: the time is forced for sidecars only.
PrimaryAtUnforced(t, same) == IF same THEN primary.at ELSE t

\* A primary envelope keeps its time while the number of visible messages
\* stays the same, unless there is a sidecar to be newer than.
PrimaryAt(t, same) ==
    IF sidecar # NoFile THEN Later(t, primary.at + 1)
    ELSE IF same THEN primary.at ELSE t

WriteSidecar(ver) ==
    /\ Clock
    /\ sidecar' = [ver |-> ver, at |-> RecoveryAt(now')]
    /\ UNCHANGED primary

SidecarWins == sidecar # NoFile /\ sidecar.at > primary.at

Effective == IF SidecarWins THEN sidecar ELSE primary

-----------------------------------------------------------------------------
\* The turn.

\* Mutant of NextSeq: a snapshot is not numbered anew.
SameSeq == seq

NextSeq == seq + 1

StartTurn ==
    /\ run = "idle" /\ ~stopping
    /\ spent.turns < MaxTurns
    /\ run' = "running"
    /\ saved' = FALSE
    /\ Spend("turns")
    /\ UNCHANGED <<diskVars, stopping, fallback, live, merged, snapVars, saver, acked, crossed>>

\* The model or a tool adds to the turn; the loop does not while it waits at
\* a barrier.
Progress ==
    /\ run = "running"
    /\ live < MaxVer
    /\ barrier = NoSnap
    /\ live' = live + 1
    /\ UNCHANGED <<diskVars, run, stopping, fallback, merged, snapVars, saver, ghosts, spent>>

\* A result checkpoint: the snapshot is taken at once and left to the
\* background writer, which is started when there is none.
Checkpoint ==
    /\ run = "running"
    /\ live > 0 /\ seq < MaxSeq
    /\ seq' = NextSeq
    /\ pending' = [seq |-> NextSeq, ver |-> live]
    /\ draining' = TRUE
    /\ UNCHANGED <<diskVars, turnVars, persisted, taken, barrier, attended, line, saver, ghosts, spent>>

\* The turn's task ends, at an await of the tool loop when it is interrupted.
\* A barrier that waits in line gives up its place, behind the holder; one
\* that writes does so without its caller.  The finalizer merges the recorded progress and saves,
\* which begins with a flush.
EndTurn ==
    /\ run = "running"
    /\ run' = "ended"
    /\ merged' = live
    /\ saver' = [saver EXCEPT !["turn"] = "flush"]
    /\ attended' = FALSE
    /\ IF Holds("barrier")
       THEN UNCHANGED <<barrier, line>>
       ELSE /\ barrier' = NoSnap
            /\ line' = IF barrier = NoSnap THEN line ELSE <<Head(line)>>
    /\ UNCHANGED <<diskVars, stopping, fallback, live, seq, persisted, pending, draining, taken, ghosts, spent>>

-----------------------------------------------------------------------------
\* The background writer.

\* It takes the newest snapshot, which leaves nothing pending, and lines up
\* for the lock; with nothing pending it ends.
Pick ==
    /\ draining /\ taken = NoSnap
    /\ pending' = NoSnap
    /\ taken' = pending
    /\ IF pending = NoSnap
       THEN draining' = FALSE /\ UNCHANGED line
       ELSE line' = Append(line, "writer") /\ UNCHANGED draining
    /\ UNCHANGED <<diskVars, turnVars, seq, persisted, barrier, attended, saver, ghosts, spent>>

\* Mutant of Overtaken: a snapshot is written whatever was before it.
NeverOvertaken(snap) == FALSE

Overtaken(snap) == snap.seq <= persisted

WriterLeaves ==
    /\ taken' = NoSnap
    /\ line' = Tail(line)
    /\ UNCHANGED <<turnVars, seq, pending, draining, barrier, attended, saver, ghosts>>

WriterSkips ==
    /\ Holds("writer") /\ Overtaken(taken)
    /\ WriterLeaves
    /\ UNCHANGED <<diskVars, persisted, spent>>

\* The snapshot counts as persisted when the write fails too: its failure is
\* logged and swallowed.
WriterWrites ==
    /\ Holds("writer") /\ ~Overtaken(taken)
    /\ FileLockFree
    /\ WriteSidecar(taken.ver)
    /\ persisted' = taken.seq
    /\ WriterLeaves
    /\ UNCHANGED spent

WriterFails ==
    /\ Holds("writer") /\ ~Overtaken(taken)
    /\ spent.failures < MaxFailures
    /\ Spend("failures")
    /\ persisted' = taken.seq
    /\ WriterLeaves
    /\ UNCHANGED diskVars

-----------------------------------------------------------------------------
\* The strict barrier before a wire call (persist_recovery_barrier), and the
\* same write when compaction is about to drop what it could not spill
\* (persist_recovery_now, which flushes first).

\* The snapshot, its number and its place in line are taken in one step.
Barrier ==
    /\ run = "running"
    /\ barrier = NoSnap
    /\ live > 0 /\ seq < MaxSeq
    /\ seq' = NextSeq
    /\ barrier' = [seq |-> NextSeq, ver |-> live]
    /\ attended' = TRUE
    /\ line' = Append(line, "barrier")
    /\ UNCHANGED <<diskVars, turnVars, persisted, pending, draining, taken, saver, ghosts, spent>>

BarrierLeaves ==
    /\ barrier' = NoSnap
    /\ attended' = FALSE
    /\ line' = Tail(line)
    /\ UNCHANGED <<turnVars, seq, pending, draining, taken, saver, crossed, saved>>

\* The loop learns that its progress is on disk.
Acknowledge == acked' = IF attended THEN Later(acked, barrier.ver) ELSE acked

\* The strict writer has nothing to write when a newer snapshot came first.
BarrierWrites ==
    /\ Holds("barrier")
    /\ FileLockFree
    /\ IF Overtaken(barrier)
       THEN UNCHANGED <<diskVars, persisted>>
       ELSE WriteSidecar(barrier.ver) /\ persisted' = barrier.seq
    /\ Acknowledge
    /\ BarrierLeaves
    /\ UNCHANGED spent

\* A failed barrier may be tried once more; then the loop goes on without.
BarrierFails ==
    /\ Holds("barrier") /\ ~Overtaken(barrier)
    /\ spent.failures < MaxFailures
    /\ Spend("failures")
    /\ BarrierLeaves
    /\ UNCHANGED <<diskVars, persisted, acked>>

-----------------------------------------------------------------------------
\* Saves of the primary: of a turn's finalizer, of shutdown, of an idle
\* engine that has reclassified mutations.

\* refresh_mutation_attribution looks for a running executor before it
\* awaits, and not after.
IdleSave ==
    /\ run \in {"idle", "ended"} /\ ~stopping
    /\ saver["idle"] = "off"
    /\ spent.idle < MaxIdleSaves
    /\ saver' = [saver EXCEPT !["idle"] = "flush"]
    /\ Spend("idle")
    /\ UNCHANGED <<diskVars, turnVars, snapVars, ghosts>>

\* Mutant of Drained: the save waits until the newest snapshot is persisted.
DrainedWhenPersisted == persisted = seq

\* _flush_recovery_checkpoint: no recovery write is in flight.  A barrier
\* still waiting for the lock is not one of them.
Drained == ~draining /\ ~Holds("barrier")

\* The turn's save is what the turn waits for, shutdown's is its last act.
SaveEnds(s) ==
    run' = CASE s = "turn" /\ run = "ended" -> "idle"
             [] s = "trailing" /\ run = "idle" -> "down"
             [] OTHER -> run

Flushed(s) ==
    /\ saver[s] = "flush"
    /\ Drained
    /\ IF s = "trailing" /\ fallback
       THEN saver' = [saver EXCEPT ![s] = "off"] /\ SaveEnds(s)
       ELSE saver' = [saver EXCEPT ![s] = "queued"] /\ UNCHANGED run
    /\ UNCHANGED <<diskVars, stopping, fallback, live, merged, snapVars, ghosts, spent>>

\* In a thread, under the file lock: the envelope is built and renamed over
\* the primary.
SavePrimary(s) ==
    /\ saver[s] = "queued"
    /\ FileLockFree
    /\ Clock
    /\ \E same \in BOOLEAN : primary' = [ver |-> merged, at |-> PrimaryAt(now', same)]
    /\ saver' = [saver EXCEPT ![s] = "delete"]
    /\ crossed' = (crossed \/ run = "running" \/ ~Drained)
    /\ UNCHANGED <<sidecar, turnVars, snapVars, acked, saved, spent>>

SaveFails(s) ==
    /\ saver[s] = "queued"
    /\ spent.failures < MaxFailures
    /\ Spend("failures")
    /\ saver' = [saver EXCEPT ![s] = "off"]
    /\ SaveEnds(s)
    /\ UNCHANGED <<diskVars, stopping, fallback, live, merged, snapVars, ghosts>>

\* The sidecar goes, or its deletion fails and nobody hears of it.
DeleteSidecar(s) ==
    /\ saver[s] = "delete"
    /\ \/ sidecar' = NoFile /\ UNCHANGED spent
       \/ /\ sidecar # NoFile /\ spent.failures < MaxFailures
          /\ Spend("failures")
          /\ UNCHANGED sidecar
    /\ saver' = [saver EXCEPT ![s] = "off"]
    /\ SaveEnds(s)
    /\ saved' = (saved \/ (s = "turn" /\ run = "ended"))
    /\ UNCHANGED <<primary, now, stopping, fallback, live, merged, snapVars, acked, crossed>>

-----------------------------------------------------------------------------
\* Shutdown, crash and restart.

Shutdown ==
    /\ run \in {"idle", "running", "ended"} /\ ~stopping
    /\ stopping' = TRUE
    /\ UNCHANGED <<diskVars, run, fallback, live, merged, snapVars, saver, ghosts, spent>>

\* Shutdown cancels the turn's task when its post-run work takes too long: a
\* flush is left, a thread goes on without it, and the trailing save is off.
CancelFinalizer ==
    /\ run = "ended" /\ stopping
    /\ run' = "idle"
    /\ fallback' = TRUE
    /\ saver' = IF saver["turn"] = "flush" THEN [saver EXCEPT !["turn"] = "off"] ELSE saver
    /\ UNCHANGED <<diskVars, stopping, live, merged, snapVars, ghosts, spent>>

TrailingSave ==
    /\ run = "idle" /\ stopping
    /\ saver["trailing"] = "off"
    /\ saver' = [saver EXCEPT !["trailing"] = "flush"]
    /\ UNCHANGED <<diskVars, turnVars, snapVars, ghosts, spent>>

\* The process is killed between two steps, threads included.
Crash ==
    /\ run # "crashed"
    /\ spent.crashes < MaxCrashes
    /\ Spend("crashes")
    /\ run' = "crashed"
    /\ stopping' = FALSE /\ fallback' = FALSE
    /\ live' = 0 /\ merged' = 0
    /\ seq' = 0 /\ persisted' = 0 /\ pending' = NoSnap
    /\ draining' = FALSE /\ taken' = NoSnap
    /\ barrier' = NoSnap /\ attended' = FALSE
    /\ line' = <<>>
    /\ saver' = [s \in Savers |-> "off"]
    /\ saved' = FALSE
    /\ UNCHANGED <<diskVars, acked, crossed>>

\* The session is opened again from whichever file is newer; a sidecar that
\* is not is deleted, unless that fails.
Restore ==
    /\ run = "crashed"
    /\ run' = "idle"
    /\ live' = Effective.ver /\ merged' = Effective.ver
    /\ acked' = Effective.ver
    /\ \/ sidecar' = IF SidecarWins THEN sidecar ELSE NoFile
       \/ UNCHANGED sidecar
    /\ UNCHANGED <<primary, now, stopping, fallback, snapVars, saver, crossed, saved, spent>>

-----------------------------------------------------------------------------
Next ==
    \/ StartTurn \/ Progress \/ Checkpoint \/ EndTurn
    \/ Pick \/ WriterSkips \/ WriterWrites \/ WriterFails
    \/ Barrier \/ BarrierWrites \/ BarrierFails
    \/ IdleSave \/ TrailingSave
    \/ \E s \in Savers : \/ Flushed(s) \/ SavePrimary(s)
                         \/ SaveFails(s) \/ DeleteSidecar(s)
    \/ Shutdown \/ CancelFinalizer \/ Crash \/ Restore

Spec == Init /\ [][Next]_vars

\* Coroutines and threads that can run do run, and waiting for the file lock
\* is bounded.  Nobody is obliged to crash, shut down or begin a turn.
Fairness ==
    /\ WF_vars(Pick)
    /\ WF_vars(WriterSkips \/ WriterWrites \/ WriterFails)
    /\ WF_vars(BarrierWrites \/ BarrierFails)
    /\ \A s \in Savers : WF_vars(Flushed(s) \/ SavePrimary(s) \/ SaveFails(s) \/ DeleteSidecar(s))

FairSpec == Spec /\ Fairness

-----------------------------------------------------------------------------
\* The lock has a holder and at most one more task in line.
Lines == {<<>>, <<"writer">>, <<"barrier">>, <<"writer", "barrier">>, <<"barrier", "writer">>}

TypeOK ==
    /\ primary \in File
    /\ sidecar \in File \cup {NoFile}
    /\ now \in Nat
    /\ run \in {"idle", "running", "ended", "down", "crashed"}
    /\ stopping \in BOOLEAN /\ fallback \in BOOLEAN
    /\ live \in Nat /\ merged \in Nat
    /\ seq \in Nat /\ persisted \in Nat
    /\ pending \in Snap \cup {NoSnap}
    /\ draining \in BOOLEAN /\ taken \in Snap \cup {NoSnap}
    /\ barrier \in Snap \cup {NoSnap}
    /\ attended \in BOOLEAN
    /\ line \in Lines
    /\ saver \in [Savers -> {"off", "flush", "queued", "delete"}]
    /\ acked \in Nat /\ crossed \in BOOLEAN /\ saved \in BOOLEAN
    /\ spent \in [{"turns", "idle", "failures", "crashes"} -> Nat]

\* What a barrier has reported as persisted is in whatever a restart would
\* open, at every moment: through background writes, failed writes, the
\* rename of the primary before the sidecar goes, cancellations and crashes.
\* Idle saves that cross into a turn are set aside.
AckedSurvives == ~crossed => Effective.ver >= acked

\* The same without setting idle saves aside, as the comment in
\* refresh_mutation_attribution has it: no primary save takes away what only
\* the sidecar holds while a turn runs (engine.py:1416-1421).
SidecarSurvivesTurn == Effective.ver >= acked

\* No snapshot is written before a barrier that was taken earlier: a barrier
\* is never reported persisted because of a background write, which may have
\* failed.
BarrierIsNewest == barrier # NoSnap => persisted < barrier.seq

\* After a turn's own save no sidecar is preferred to the primary, even when
\* its deletion failed: no writer brings one back after a clean turn.
NoStaleSidecar == saved /\ run \in {"idle", "down"} => ~SidecarWins

\* What a restart would open never loses progress it once had.
RestartNeverGoesBack == [][~crossed' => Effective'.ver >= Effective.ver]_vars

\* A turn that has ended leaves its finalizer, whatever recovery writes it
\* has to wait for.
TurnIsSettled == run = "ended" ~> run # "ended"
=============================================================================
