--------------------------- MODULE SubAgentControl ---------------------------
(***************************************************************************)
(* Sub-agent invocations: the tool call that starts one                    *)
(* (orchestration/sub_agents/tools.py), the controller that runs, pauses,  *)
(* retries and tears it down (controller.py for the program's own agents,  *)
(* acp_controller.py for external ones, the set Acp), the engine's mirror  *)
(* of paused invocations, the user's interrupt, and the record of a paused *)
(* invocation on disk through saves, crashes and restores.                 *)
(*                                                                         *)
(* An invocation is one coroutine; pc says at which await it stands.  The  *)
(* interrupt's cascade runs in a task of its own and meets it at any of    *)
(* these awaits.  An event reaches the engine in the step that publishes   *)
(* it.                                                                     *)
(***************************************************************************)
EXTENDS Naturals, FiniteSets

CONSTANTS
    Invocations,    \* invocation ids, one per call of a sub-agent tool
    Acp,            \* those driven over ACP
    AgentOf,        \* the sub-agent tool each of them calls
    MaxTotal,       \* _max_total
    MaxPerAgent,    \* _agent_max, the same for every tool
    MaxAttempts,    \* bound: attempts of each invocation
    MaxCrashes,     \* bound: crashes
    MayFail,        \* bound: the invocations whose pause record may fail to be written
    None

ASSUME ControlAssumption == /\ Acp \subseteq Invocations /\ MayFail \subseteq Invocations
                            /\ IsFiniteSet(Invocations)
                            /\ AgentOf \in [Invocations -> Invocations]
                            /\ {MaxTotal, MaxPerAgent, MaxCrashes} \subseteq Nat
                            /\ MaxAttempts \in [Invocations -> Nat]
                            /\ None \notin {"run", "cascade"}

VARIABLES
    pc,         \* where the coroutine of each invocation stands
    status,     \* SubAgentStatus of each controller
    attempts,   \* attempts started so far
    decision,   \* the future of a pause: "none", "open" or what it holds
    flag,       \* _cascade_requested
    cascade,    \* cascade_abort of each controller, as called by the interrupt
    finBy,      \* who holds the cancellation-finalize lock
    finAt,      \* and how far it is
    finalized,  \* _cancellation_finalized
    cancel,     \* the parent's cancellation of each invocation
    answered,   \* an interrupted result was committed, or the call returned
    total,      \* _total_active
    perAgent,   \* _agent_active
    paused,     \* the engine's _paused_sub_agents
    cascades,   \* SubAgentCascadeAborted events published (two count as many)
    silenced,   \* invocations of which the last event published is their cascade
    engine,     \* the parent: its run, its save, a crash, a restore
    interrupt,  \* the handler of UserInterrupt
    call,       \* each call in the parent's live history
    saved,      \* and in the saved session
    record,     \* the pause record on disk, or that writing it failed
    queued,     \* _pending_cleanup_paths
    consumed,   \* calls a restore answered, whose records go after its save
    crashes

runVars     == <<pc, status, attempts, decision>>
cascadeVars == <<flag, cascade, finBy, finAt, finalized>>
countVars   == <<total, perAgent>>
eventVars   == <<paused, cascades, silenced>>
parentVars  == <<engine, interrupt, cancel>>
diskVars    == <<saved, record, queued, consumed, crashes>>
vars == <<runVars, cascadeVars, countVars, eventVars, parentVars, answered, call, diskVars>>

Pcs == {"none", "starting", "attempt", "backoff", "replied", "completing", "failing",
        "pausing", "announcing", "waiting", "resuming", "aborting", "abort_said",
        "finalizing", "closing", "cleanup", "gone"}

\* The awaits of run() that the cancellation of the parent tears.
InRun == Pcs \ {"none", "finalizing", "closing", "cleanup", "gone"}

\* Controllers the tools object still knows.
Live == {i \in Invocations : pc[i] \notin {"none", "gone"}}
Kernel == Invocations \ Acp

Init == /\ pc = [i \in Invocations |-> "none"]
        /\ status = [i \in Invocations |-> "running"]
        /\ attempts = [i \in Invocations |-> 0]
        /\ decision = [i \in Invocations |-> "none"]
        /\ flag = [i \in Invocations |-> FALSE]
        /\ cascade = [i \in Invocations |-> "no"]
        /\ finBy = [i \in Invocations |-> None]
        /\ finAt = [i \in Invocations |-> "reject"]
        /\ finalized = [i \in Invocations |-> FALSE]
        /\ cancel = [i \in Invocations |-> "no"]
        /\ answered = {}
        /\ total = 0
        /\ perAgent = [a \in Invocations |-> 0]
        /\ paused = {}
        /\ cascades = [i \in Invocations |-> 0]
        /\ silenced = {}
        /\ engine = "running"
        /\ interrupt = "no"
        /\ call = [i \in Invocations |-> "none"]
        /\ saved = [i \in Invocations |-> "none"]
        /\ record = [i \in Invocations |-> "none"]
        /\ queued = {}
        /\ consumed = {}
        /\ crashes = 0

\* What is left of the records when nobody knows any more which writes failed.
OnlyFiles == [i \in Invocations |-> IF record[i] = "failed" THEN "none" ELSE record[i]]

Goto(i, place) == pc' = [pc EXCEPT ![i] = place]
Stamp(i, s)    == status' = [status EXCEPT ![i] = s]

-----------------------------------------------------------------------------
\* Events.  The engine tracks a pause only while its run goes on, and any
\* other word about an invocation takes it out of the paused set.

Say(i, word) ==
    /\ paused' = IF word = "paused" THEN paused \cup {i} ELSE paused \ {i}
    /\ silenced' = IF word = "cascade" THEN silenced \cup {i} ELSE silenced \ {i}
    /\ cascades' = [cascades EXCEPT ![i] = IF word = "cascade" /\ @ < 2 THEN @ + 1 ELSE @]

-----------------------------------------------------------------------------
\* The tool call: both limits are looked at and both counters taken without
\* an await; a call over a limit is answered with an error.

Admitted(i) == total < MaxTotal /\ perAgent[AgentOf[i]] < MaxPerAgent

Invoke(i) ==
    /\ engine = "running" /\ call[i] = "none"
    /\ Admitted(i)
    /\ total' = total + 1
    /\ perAgent' = [perAgent EXCEPT ![AgentOf[i]] = @ + 1]
    /\ call' = [call EXCEPT ![i] = "dangling"]
    /\ Goto(i, "starting")
    /\ UNCHANGED <<status, attempts, decision, cascadeVars, eventVars, parentVars, answered, diskVars>>

Refuse(i) ==
    /\ engine = "running" /\ call[i] = "none"
    /\ ~Admitted(i)
    /\ call' = [call EXCEPT ![i] = "answered"]
    /\ Goto(i, "gone")
    /\ UNCHANGED <<status, attempts, decision, cascadeVars, countVars, eventVars, parentVars, answered, diskVars>>

\* Mutant of ReturnCounters: the tool's own counter is forgotten.
ReturnTotalOnly(i) == total' = total - 1 /\ UNCHANGED perAgent

ReturnCounters(i) == /\ total' = total - 1
                     /\ perAgent' = [perAgent EXCEPT ![AgentOf[i]] = @ - 1]

\* The end of the call: hooks and flushes are awaited, then the controller is
\* forgotten with all it knew and the counters are returned.  A cancellation that arrives in
\* these awaits is kept and raised at the end, and the result is lost.
Return(i) ==
    /\ pc[i] = "cleanup"
    /\ ReturnCounters(i)
    /\ call' = [call EXCEPT ![i] = IF i \in answered \/ cancel[i] # "late"
                                     THEN "answered" ELSE "dropped"]
    /\ Goto(i, "gone")
    /\ attempts' = [attempts EXCEPT ![i] = 0]
    /\ cancel' = [cancel EXCEPT ![i] = "no"]
    /\ answered' = answered \ {i}
    /\ UNCHANGED <<status, decision, cascadeVars, eventVars, engine, interrupt, diskVars>>

-----------------------------------------------------------------------------
\* run(): the loop of attempts.

Unmoved == UNCHANGED <<cascadeVars, countVars, parentVars, answered, call, saved, consumed, crashes>>

\* The pause record of an invocation whose run ends is queued for removal,
\* unless the controller still says PAUSED.
QueueCleanup(i, s) == queued' = IF s # "paused" THEN queued \cup {i} ELSE queued

\* The awaited log write (or the ACP translator's adoption) is over; the
\* attempt starts unless a cascade came first.
StartAttempt(i) ==
    /\ pc[i] = "starting"
    /\ Stamp(i, "running")
    /\ IF flag[i] THEN Goto(i, "finalizing") /\ UNCHANGED attempts
                  ELSE /\ attempts[i] < MaxAttempts[i]
                       /\ attempts' = [attempts EXCEPT ![i] = @ + 1]
                       /\ Goto(i, "attempt")
    /\ UNCHANGED <<decision, eventVars, record, queued>> /\ Unmoved

\* The attempt answers, fails, or fails in a way the retry loop repeats.  A
\* cascade has cancelled the child task of a kernel controller; an ACP client
\* that was told to cancel ends in a cancellation too, except when its
\* connection is what fails, a branch that does not look at the flag.
AttemptEnds(i) ==
    /\ pc[i] = "attempt"
    /\ \E next \in IF ~flag[i] THEN {"replied", "failing"} \cup
                                        (IF attempts[i] < MaxAttempts[i] THEN {"backoff"} ELSE {})
                   ELSE {"finalizing"} \cup (IF i \in Acp THEN {"failing"} ELSE {}) :
         Goto(i, next)
    /\ UNCHANGED <<status, attempts, decision, eventVars, record, queued>> /\ Unmoved

BackoffEnds(i) ==
    /\ pc[i] = "backoff"
    /\ Goto(i, "starting")
    /\ UNCHANGED <<status, attempts, decision, eventVars, record, queued>> /\ Unmoved

\* A kernel controller reconciles the hosted response, says COMPLETED and
\* writes the log, looking at no flag; an ACP one looks again.
Reply(i) ==
    /\ pc[i] = "replied"
    /\ IF i \in Acp /\ flag[i]
         THEN Goto(i, "finalizing") /\ UNCHANGED status
         ELSE Stamp(i, "completed") /\ Goto(i, "completing")
    /\ UNCHANGED <<attempts, decision, eventVars, record, queued>> /\ Unmoved

Complete(i) ==
    /\ pc[i] = "completing"
    /\ IF i \in Acp /\ flag[i]
         THEN Goto(i, "finalizing") /\ UNCHANGED queued
         ELSE Goto(i, "cleanup") /\ QueueCleanup(i, status[i])
    /\ UNCHANGED <<status, attempts, decision, eventVars, record>> /\ Unmoved

\* Mutant of RecordPause: the record is left for later.
RecordLater(i) == UNCHANGED record

\* The write is best-effort: where it fails, or where there is no directory to
\* write to, the pause goes on and what an earlier pause has written stays.
RecordPause(i) ==
    \/ record' = [record EXCEPT ![i] = "present"]
    \/ i \in MayFail /\ record' = [record EXCEPT ![i] = IF @ = "present" THEN @ ELSE "failed"]

\* Mutants of the two second looks of an ACP controller.
NeverTorn(i) == FALSE

PauseIsTorn(i)    == i \in Acp /\ flag[i]
DecisionIsTorn(i) == i \in Acp /\ flag[i]

\* _pause_and_wait: the record is written before the log write is awaited,
\* the future exists only after it.
Pause(i) ==
    /\ pc[i] = "failing"
    /\ Stamp(i, "paused")
    /\ RecordPause(i)
    /\ Goto(i, "pausing")
    /\ UNCHANGED <<attempts, decision, eventVars, queued>> /\ Unmoved

OpenDecision(i) ==
    /\ pc[i] = "pausing"
    /\ IF PauseIsTorn(i)
         THEN /\ decision' = [decision EXCEPT ![i] = "cascade"]
              /\ Goto(i, "waiting")
              /\ UNCHANGED eventVars
         ELSE /\ decision' = [decision EXCEPT ![i] = "open"]
              /\ Goto(i, "announcing")
              /\ Say(i, "paused")
    /\ UNCHANGED <<status, attempts, record, queued>> /\ Unmoved

Announced(i) ==
    /\ pc[i] = "announcing"
    /\ Goto(i, "waiting")
    /\ UNCHANGED <<status, attempts, decision, eventVars, record, queued>> /\ Unmoved

\* The user's click reaches the future if it is still open.
Click(i, choice) ==
    /\ pc[i] \in {"announcing", "waiting"} /\ decision[i] = "open"
    /\ choice = "retry" => attempts[i] < MaxAttempts[i]
    /\ decision' = [decision EXCEPT ![i] = choice]
    /\ UNCHANGED <<pc, status, attempts, eventVars, record, queued>> /\ Unmoved

\* Only the ACP controller looks at the flag before it acts on the decision.
Decided(i) ==
    /\ pc[i] = "waiting" /\ decision[i] \in {"retry", "abort", "cascade"}
    /\ decision' = [decision EXCEPT ![i] = "none"]
    /\ IF decision[i] = "cascade" \/ DecisionIsTorn(i)
         THEN Goto(i, "finalizing") /\ UNCHANGED <<status, eventVars>>
       ELSE IF decision[i] = "retry"
         THEN Goto(i, "resuming") /\ Say(i, "resumed") /\ UNCHANGED status
         ELSE /\ Stamp(i, "aborted")
              /\ IF i \in Acp THEN Goto(i, "abort_said") /\ Say(i, "aborted")
                              ELSE Goto(i, "aborting") /\ UNCHANGED eventVars
    /\ UNCHANGED <<attempts, record, queued>> /\ Unmoved

\* The subscribers of the resume are served; the loop starts over.
Resumed(i) ==
    /\ pc[i] = "resuming"
    /\ Goto(i, IF flag[i] THEN "finalizing" ELSE "starting")
    /\ IF flag[i] THEN UNCHANGED status ELSE Stamp(i, "running")
    /\ UNCHANGED <<attempts, decision, eventVars, record, queued>> /\ Unmoved

SayAborted(i) ==
    /\ pc[i] = "aborting"
    /\ Say(i, "aborted")
    /\ Goto(i, "abort_said")
    /\ UNCHANGED <<status, attempts, decision, record, queued>> /\ Unmoved

Aborted(i) ==
    /\ pc[i] = "abort_said"
    /\ IF i \in Acp /\ flag[i]
         THEN Goto(i, "finalizing") /\ UNCHANGED queued
         ELSE Goto(i, "cleanup") /\ QueueCleanup(i, status[i])
    /\ UNCHANGED <<status, attempts, decision, eventVars, record>> /\ Unmoved

-----------------------------------------------------------------------------
\* The interrupt: every controller the tools know is asked in one stretch, then
\* each cascade goes on by itself, and when all are back the parent is cancelled.
\* A call is counted before its controller is registered, so the list may miss
\* one that is still being set up.

Resolve(i, choice) == IF decision[i] = "open" THEN choice ELSE decision[i]

Registered == {i \in Live : pc[i] # "starting" \/ attempts[i] # 0}

CascadeAll ==
    /\ engine \in {"running", "stopping"} /\ interrupt = "no" /\ Live # {}
    /\ interrupt' = "cascading"
    /\ \E listed \in SUBSET Live :
         /\ Registered \subseteq listed
         /\ flag' = [i \in Invocations |-> flag[i] \/ i \in listed]
         /\ answered' = answered \cup listed
         /\ decision' = [i \in Invocations |->
                           IF i \in listed THEN Resolve(i, "cascade") ELSE decision[i]]
         /\ cascade' = [i \in Invocations |->
                          IF i \notin listed THEN "no" ELSE IF i \in Acp THEN "publish" ELSE "joining"]
    /\ UNCHANGED <<pc, status, attempts, finBy, finAt, finalized, countVars, eventVars,
                   engine, cancel, call, diskVars>>

\* A kernel cascade joins the attempt it cancelled before it finalizes.
Joined(i) ==
    /\ cascade[i] = "joining" /\ pc[i] # "attempt"
    /\ cascade' = [cascade EXCEPT ![i] = "finalizing"]
    /\ UNCHANGED <<runVars, flag, finBy, finAt, finalized, countVars, eventVars, parentVars,
                   answered, call, diskVars>>

\* An ACP cascade returned at once; its background task publishes.
AcpPublish(i) ==
    /\ cascade[i] = "publish"
    /\ cascade' = [cascade EXCEPT ![i] = "returned"]
    /\ Stamp(i, "cascade_aborted")
    /\ Say(i, "cascade")
    /\ UNCHANGED <<pc, attempts, decision, flag, finBy, finAt, finalized, countVars, parentVars,
                   answered, call, diskVars>>

\* Mutant of CancelLive: invocations that wait for a click are left out.
CancelActive == [i \in Invocations |-> IF i \in Live /\ pc[i] # "waiting" THEN "sent" ELSE cancel[i]]

CancelLive == [i \in Invocations |-> IF i \in Live THEN "sent" ELSE cancel[i]]

CancelParent ==
    /\ interrupt = "cascading"
    /\ \A i \in Kernel : cascade[i] \in {"no", "returned"}
    /\ interrupt' = "done"
    /\ cancel' = CancelLive
    /\ engine' = IF engine = "running" THEN "stopping" ELSE engine
    /\ UNCHANGED <<runVars, cascadeVars, countVars, eventVars, answered, call, diskVars>>

\* A shutdown cancels the parent without a cascade.
Shutdown ==
    /\ engine = "running"
    /\ engine' = "stopping"
    /\ cancel' = CancelLive
    /\ UNCHANGED <<runVars, cascadeVars, countVars, eventVars, interrupt, answered,
                   call, diskVars>>

\* The cancellation reaches the coroutine at its await.  Inside run() it leads
\* to the finalization; inside that finalization it tears it and frees the
\* lock; afterwards nothing is torn, and it is raised at the end.
Cancelled(i) ==
    /\ cancel[i] = "sent"
    /\ \/ /\ pc[i] \in InRun
          /\ Goto(i, "finalizing")
          /\ decision' = [decision EXCEPT ![i] = "none"]
          /\ cancel' = [cancel EXCEPT ![i] = "taken"]
          /\ UNCHANGED <<finBy, finAt, queued>>
       \/ /\ pc[i] = "finalizing"
          /\ Goto(i, "closing")
          /\ finBy' = [finBy EXCEPT ![i] = IF @ = "run" THEN None ELSE @]
          /\ finAt' = [finAt EXCEPT ![i] = IF finBy[i] = "run" THEN "reject" ELSE @]
          /\ QueueCleanup(i, status[i])
          /\ cancel' = [cancel EXCEPT ![i] = "taken"]
          /\ UNCHANGED decision
       \/ /\ pc[i] = "closing"
          /\ cancel' = [cancel EXCEPT ![i] = "taken"]
          /\ UNCHANGED <<pc, decision, finBy, finAt, queued>>
       \/ /\ pc[i] = "cleanup"
          /\ cancel' = [cancel EXCEPT ![i] = "late"]
          /\ UNCHANGED <<pc, decision, finBy, finAt, queued>>
    /\ UNCHANGED <<status, attempts, flag, cascade, finalized, countVars, eventVars, engine,
                   interrupt, answered, call, saved, record, consumed, crashes>>

-----------------------------------------------------------------------------
\* finalize_cancellation of a kernel controller, entered by the coroutine
\* itself (who = "run", first in run(), then in the tool call) and by the
\* cascade.  The steps are the awaits under the lock.

Enters(i, who) == IF who = "run" THEN pc[i] \in {"finalizing", "closing"}
                                 ELSE cascade[i] = "finalizing"

LeaveFinalize(i, who, s) ==
    IF who = "run"
    THEN /\ Goto(i, IF pc[i] = "finalizing" THEN "closing" ELSE "cleanup")
         /\ IF pc[i] = "finalizing" THEN QueueCleanup(i, s) ELSE UNCHANGED queued
         /\ UNCHANGED cascade
    ELSE cascade' = [cascade EXCEPT ![i] = "returned"] /\ UNCHANGED <<pc, queued>>

StillFinalizing == UNCHANGED <<attempts, decision, flag, countVars, parentVars, call,
                               saved, record, consumed, crashes>>

\* Mutant of AlreadyFinal: the flag is not looked at under the lock.
NeverFinal(i) == FALSE

AlreadyFinal(i) == finalized[i]

TakeFinalize(i, who) ==
    /\ i \in Kernel /\ Enters(i, who) /\ finBy[i] = None
    /\ answered' = answered \cup {i}
    /\ IF AlreadyFinal(i)
         THEN LeaveFinalize(i, who, status[i]) /\ UNCHANGED <<finBy, finAt>>
         ELSE /\ finBy' = [finBy EXCEPT ![i] = who]
              /\ finAt' = [finAt EXCEPT ![i] = "reject"]
              /\ UNCHANGED <<pc, cascade, queued>>
    /\ UNCHANGED <<status, finalized, eventVars>> /\ StillFinalizing

\* A cascade stamps and announces itself unless the status says it has.
StampFinalize(i, who) ==
    /\ finBy[i] = who /\ finAt[i] = "reject"
    /\ IF flag[i] /\ status[i] = "cascade_aborted"
         THEN /\ finalized' = [finalized EXCEPT ![i] = TRUE]
              /\ finBy' = [finBy EXCEPT ![i] = None]
              /\ LeaveFinalize(i, who, status[i])
              /\ UNCHANGED <<finAt, status>>
         ELSE /\ finAt' = [finAt EXCEPT ![i] = IF flag[i] THEN "announce" ELSE "log"]
              /\ Stamp(i, IF flag[i] THEN "cascade_aborted" ELSE "aborted")
              /\ UNCHANGED <<pc, cascade, finBy, finalized, queued>>
    /\ UNCHANGED <<eventVars, answered>> /\ StillFinalizing

EndFinalize(i, who) ==
    /\ finBy[i] = who /\ finAt[i] \in {"announce", "log"}
    /\ IF finAt[i] = "announce" THEN Say(i, "cascade") ELSE UNCHANGED eventVars
    /\ finalized' = [finalized EXCEPT ![i] = TRUE]
    /\ finBy' = [finBy EXCEPT ![i] = None]
    /\ finAt' = [finAt EXCEPT ![i] = "reject"]
    /\ LeaveFinalize(i, who, status[i])
    /\ UNCHANGED <<status, answered>> /\ StillFinalizing

\* The ACP controller's own handler waits for the announcement of a cascade,
\* and a pause that is cancelled without one keeps its status and its record.
AcpFinalize(i) ==
    /\ i \in Acp
    /\ cascade[i] # "publish"
    /\ answered' = answered \cup {i}
    /\ \/ /\ pc[i] = "finalizing"
          /\ Goto(i, "closing")
          /\ LET s == IF flag[i] THEN "cascade_aborted" ELSE status[i]
             IN Stamp(i, s) /\ QueueCleanup(i, s)
       \/ /\ pc[i] = "closing"
          /\ Goto(i, "cleanup")
          /\ IF flag[i] \/ status[i] = "completed" THEN UNCHANGED status ELSE Stamp(i, "aborted")
          /\ UNCHANGED queued
    /\ UNCHANGED <<cascade, finBy, finAt, finalized, eventVars>> /\ StillFinalizing

-----------------------------------------------------------------------------
\* The parent run, its saves, crashes and restores.

Quiet == UNCHANGED <<runVars, cascadeVars, countVars, cancel, answered, crashes>>

\* The run ends when no call of it is open; the engine forgets its pauses.
ParentEnds ==
    /\ engine \in {"running", "stopping"} /\ Live = {}
    /\ engine' = "ended"
    /\ paused' = {}
    /\ record' = OnlyFiles
    /\ UNCHANGED <<cascades, silenced, interrupt, call, saved, queued, consumed>> /\ Quiet

\* A recovery checkpoint of the history as it stands.
Checkpoint ==
    /\ engine \in {"running", "stopping"} /\ saved # call
    /\ saved' = call
    /\ UNCHANGED <<engine, interrupt, eventVars, call, record, queued, consumed>> /\ Quiet

\* The session save at the end of the run; the queued records go only after
\* a save that succeeded.
Save ==
    /\ engine = "ended"
    /\ \/ saved' = call /\ engine' = "saved"
       \/ engine' = "idle" /\ UNCHANGED saved
    /\ UNCHANGED <<interrupt, eventVars, call, record, queued, consumed>> /\ Quiet

RemoveRecords ==
    /\ engine = "saved"
    /\ record' = [i \in Invocations |-> IF i \in queued THEN "none" ELSE record[i]]
    /\ queued' = {}
    /\ engine' = "idle"
    /\ UNCHANGED <<interrupt, eventVars, call, saved, consumed>> /\ Quiet

NextRun ==
    /\ engine = "idle" /\ \E i \in Invocations : call[i] = "none"
    /\ interrupt # "cascading"
    /\ engine' = "running"
    /\ interrupt' = "no"
    /\ UNCHANGED <<eventVars, call, saved, record, queued, consumed>> /\ Quiet

\* Everything but the disk is lost.  Before the first call there is nothing to
\* lose, and a crash would lead back to the start.
Crash ==
    /\ engine # "down" /\ crashes < MaxCrashes
    /\ \E i \in Invocations : call[i] # "none"
    /\ crashes' = crashes + 1
    /\ engine' = "down"
    /\ pc' = [i \in Invocations |-> IF pc[i] = "none" THEN "none" ELSE "gone"]
    /\ status' = [i \in Invocations |-> "running"]
    /\ attempts' = [i \in Invocations |-> 0]
    /\ decision' = [i \in Invocations |-> "none"]
    /\ flag' = [i \in Invocations |-> FALSE]
    /\ cascade' = [i \in Invocations |-> "no"]
    /\ finBy' = [i \in Invocations |-> None]
    /\ finAt' = [i \in Invocations |-> "reject"]
    /\ finalized' = [i \in Invocations |-> FALSE]
    /\ cancel' = [i \in Invocations |-> "no"]
    /\ answered' = {}
    /\ total' = 0
    /\ perAgent' = [a \in Invocations |-> 0]
    /\ paused' = {}
    /\ cascades' = [i \in Invocations |-> 0]
    /\ silenced' = {}
    /\ queued' = {}
    /\ consumed' = {}
    /\ interrupt' = "no"
    /\ record' = OnlyFiles
    /\ UNCHANGED <<call, saved>>

\* The saved history comes back, every dangling call gets an error result.
\* With nothing to repair, the records that are left are filed away at once.
Dangling == {i \in Invocations : saved[i] = "dangling"}

\* Mutant of Repaired: the dangling calls are left as they are.
Unrepaired(i) == saved[i]

Repaired(i) == IF i \in Dangling THEN "answered"
               ELSE IF saved[i] = "none" /\ pc[i] = "gone" THEN "dropped" ELSE saved[i]

Restore ==
    /\ engine = "down"
    /\ call' = [i \in Invocations |-> Repaired(i)]
    /\ IF Dangling = {}
         THEN /\ engine' = "idle"
              /\ record' = [i \in Invocations |->
                              IF record[i] = "present" THEN "archived" ELSE record[i]]
              /\ UNCHANGED consumed
         ELSE engine' = "repaired" /\ consumed' = Dangling /\ UNCHANGED record
    /\ UNCHANGED <<interrupt, eventVars, saved, queued>> /\ Quiet

\* Mutant of RestoreUnsaved: the failure of the save is not noticed.
RestoreUnnoticed == engine' = "restored"

RestoreUnsaved == engine' = "idle"

\* The repaired session is saved first.  A save that fails keeps the records.
RestoreSave ==
    /\ engine = "repaired"
    /\ \/ saved' = call /\ engine' = "restored"
       \/ RestoreUnsaved /\ UNCHANGED saved
    /\ UNCHANGED <<interrupt, eventVars, call, record, queued, consumed>> /\ Quiet

\* Then the records that told a call its error go, and the others are filed.
FinalizeRestored ==
    /\ engine = "restored"
    /\ record' = [i \in Invocations |-> IF record[i] # "present" THEN record[i]
                                        ELSE IF i \in consumed THEN "none" ELSE "archived"]
    /\ consumed' = {}
    /\ engine' = "idle"
    /\ UNCHANGED <<interrupt, eventVars, call, saved, queued>> /\ Quiet

-----------------------------------------------------------------------------
Finalize(i) == \/ \E who \in {"run", "cascade"} : \/ TakeFinalize(i, who)
                                                 \/ StampFinalize(i, who)
                                                 \/ EndFinalize(i, who)
               \/ AcpFinalize(i)

Run(i) == \/ StartAttempt(i) \/ BackoffEnds(i) \/ Reply(i) \/ Complete(i)
          \/ Pause(i) \/ OpenDecision(i) \/ Announced(i) \/ Decided(i)
          \/ Resumed(i) \/ SayAborted(i) \/ Aborted(i) \/ Return(i)

Next ==
    \/ \E i \in Invocations :
         \/ Invoke(i) \/ Refuse(i) \/ Run(i) \/ AttemptEnds(i)
         \/ \E choice \in {"retry", "abort"} : Click(i, choice)
         \/ Joined(i) \/ AcpPublish(i) \/ Cancelled(i) \/ Finalize(i)
    \/ CascadeAll \/ CancelParent \/ Shutdown
    \/ ParentEnds \/ Checkpoint \/ Save \/ RemoveRecords \/ NextRun
    \/ Crash \/ Restore \/ RestoreSave \/ FinalizeRestored

Spec == Init /\ [][Next]_vars

\* A coroutine whose await is over goes on, and a cancelled attempt ends.
\* An attempt nobody cancels may run for ever, and nobody has to click.
Fairness ==
    /\ \A i \in Invocations :
         /\ WF_vars(Run(i))
         /\ WF_vars(flag[i] /\ AttemptEnds(i))
         /\ WF_vars(Joined(i)) /\ WF_vars(AcpPublish(i)) /\ WF_vars(Cancelled(i))
         /\ WF_vars(AcpFinalize(i))
         /\ \A who \in {"run", "cascade"} :
              WF_vars(TakeFinalize(i, who) \/ StampFinalize(i, who) \/ EndFinalize(i, who))
    /\ WF_vars(CancelParent)

FairSpec == Spec /\ Fairness

-----------------------------------------------------------------------------
TypeOK ==
    /\ pc \in [Invocations -> Pcs]
    /\ status \in [Invocations -> {"running", "paused", "completed", "aborted", "cascade_aborted"}]
    /\ attempts \in [Invocations -> Nat]
    /\ decision \in [Invocations -> {"none", "open", "retry", "abort", "cascade"}]
    /\ flag \in [Invocations -> BOOLEAN]
    /\ cascade \in [Invocations -> {"no", "publish", "joining", "finalizing", "returned"}]
    /\ finBy \in [Invocations -> {None, "run", "cascade"}]
    /\ finAt \in [Invocations -> {"reject", "announce", "log"}]
    /\ finalized \in [Invocations -> BOOLEAN]
    /\ cancel \in [Invocations -> {"no", "sent", "taken", "late"}]
    /\ answered \subseteq Invocations
    /\ total \in 0 .. MaxTotal
    /\ perAgent \in [Invocations -> 0 .. MaxPerAgent]
    /\ paused \subseteq Invocations
    /\ cascades \in [Invocations -> 0 .. 2]
    /\ silenced \subseteq Invocations
    /\ engine \in {"running", "stopping", "ended", "saved", "idle", "down", "repaired", "restored"}
    /\ interrupt \in {"no", "cascading", "done"}
    /\ call \in [Invocations -> {"none", "dangling", "answered", "dropped"}]
    /\ saved \in [Invocations -> {"none", "dangling", "answered", "dropped"}]
    /\ record \in [Invocations -> {"none", "present", "failed", "archived"}]
    /\ queued \subseteq Invocations
    /\ consumed \subseteq Invocations
    /\ crashes \in 0 .. MaxCrashes

\* What the user sees as paused is on disk, so a crash at any moment of the
\* pause finds the record (the comment of _pause_and_wait), except where the
\* best-effort write itself failed: no retry, cleanup, save or restore takes
\* the record of an announced pause, and none is announced before its write.
PausedIsOnDisk == \A i \in paused : record[i] \in {"present", "failed"}

\* Both counters are the invocations that have not returned, whatever mix of
\* completions, aborts, cascades and torn cleanups ended the others.
CountsExact ==
    /\ total = Cardinality(Live)
    /\ \A a \in Invocations : perAgent[a] = Cardinality({i \in Live : AgentOf[i] = a})

\* The cascade and the run loop both finalize, the run loop may be torn in
\* the middle and start over: the cascade is announced once.
OneCascadeWord == \A i \in Invocations : cascades[i] <= 1

\* When no run goes on, no call of the history is left without its result.
NoOpenCallAtRest ==
    engine \in {"ended", "saved", "idle", "restored"} =>
        \A i \in Invocations : call[i] # "dangling"

\* The record of a pause is removed only when the saved session no longer
\* needs it to answer the call.
RecordOutlivesItsCall ==
    [][\A i \in Invocations : record[i] = "present" /\ record'[i] # "present"
           => saved[i] # "dangling"]_vars

\* An external invocation never says anything after its cascade: no pause,
\* resume or abort that was under way contradicts it.
CascadeIsLastWord ==
    [][\A i \in Acp : i \in silenced => i \in silenced' \/ engine' = "down"]_vars

\* A cascade that is back has left no run blocked on its decision future.
Freed(i) == cascade[i] = "returned" /\ pc[i] = "waiting" => decision[i] # "open"

\* The ACP controller looks again after its pause callback: this holds.
CascadeFreesAcp == \A i \in Acp : Freed(i)

\* controller.py:368 promises it of the program's own agents: "must never
\* leave the paused run() blocked on its decision future".
CascadeFreesPaused == \A i \in Kernel : Freed(i)

\* An interrupt ends every invocation, whatever each was doing, and those
\* that started after the cascade took its list.
InterruptEndsAll == interrupt = "cascading" ~> Live = {}
=============================================================================
