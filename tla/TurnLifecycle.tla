---------------------------- MODULE TurnLifecycle ----------------------------
(***************************************************************************)
(* One engine's turn lifecycle: how prompts, retries and interrupts become *)
(* runs, and how session transitions and rebuilds fence them off.  The     *)
(* code is asyncio: a handler runs without interruption from one await to  *)
(* the next, so an action here is the code between two awaits.             *)
(*                                                                         *)
(*   prompt   coordinator._admit_user_message, ActiveTurnInjector          *)
(*   retry    RetryCoordinator._handle_user_retry                          *)
(*   run      TurnRunner.run_fresh / run_retry, Executor, TurnFinalizer    *)
(*   stop     coordinator.on_user_interrupt                                *)
(*   boundary a session transition (new, clear, rollback) or a rebuild     *)
(*                                                                         *)
(* A prompt, a retry and a boundary are each submitted once; a run task is *)
(* named by the number of its installation.                                *)
(***************************************************************************)
EXTENDS EngineStateMachine, Integers, FiniteSets

CONSTANTS
  Messages,     \* UserMessage events
  Retries,      \* UserRetry events
  Notes,        \* the retries that carry a text
  News,         \* SessionNew events
  Clears,       \* SessionClear events
  Restores,     \* SessionRestore events
  Rollbacks,    \* UserRollback events, and rollback projections
  Rebuilds,     \* runtime-control rebuilds
  SubAgents,    \* sub-agent invocations that may pause
  MaxTasks,     \* bound: run tasks installed (one per prompt or retry suffices)
  MaxStops,     \* bound: UserInterrupt events
  MaxRaises,    \* bound: runs that end by an exception
  None          \* Python's None

Handlers      == Messages \cup Retries
Transitioners == News \cup Clears \cup Restores \cup Rollbacks
Boundaries    == Transitioners \cup Rebuilds
Tasks         == 1..MaxTasks

ASSUME ConstantsAssumption ==
  /\ MaxTasks \in Nat /\ MaxStops \in Nat /\ MaxRaises \in Nat
  /\ Messages \cap Retries = {}
  /\ Notes \subseteq Retries
  /\ News \cap (Clears \cup Restores \cup Rollbacks) = {}
  /\ Clears \cap (Restores \cup Rollbacks) = {} /\ Restores \cap Rollbacks = {}
  /\ Transitioners \cap Rebuilds = {}
  /\ None \notin Handlers \cup Boundaries

VARIABLES
  \* AgentEngine: the lifecycle table's state, the owner clocks, the flags
  fsm, sessionGen, buildGen, loadGen, loading, shuttingDown, executorUp, detached,
  \* TurnRuntimeState: prompt admission (closed when closeOwner # None)
  closeOwner, active, token, nextAid,
  \* the run-task slot, and for each task where it is and how its pass ended
  runTask, phase, tscope, result, lastTask,
  \* Executor: pass in progress, interrupt flag; pre-executor interrupts
  running, stopFlag, preInterrupt,
  \* the logical run: its scope, its injection window, commits in progress
  scope, nextRun, window, commits,
  \* the queued retry
  pending, disabledGen,
  \* paused sub-agent invocations
  paused,
  \* each handler's place, captured injection target or scope, awaited task
  pc, target, waitTask,
  \* the serialized boundary gate, each boundary's place and captured owner
  gate, bpc, captured,
  \* UserInterrupt: its captured task; the tasks a stop was ever meant for
  stopTask, stops, asked

engineVars    == <<fsm, sessionGen, buildGen, loadGen, loading, shuttingDown, executorUp, detached>>
clockVars     == <<sessionGen, buildGen, loadGen, loading, shuttingDown, executorUp, detached>>
admissionVars == <<closeOwner, active, token, nextAid>>
runVars       == <<runTask, phase, tscope, result, lastTask>>
executorVars  == <<running, stopFlag, preInterrupt>>
scopeVars     == <<scope, nextRun, window, commits>>
retryVars     == <<pending, disabledGen>>
handlerVars   == <<pc, target, waitTask>>
boundaryVars  == <<gate, bpc, captured>>
stopVars      == <<stopTask, stops, asked>>
vars == <<engineVars, admissionVars, runVars, executorVars, scopeVars, retryVars,
          paused, handlerVars, boundaryVars, stopVars>>

-----------------------------------------------------------------------------
(* The data.  A task's phases: "pre" is pre_run up to the executor, "exec" *)
(* the executor's pass, "post" its finalization up to the terminal state   *)
(* change, "save" the final save and hooks after it.  A task that an       *)
(* exception ended has "raised": nobody finishes its turn for it.          *)

LivePhases == {"pre", "exec", "post", "save"}
Phases     == LivePhases \cup {"unborn", "done", "cancelled", "raised"}
Results    == {"ok", "interrupted", "failed"}

Token  == [sgen : Nat, bgen : Nat, aid : Nat]
Scope  == [run : Nat, sgen : Nat, bgen : Nat, owner : Nat]
Queued == [sgen : Nat, run : Nat, updatedBy : Nat, disabled : BOOLEAN]
Target == [scope : Scope, task : Nat, window : Nat, detached : BOOLEAN, route : {"fsm_active", "executor_fallback"}]
\* what a retry note captures before its hook: the scope, the active target
NoteOwner == [scope : Scope \cup {None}, active : Target \cup {None}, detached : BOOLEAN]
OwnerClocks == [sgen : Nat, bgen : Nat, lgen : Nat, task : Nat, detached : BOOLEAN]

\* None is none of the values it stands in for.
ASSUME NoneAssumption == None \notin Nat \cup Token \cup Scope \cup Queued

Outcomes   == {"started", "injected", "queued", "refused", "stale", "lost"}
HandlerPcs == {"new", "gate", "waitOpen", "waitIdle", "waitRun", "hook", "inject",
               "publishing", "note", "noteRoute", "retryWait"} \cup Outcomes

BoundaryPcs == {"new", "requested", "fenced", "waitCommits", "waitRun", "waitDrain", "lastCommits",
                "preparing", "deleting", "permit", "committed", "draining", "cancelling",
                "quiet", "drained", "down", "loading", "finishing", "done"}

Live(t) == t # 0 /\ phase[t] \in LivePhases
Done(t) == t # 0 /\ ~Live(t)
Raised(t) == t # 0 /\ phase[t] = "raised"

OwnerIsCurrent(tok) == tok.sgen = sessionGen /\ tok.bgen = buildGen

Closed == closeOwner # None

-----------------------------------------------------------------------------
Init ==
  \* just started, or restored with a terminal marker (restore_terminal_state)
  /\ fsm \in {"IDLE", "INTERRUPTED", "FAILED"}
  /\ sessionGen = 0 /\ buildGen = 1 /\ loadGen = 1
  /\ loading = FALSE /\ shuttingDown = FALSE /\ executorUp = TRUE /\ detached = FALSE
  /\ closeOwner = None /\ active = {} /\ nextAid = 1
  /\ token = [h \in Handlers |-> None]
  /\ runTask = 0 /\ lastTask = 0
  /\ phase = [t \in Tasks |-> "unborn"]
  /\ tscope = [t \in Tasks |-> None]
  /\ result = "ok"
  /\ running = FALSE /\ stopFlag = FALSE /\ preInterrupt = {}
  /\ scope = None /\ nextRun = 1 /\ window = 0 /\ commits = 0
  /\ pending = None /\ disabledGen = None
  /\ paused = {}
  /\ pc = [h \in Handlers |-> "new"]
  /\ target = [h \in Handlers |-> None]
  /\ waitTask = [h \in Handlers |-> 0]
  /\ gate = None
  /\ bpc = [b \in Boundaries |-> "new"]
  /\ captured = [b \in Boundaries |-> None]
  /\ stopTask = 0 /\ stops = 0 /\ asked = {}

-----------------------------------------------------------------------------
(* Steps shared by the handlers.                                           *)

Goto(h, step) == pc' = [pc EXCEPT ![h] = step]

\* Mutant of Release: the finally is missing.
ReleaseForgotten(h) == UNCHANGED active

\* release_prompt_admission
Release(h) == active' = active \ {h}

\* The handler returns; its finally releases the admission it still holds.
Leave(h, outcome) ==
  /\ Goto(h, outcome)
  /\ Release(h)
  /\ token' = [token EXCEPT ![h] = None]
  /\ target' = [target EXCEPT ![h] = None]
  /\ waitTask' = [waitTask EXCEPT ![h] = 0]

\* reserve_prompt_admission
Reserve(h) ==
  /\ ~Closed
  /\ active' = active \cup {h}
  /\ token' = [token EXCEPT ![h] = [sgen |-> sessionGen, bgen |-> buildGen, aid |-> nextAid]]
  /\ nextAid' = nextAid + 1

\* A fresh run-task object takes the slot and opens its injection window.
Install(sc) ==
  /\ lastTask < MaxTasks
  /\ lastTask' = lastTask + 1
  /\ runTask' = lastTask + 1
  /\ phase' = [phase EXCEPT ![lastTask + 1] = "pre"]
  /\ tscope' = [tscope EXCEPT ![lastTask + 1] = sc]

NewScope(tok) == [run |-> nextRun, sgen |-> tok.sgen, bgen |-> tok.bgen, owner |-> tok.aid]

\* Mutant of AdmissionsAreIdle: only prompts are waited for.
NoPromptAdmission == active \cap Messages = {}

\* wait_for_active_admissions_idle, has_active_admissions
AdmissionsAreIdle == active = {}

\* Mutants of CommitsAreIdle and FinishCommit: a commit is not waited for; no floor.
CommitsIgnored      == TRUE
FinishWithoutFloor  == commits' = commits - 1

\* wait_for_active_injection_commits_idle
CommitsAreIdle == commits = 0

\* finish_active_injection_commit never counts below zero.
FinishCommit == commits' = IF commits > 0 THEN commits - 1 ELSE 0

-----------------------------------------------------------------------------
(* Prompts.                                                                *)

Submit(h) ==
  /\ pc[h] = "new"
  /\ Goto(h, "gate")
  /\ UNCHANGED <<engineVars, admissionVars, runVars, executorVars, scopeVars, retryVars,
                 paused, target, waitTask, boundaryVars, stopVars>>

\* The executor is gone and no boundary is going to bring one back.
NotReady(h) ==
  /\ pc[h] = "gate" /\ ~loading /\ ~executorUp /\ ~Closed
  /\ Leave(h, "refused")
  /\ UNCHANGED <<engineVars, closeOwner, nextAid, runVars, executorVars, scopeVars, retryVars,
                 paused, boundaryVars, stopVars>>

\* A boundary has taken the executor down: wait for it to finish.
MessageFenced(m) ==
  /\ pc[m] = "gate" /\ ~loading /\ ~executorUp /\ Closed
  /\ Goto(m, "waitOpen")
  /\ UNCHANGED <<engineVars, admissionVars, runVars, executorVars, scopeVars, retryVars,
                 paused, target, waitTask, boundaryVars, stopVars>>

FenceOpened(h) ==
  /\ pc[h] = "waitOpen" /\ ~Closed
  /\ Goto(h, "gate")
  /\ UNCHANGED <<engineVars, admissionVars, runVars, executorVars, scopeVars, retryVars,
                 paused, target, waitTask, boundaryVars, stopVars>>

AdmissionsIdle(h) ==
  /\ pc[h] = "waitIdle" /\ AdmissionsAreIdle
  /\ Goto(h, "gate")
  /\ UNCHANGED <<engineVars, admissionVars, runVars, executorVars, scopeVars, retryVars,
                 paused, target, waitTask, boundaryVars, stopVars>>

\* A run in flight, by the state machine or by the executor: the prompt is for it.
InjectRoute ==
  IF IsRunning(fsm) THEN "fsm_active"
  ELSE IF Live(runTask) /\ running THEN "executor_fallback" ELSE None

\* ActiveTurnInjector.capture_target
CaptureTarget(route) ==
  IF /\ scope # None /\ scope.sgen = sessionGen /\ scope.bgen = buildGen
     /\ Live(runTask) /\ executorUp /\ window # 0
     /\ IF route = "fsm_active" THEN IsRunning(fsm) ELSE running
  THEN [scope |-> scope, task |-> runTask, window |-> window, detached |-> detached, route |-> route]
  ELSE None

\* ActiveTurnInjector.target_is_current
TargetIsCurrent(tgt) ==
  /\ tgt.detached = detached
  /\ tgt.scope.sgen = sessionGen /\ tgt.scope.bgen = buildGen
  /\ scope = tgt.scope
  /\ runTask = tgt.task /\ Live(tgt.task)
  /\ executorUp
  /\ window = tgt.window
  /\ IF tgt.route = "fsm_active" THEN IsRunning(fsm) ELSE running

\* No valid target is an abandoned prompt, reported to the user.
MessageForActiveRun(m) ==
  /\ pc[m] = "gate" /\ ~loading /\ executorUp /\ InjectRoute # None
  /\ LET tgt == CaptureTarget(InjectRoute)
     IN  IF tgt = None
         THEN Leave(m, "refused")
         ELSE /\ Goto(m, "inject")
              /\ target' = [target EXCEPT ![m] = tgt]
              /\ UNCHANGED <<active, token, waitTask>>
  /\ UNCHANGED <<engineVars, closeOwner, nextAid, runVars, executorVars, scopeVars, retryVars,
                 paused, boundaryVars, stopVars>>

\* The executor has returned but its task is still finalizing or starting.
MessageWaitsForRun(m) ==
  /\ pc[m] = "gate" /\ ~loading /\ executorUp /\ InjectRoute = None /\ Live(runTask)
  /\ Goto(m, "waitRun")
  /\ waitTask' = [waitTask EXCEPT ![m] = runTask]
  /\ UNCHANGED <<engineVars, admissionVars, runVars, executorVars, scopeVars, retryVars,
                 paused, target, boundaryVars, stopVars>>

\* The tail of the admission loop.  After a wait it is reached with neither
\* the state machine nor the task slot looked at again.
TryReserve(m) ==
  \/ /\ Closed
     /\ Goto(m, "waitOpen")
     /\ UNCHANGED <<active, token, nextAid>>
  \/ /\ ~Closed /\ active # {}
     /\ Goto(m, "waitIdle")
     /\ UNCHANGED <<active, token, nextAid>>
  \/ /\ active = {}
     /\ Reserve(m)
     /\ Goto(m, "hook")

MessageReserves(m) ==
  /\ pc[m] = "gate" /\ ~loading /\ executorUp /\ InjectRoute = None /\ ~Live(runTask)
  /\ TryReserve(m)
  /\ UNCHANGED <<engineVars, closeOwner, runVars, executorVars, scopeVars, retryVars,
                 paused, target, waitTask, boundaryVars, stopVars>>

RunWaited(m) ==
  /\ pc[m] = "waitRun" /\ ~Live(waitTask[m])
  /\ phase[waitTask[m]] \notin {"cancelled", "raised"}
  /\ waitTask' = [waitTask EXCEPT ![m] = 0]
  /\ TryReserve(m)
  /\ UNCHANGED <<engineVars, closeOwner, runVars, executorVars, scopeVars, retryVars,
                 paused, target, boundaryVars, stopVars>>

\* `await task` re-raises the awaited task's cancellation or exception in the
\* handler.
WaitFails(h) ==
  /\ pc[h] \in {"waitRun", "retryWait"}
  /\ waitTask[h] # 0 /\ phase[waitTask[h]] \in {"cancelled", "raised"}
  /\ Leave(h, "lost")
  /\ UNCHANGED <<engineVars, closeOwner, nextAid, runVars, executorVars, scopeVars, retryVars,
                 paused, boundaryVars, stopVars>>

\* The prompt-submit hook or the attachment check turns the prompt down.
MessageRejected(m) ==
  /\ pc[m] \in {"hook", "inject"}
  /\ Leave(m, "refused")
  /\ UNCHANGED <<engineVars, closeOwner, nextAid, runVars, executorVars, scopeVars, retryVars,
                 paused, boundaryVars, stopVars>>

\* Mutant of FreshConflict: the task slot is not looked at.
ConflictByStateOnly == ~AcceptsFreshPrompt(fsm)

\* After the hooks, is there a run that the prompt would collide with?
FreshConflict ==
  \/ ~AcceptsFreshPrompt(fsm)
  \/ Live(runTask)

\* promote_fresh_admission_to_run checks the record again; it expires the
\* previous logical run's scope first, so only the record can fail it here.
MessageStale(m) ==
  /\ pc[m] = "hook"
  /\ ~OwnerIsCurrent(token[m]) \/ (~FreshConflict /\ m \notin active)
  /\ Leave(m, "stale")
  /\ IF OwnerIsCurrent(token[m])
     THEN scope' = None /\ window' = 0
     ELSE UNCHANGED <<scope, window>>
  /\ UNCHANGED <<engineVars, closeOwner, nextAid, runVars, executorVars, nextRun, commits, retryVars,
                 paused, boundaryVars, stopVars>>

MessageConflict(m) ==
  /\ pc[m] = "hook" /\ OwnerIsCurrent(token[m]) /\ FreshConflict
  /\ Leave(m, "refused")
  /\ UNCHANGED <<engineVars, closeOwner, nextAid, runVars, executorVars, scopeVars, retryVars,
                 paused, boundaryVars, stopVars>>

MessageStarts(m) ==
  /\ pc[m] = "hook" /\ OwnerIsCurrent(token[m]) /\ ~FreshConflict /\ m \in active
  /\ scope' = NewScope(token[m])
  /\ nextRun' = nextRun + 1
  /\ window' = lastTask + 1
  /\ Install(NewScope(token[m]))
  /\ fsm' = TryTransition(fsm, "USER_MESSAGE")
  /\ Leave(m, "started")
  /\ UNCHANGED <<clockVars, closeOwner, nextAid, result, executorVars, commits, retryVars,
                 paused, boundaryVars, stopVars>>

\* begin_active_injection_commit, and everything up to the publish it guards.
InjectionCommits(m) ==
  /\ pc[m] = "inject" /\ TargetIsCurrent(target[m])
  /\ commits' = commits + 1
  /\ Goto(m, "publishing")
  /\ UNCHANGED <<engineVars, admissionVars, runVars, executorVars, scope, nextRun, window, retryVars,
                 paused, target, waitTask, boundaryVars, stopVars>>

InjectionAbandoned(m) ==
  /\ pc[m] = "inject" /\ ~TargetIsCurrent(target[m])
  /\ Leave(m, IF shuttingDown \/ target[m].detached # detached \/ target[m].scope.sgen # sessionGen
              THEN "stale" ELSE "refused")
  /\ UNCHANGED <<engineVars, closeOwner, nextAid, runVars, executorVars, scopeVars, retryVars,
                 paused, boundaryVars, stopVars>>

InjectionPublished(m) ==
  /\ pc[m] = "publishing"
  /\ FinishCommit
  /\ Leave(m, "injected")
  /\ UNCHANGED <<engineVars, closeOwner, nextAid, runVars, executorVars, scope, nextRun, window, retryVars,
                 paused, boundaryVars, stopVars>>

-----------------------------------------------------------------------------
(* Retries.                                                                *)

RetryFenced(r) ==
  /\ pc[r] = "gate" /\ ~loading /\ Closed
  /\ Goto(r, "waitOpen")
  /\ UNCHANGED <<engineVars, admissionVars, runVars, executorVars, scopeVars, retryVars,
                 paused, target, waitTask, boundaryVars, stopVars>>

RetryAtGate(r) == pc[r] = "gate" /\ ~loading /\ executorUp /\ ~Closed

RetryWaitsForPrompt(r) ==
  /\ RetryAtGate(r) /\ active \cap Messages # {}
  /\ Goto(r, "waitIdle")
  /\ UNCHANGED <<engineVars, admissionVars, runVars, executorVars, scopeVars, retryVars,
                 paused, target, waitTask, boundaryVars, stopVars>>

\* No user message to retry, or sub-agents still waiting for a decision.  The
\* latter reserves and releases in one go, which nobody can observe.
RetryRefused(r) ==
  /\ RetryAtGate(r) /\ active \cap Messages = {}
  /\ Leave(r, "refused")
  /\ UNCHANGED <<engineVars, closeOwner, nextAid, runVars, executorVars, scopeVars, retryVars,
                 paused, boundaryVars, stopVars>>

MayQueue == ~shuttingDown /\ fsm = "RUNNING"

RunGeneration == IF scope = None THEN 0 ELSE scope.run

QueuedBy(tok) == [sgen |-> tok.sgen, run |-> RunGeneration, updatedBy |-> tok.aid, disabled |-> FALSE]

\* upsert_pending_retry_from_admission: an older admission never overwrites
\* the update of a newer one for the same run.
Upsert(tok) ==
  IF /\ pending # None /\ pending.sgen = tok.sgen /\ pending.run = RunGeneration
     /\ tok.aid < pending.updatedBy
  THEN pending ELSE QueuedBy(tok)

Enqueue(r, tok) ==
  /\ MayQueue /\ OwnerIsCurrent(tok)
  /\ pending' = Upsert(tok)
  /\ fsm' = TryTransition(fsm, "RETRY_REQUESTED")
  /\ Leave(r, "queued")

\* _immediate_retry_start_may_be_valid
MayBeValid ==
  /\ ~shuttingDown
  /\ \/ fsm \in {"INTERRUPTED", "FAILED"}
     \/ fsm = "RUNNING" /\ Done(runTask) /\ ~running

\* The routing that ends _handle_user_retry's first stretch: queue behind the
\* running pass, refuse, or wait for the run task holding the admission.  A task
\* that is done already is not awaited.
RouteRetry(r, tok) ==
  \/ running /\ Enqueue(r, tok)
  \/ /\ \/ running /\ ~(MayQueue /\ OwnerIsCurrent(tok))
        \/ ~running /\ runTask = 0 /\ ~MayBeValid
     /\ Leave(r, "refused")
     /\ UNCHANGED <<fsm, pending>>
  \/ /\ ~running /\ (runTask # 0 \/ MayBeValid)
     /\ Goto(r, "retryWait")
     /\ waitTask' = [waitTask EXCEPT ![r] = IF Live(runTask) THEN runTask ELSE 0]
     /\ active' = active \cup (IF pc[r] = "gate" THEN {r} ELSE {})
     /\ token' = [token EXCEPT ![r] = tok]
     /\ target' = [target EXCEPT ![r] = None]
     /\ UNCHANGED <<fsm, pending>>

NextToken == [sgen |-> sessionGen, bgen |-> buildGen, aid |-> nextAid]

\* Without a note there is no await between the reservation and the routing.
RetryRouted(r) ==
  /\ RetryAtGate(r) /\ active \cap Messages = {}
  /\ r \notin Notes /\ fsm # "AWAITING_SUB_AGENTS"
  /\ nextAid' = nextAid + 1
  /\ RouteRetry(r, NextToken)
  /\ UNCHANGED <<clockVars, closeOwner, runVars, executorVars, scopeVars, disabledGen,
                 paused, boundaryVars, stopVars>>

NoteReserves(r) ==
  /\ RetryAtGate(r) /\ active \cap Messages = {}
  /\ r \in Notes /\ fsm # "AWAITING_SUB_AGENTS"
  /\ Reserve(r)
  /\ Goto(r, "note")
  /\ target' = [target EXCEPT ![r] =
       [scope |-> scope, detached |-> detached,
        active |-> IF running THEN CaptureTarget("fsm_active") ELSE None]]
  /\ UNCHANGED <<engineVars, closeOwner, runVars, executorVars, scopeVars, retryVars,
                 paused, waitTask, boundaryVars, stopVars>>

\* _retry_note_owner_invalid, _retry_note_owner_scope_conflicted
NoteOwnerStale(r) ==
  \/ ~OwnerIsCurrent(token[r])
  \/ target[r].detached # detached
  \/ scope # None /\ scope # target[r].scope

NoteAccepted(r) ==
  /\ ~NoteOwnerStale(r)
  /\ ~shuttingDown
  /\ fsm \in {"RUNNING", "PENDING_RETRY", "INTERRUPTED", "FAILED"}

\* The hook refuses the note, or its owner is gone when it returns.  The
\* clearing of a pending retry "for this admission or unowned" on these paths
\* finds nothing of this admission: it has not been installed.
NoteRefused(r) ==
  /\ pc[r] = "note"
  /\ Leave(r, IF ~NoteOwnerStale(r) THEN "refused" ELSE "stale")
  /\ UNCHANGED <<engineVars, closeOwner, nextAid, runVars, executorVars, scopeVars, retryVars,
                 paused, boundaryVars, stopVars>>

\* _install_pending_retry_before_commit's own conditions
NoteQueues(r) ==
  LET tgt == target[r].active
  IN  /\ tgt # None /\ scope # None
      /\ runTask = tgt.task /\ Live(runTask)
      /\ MayQueue

\* The note's side effects commit.  With its run still going the retry is queued
\* in the same stretch; otherwise it is routed as any other, at once or after
\* the await that announces a staged skill refresh.
NoteCommits(r) ==
  /\ pc[r] = "note" /\ NoteAccepted(r)
  /\ IF NoteQueues(r)
     THEN Enqueue(r, token[r])
     ELSE \/ RouteRetry(r, token[r])
          \/ /\ Goto(r, "noteRoute")
             /\ UNCHANGED <<active, token, target, waitTask, fsm, pending>>
  /\ UNCHANGED <<clockVars, closeOwner, nextAid, runVars, executorVars, scopeVars, disabledGen,
                 paused, boundaryVars, stopVars>>

NoteRouted(r) ==
  /\ pc[r] = "noteRoute"
  /\ RouteRetry(r, token[r])
  /\ UNCHANGED <<clockVars, closeOwner, nextAid, runVars, executorVars, scopeVars, disabledGen,
                 paused, boundaryVars, stopVars>>

RetryWaitOver(r) ==
  /\ pc[r] = "retryWait" /\ ~Live(waitTask[r])
  /\ waitTask[r] # 0 => phase[waitTask[r]] \notin {"cancelled", "raised"}

\* _claim_immediate_retry_start
MayClaim == MayBeValid

RetryNotStarted(r) ==
  /\ RetryWaitOver(r)
  /\ ~OwnerIsCurrent(token[r]) \/ Live(runTask) \/ ~MayClaim
  /\ Leave(r, IF OwnerIsCurrent(token[r]) THEN "refused" ELSE "stale")
  /\ UNCHANGED <<engineVars, closeOwner, nextAid, runVars, executorVars, scopeVars, retryVars,
                 paused, boundaryVars, stopVars>>

\* _retry_scope_for_admission: a retry continues the logical run it retries.
RetryScope(tok) ==
  IF scope # None /\ scope.sgen = tok.sgen /\ scope.bgen = tok.bgen
  THEN [scope EXCEPT !.owner = tok.aid]
  ELSE NewScope(tok)

\* The claim moves the state machine before the record is looked up: a record
\* dropped by a boundary would leave RUNNING behind, were the owner not stale.
RetryStarts(r) ==
  /\ RetryWaitOver(r) /\ OwnerIsCurrent(token[r]) /\ ~Live(runTask) /\ MayClaim
  /\ fsm' = TryTransition(fsm, "RETRY_STARTED")
  /\ IF r \in active
     THEN LET sc == RetryScope(token[r])
          IN  /\ scope' = sc
              /\ nextRun' = IF sc.run = nextRun THEN nextRun + 1 ELSE nextRun
              /\ window' = lastTask + 1
              /\ Install(sc)
              /\ Leave(r, "started")
     ELSE /\ Leave(r, "stale")
          /\ UNCHANGED <<scope, nextRun, window, runTask, lastTask, phase, tscope>>
  /\ UNCHANGED <<clockVars, closeOwner, nextAid, result, executorVars, commits, retryVars,
                 paused, boundaryVars, stopVars>>

-----------------------------------------------------------------------------
(* The run task.                                                           *)

\* close_injection_admission, for the scope the pass was given.
CloseWindow(t) == window' = IF tscope[t] # None /\ scope = tscope[t] THEN 0 ELSE window

\* Mutant of StoppedBeforeStart: a stop still cascading is not honoured.
StoppedIfLanded(t) == t \in preInterrupt /\ stopTask = 0

StoppedBeforeStart(t) == t \in preInterrupt

\* The end of pre-run: consume_pre_executor_interrupt or the executor's pass,
\* with no await between the check and Executor._running = True.
RunEntersExecutor(t) ==
  /\ phase[t] = "pre"
  /\ IF StoppedBeforeStart(t)
     THEN /\ preInterrupt' = preInterrupt \ {t}
          /\ result' = "interrupted"
          /\ phase' = [phase EXCEPT ![t] = "post"]
          /\ CloseWindow(t)
          /\ UNCHANGED running
     ELSE /\ running' = TRUE
          /\ result' = "ok"
          /\ phase' = [phase EXCEPT ![t] = "exec"]
          /\ UNCHANGED <<preInterrupt, window>>
  /\ stopFlag' = FALSE
  /\ UNCHANGED <<engineVars, admissionVars, runTask, lastTask, tscope, scope, nextRun, commits,
                 retryVars, paused, handlerVars, boundaryVars, stopVars>>

\* The pass returns; it cannot while its tool call waits on a paused sub-agent.
ExecutorReturns(t) ==
  /\ phase[t] = "exec"
  /\ result' \in IF stopFlag THEN {"interrupted"} ELSE {"ok", "failed"}
  /\ ~stopFlag => paused = {}
  /\ running' = FALSE /\ stopFlag' = FALSE
  /\ phase' = [phase EXCEPT ![t] = "post"]
  /\ CloseWindow(t)
  /\ UNCHANGED <<engineVars, admissionVars, runTask, lastTask, tscope, preInterrupt, scope, nextRun,
                 commits, retryVars, paused, handlerVars, boundaryVars, stopVars>>

\* TurnFinalizer: clear_parent_paused_state, then _apply_terminal_history_state.
RunReachesTerminal(t) ==
  /\ phase[t] = "post"
  /\ paused' = {}
  /\ fsm' = TryTransition(fsm, CASE result = "interrupted" -> "RUN_INTERRUPTED"
                                 [] result = "failed"      -> "RUN_FAILED"
                                 [] result = "ok"          -> "RUN_COMPLETED")
  /\ phase' = [phase EXCEPT ![t] = "save"]
  /\ UNCHANGED <<clockVars, admissionVars, runTask, lastTask, tscope, result, executorVars, scopeVars,
                 retryVars, handlerVars, boundaryVars, stopVars>>

\* A queued retry that this session and this logical run still want.
RetryIsWanted ==
  /\ pending # None
  /\ ~pending.disabled
  /\ pending.sgen = sessionGen
  /\ pending.run = RunGeneration
  /\ disabledGen # pending.sgen

\* Mutant of RetryIsDue: a retry queued behind a run that was stopped is dropped.
DueUnlessInterrupted == ~shuttingDown /\ fsm = "RUNNING" /\ result # "interrupted" /\ RetryIsWanted

\* start_pending_retry_if_due; anything else drops the queued retry.
RetryIsDue == ~shuttingDown /\ fsm = "RUNNING" /\ RetryIsWanted

\* clear_pending_retry
DropQueuedRetry == pending' = None

\* The task dispatches its queued retry and ends, in one stretch.  The retry
\* keeps the current scope, when this session and build own it.
RunDispatchesRetry(t) ==
  /\ phase[t] = "save" /\ RetryIsDue
  /\ LET kept == scope # None /\ scope.sgen = sessionGen /\ scope.bgen = buildGen
     IN  /\ tscope' = [tscope EXCEPT ![lastTask + 1] = IF kept THEN scope ELSE None]
         /\ window' = IF kept THEN lastTask + 1 ELSE window
  /\ lastTask < MaxTasks
  /\ lastTask' = lastTask + 1
  /\ runTask' = lastTask + 1
  /\ phase' = [phase EXCEPT ![t] = "done", ![lastTask + 1] = "pre"]
  /\ preInterrupt' = preInterrupt \ {runTask}
  /\ DropQueuedRetry
  /\ UNCHANGED <<engineVars, admissionVars, result, running, stopFlag, scope, nextRun, commits,
                 disabledGen, paused, handlerVars, boundaryVars, stopVars>>

\* Without a retry to start, a successful pass also ends its logical run.
RunEnds(t) ==
  /\ phase[t] = "save" /\ ~RetryIsDue
  /\ phase' = [phase EXCEPT ![t] = "done"]
  /\ preInterrupt' = preInterrupt \ {runTask}
  /\ DropQueuedRetry
  /\ IF result = "ok" THEN scope' = None /\ window' = 0 ELSE UNCHANGED <<scope, window>>
  /\ UNCHANGED <<engineVars, admissionVars, runTask, lastTask, tscope, result, running, stopFlag,
                 nextRun, commits, disabledGen, paused, handlerVars, boundaryVars, stopVars>>

\* The task ends by an exception: of its pre-run, before the finally that closes
\* the window; of its finalization, before or after the terminal state change.
\* Nothing is finished for it: state machine, scope, queued retry and bound stop
\* stay as they are, and so does the task in the slot.  (What the executor's
\* pass raises, the executor turns into a failed run.)
RunRaises(t) ==
  /\ phase[t] \in {"pre", "post", "save"}
  /\ Cardinality({u \in Tasks : phase[u] = "raised"}) < MaxRaises
  /\ phase' = [phase EXCEPT ![t] = "raised"]
  /\ UNCHANGED <<engineVars, admissionVars, runTask, lastTask, tscope, result, executorVars, scopeVars,
                 retryVars, paused, handlerVars, boundaryVars, stopVars>>

-----------------------------------------------------------------------------
(* Sub-agents of the running pass, and the user's stop.                    *)

\* on_sub_agent_paused: only the first pause moves the state machine.
SubAgentPauses(a) ==
  /\ running /\ IsRunning(fsm) /\ a \notin paused
  /\ fsm' = IF paused = {} THEN TryTransition(fsm, "SUB_AGENT_PAUSED") ELSE fsm
  /\ paused' = paused \cup {a}
  /\ UNCHANGED <<clockVars, admissionVars, runVars, executorVars, scopeVars, retryVars,
                 handlerVars, boundaryVars, stopVars>>

IsLastPaused(a) == paused = {a}

\* on_sub_agent_unpaused: only the last one does.
SubAgentResolves(a) ==
  /\ a \in paused
  /\ fsm' = IF IsLastPaused(a) THEN TryTransition(fsm, "SUB_AGENT_RESOLVED") ELSE fsm
  /\ paused' = paused \ {a}
  /\ UNCHANGED <<clockVars, admissionVars, runVars, executorVars, scopeVars, retryVars,
                 handlerVars, boundaryVars, stopVars>>

\* on_user_interrupt up to the cascade: the run task is captured, and bound to
\* the stop when the executor is not in its pass.  A stop of no live run does
\* nothing and is left out.
StopRequested ==
  /\ stops < MaxStops /\ stopTask = 0
  /\ ~loading /\ Live(runTask)
  /\ stops' = stops + 1
  /\ stopTask' = runTask
  /\ asked' = asked \cup {runTask}
  /\ preInterrupt' = IF executorUp /\ ~running THEN preInterrupt \cup {runTask} ELSE preInterrupt
  /\ UNCHANGED <<engineVars, admissionVars, runVars, running, stopFlag, scopeVars, retryVars,
                 paused, handlerVars, boundaryVars>>

\* Mutant of StopIsCurrent: the task captured before the cascade is forgotten.
SomeRunIsLive == Live(runTask)

StopIsCurrent == runTask = stopTask

\* After cascade_abort_all: the sub-agents of the captured task are gone, and
\* the stop lands only if that task still has the slot.
StopLands ==
  /\ stopTask # 0
  /\ stopTask' = 0
  /\ IF StopIsCurrent
     THEN /\ paused' = {}
          /\ fsm' = IF paused # {} THEN TryTransition(fsm, "SUB_AGENT_RESOLVED") ELSE fsm
          /\ stopFlag' = (stopFlag \/ (executorUp /\ running))
          /\ preInterrupt' = IF executorUp /\ ~running /\ Live(stopTask)
                             THEN preInterrupt \cup {stopTask} ELSE preInterrupt
     ELSE UNCHANGED <<paused, fsm, stopFlag, preInterrupt>>
  /\ UNCHANGED <<clockVars, admissionVars, runVars, running, scopeVars, retryVars,
                 handlerVars, boundaryVars, stops, asked>>

-----------------------------------------------------------------------------
(* Boundaries.                                                             *)

Proceed(b, step) == bpc' = [bpc EXCEPT ![b] = step]

Clocks == [sgen |-> sessionGen, bgen |-> buildGen, lgen |-> loadGen, task |-> 0, detached |-> detached]

RollbackMayRun == fsm \in {"IDLE", "INTERRUPTED", "FAILED"}

\* The owner a rebuild or a rollback is asked for, captured before the gate.
BoundaryRequested(b) ==
  /\ b \in Rollbacks \cup Rebuilds /\ bpc[b] = "new"
  /\ captured' = [captured EXCEPT ![b] = Clocks]
  /\ Proceed(b, IF b \in Rollbacks /\ (detached \/ ~RollbackMayRun) THEN "done" ELSE "requested")
  /\ UNCHANGED <<engineVars, admissionVars, runVars, executorVars, scopeVars, retryVars,
                 paused, handlerVars, gate, stopVars>>

\* expected_owner of _prepare_session_transition, for a rollback.
OwnerChanged(b) ==
  b \in Rollbacks /\ (captured[b].sgen # sessionGen \/ captured[b].detached # detached)

\* The gate's lock, then close_prompt_admission_for_rebuild.
BoundaryAcquires(b) ==
  /\ bpc[b] = IF b \in Rollbacks \cup Rebuilds THEN "requested" ELSE "new"
  /\ gate = None
  /\ IF OwnerChanged(b)
     THEN Proceed(b, "done") /\ UNCHANGED <<gate, closeOwner>>
     ELSE Proceed(b, "fenced") /\ gate' = b /\ closeOwner' = b
  /\ UNCHANGED <<engineVars, active, token, nextAid, runVars, executorVars, scopeVars, retryVars,
                 paused, handlerVars, captured, stopVars>>

\* Rollbacks and rebuilds wait for the admissions already reserved.
AdmissionsDrained(b) ==
  /\ b \in Rollbacks \cup Rebuilds /\ bpc[b] = "fenced" /\ AdmissionsAreIdle
  /\ Proceed(b, "waitCommits")
  /\ UNCHANGED <<engineVars, admissionVars, runVars, executorVars, scopeVars, retryVars,
                 paused, handlerVars, gate, captured, stopVars>>

\* Mutant of CommitTransition: the admissions of the old session stay.
CommitKeepsAdmissions ==
  /\ sessionGen' = sessionGen + 1
  /\ window' = 0
  /\ disabledGen' = sessionGen
  /\ UNCHANGED <<active, pending>>

\* _commit_session_transition
CommitTransition ==
  /\ sessionGen' = sessionGen + 1
  /\ active' = {}
  /\ window' = 0
  /\ disabledGen' = sessionGen
  /\ pending' = IF pending # None /\ pending.sgen = sessionGen
                THEN [pending EXCEPT !.disabled = TRUE] ELSE pending

\* The start of AgentEngine.shutdown: only a run task that is not done is
\* waited for.
BeginShutdown(b) ==
  /\ shuttingDown' = TRUE
  /\ fsm' = TryTransition(fsm, "SHUTDOWN")
  /\ stopFlag' = (stopFlag \/ running)
  /\ Proceed(b, IF Live(runTask) THEN "draining" ELSE "quiet")

\* New session: commits and shuts down as soon as the commits have drained.
\* Clear and restore: after their own awaited preparation.
TransitionCommits(b) ==
  /\ \/ b \in News /\ bpc[b] = "fenced" /\ CommitsAreIdle
     \/ b \in Clears /\ bpc[b] = "deleting"
     \/ b \in Restores /\ bpc[b] = "preparing"
  /\ CommitTransition
  /\ BeginShutdown(b)
  /\ UNCHANGED <<buildGen, loadGen, loading, executorUp, detached, closeOwner, token, nextAid, runVars,
                 running, preInterrupt, scope, nextRun, commits, paused, handlerVars, gate, captured,
                 stopVars>>

\* Clear fires session_end hooks, restore loads the target's settings: both
\* with the fence closed, the transition not committed, older admissions free.
\* A session whose files are gone already is not the active one: no clear.
TransitionPrepares(b) ==
  /\ b \in Clears \cup Restores /\ bpc[b] = "fenced" /\ CommitsAreIdle
  /\ Proceed(b, IF b \in Clears /\ detached THEN "finishing" ELSE "preparing")
  /\ UNCHANGED <<engineVars, admissionVars, runVars, executorVars, scopeVars, retryVars,
                 paused, handlerVars, gate, captured, stopVars>>

\* _delete_session_reporting gives the session id up before the delete.
ClearDetaches(b) ==
  /\ b \in Clears /\ bpc[b] = "preparing"
  /\ detached' = TRUE
  /\ Proceed(b, "deleting")
  /\ UNCHANGED <<fsm, sessionGen, buildGen, loadGen, loading, shuttingDown, executorUp, admissionVars,
                 runVars, executorVars, scopeVars, retryVars, paused, handlerVars, gate, captured, stopVars>>

\* The delete or the settings load fails: the session carries on.
TransitionFails(b) ==
  /\ \/ b \in Clears /\ bpc[b] = "deleting"
     \/ b \in Restores /\ bpc[b] = "preparing"
  /\ detached' = (detached /\ b \notin Clears)
  /\ Proceed(b, "finishing")
  /\ UNCHANGED <<fsm, sessionGen, buildGen, loadGen, loading, shuttingDown, executorUp, admissionVars,
                 runVars, executorVars, scopeVars, retryVars, paused, handlerVars, gate, captured, stopVars>>

\* _prepare_user_rollback_with_permit: capture the run task, check, wait for it.
RollbackCapturesRun(b) ==
  /\ b \in Rollbacks /\ bpc[b] = "waitCommits" /\ CommitsAreIdle /\ ~loading
  /\ captured' = [captured EXCEPT ![b].task = runTask]
  /\ Proceed(b, IF OwnerChanged(b) \/ ~RollbackMayRun THEN "finishing" ELSE "waitRun")
  /\ UNCHANGED <<engineVars, admissionVars, runVars, executorVars, scopeVars, retryVars,
                 paused, handlerVars, gate, stopVars>>

\* With the run quiet: refuse, project the state for the picker, or commit.
RollbackDecides(b) ==
  /\ b \in Rollbacks /\ bpc[b] = "waitRun" /\ ~Live(captured[b].task)
  /\ \/ /\ Proceed(b, "finishing")
        /\ UNCHANGED <<sessionGen, active, window, retryVars>>
     \/ /\ ~OwnerChanged(b) /\ RollbackMayRun
        /\ CommitTransition
        /\ Proceed(b, "committed")
  /\ UNCHANGED <<fsm, buildGen, loadGen, loading, shuttingDown, executorUp, detached, closeOwner, token,
                 nextAid, runVars, executorVars, scope, nextRun, commits, paused, handlerVars, gate,
                 captured, stopVars>>

\* The snapshot swap or the restore's loading fails after the commit ...
RollbackFails(b) ==
  /\ bpc[b] = "committed"
  /\ Proceed(b, "finishing")
  /\ UNCHANGED <<engineVars, admissionVars, runVars, executorVars, scopeVars, retryVars,
                 paused, handlerVars, gate, captured, stopVars>>

\* ... or the restored session replaces this one.
RollbackShutsDown(b) ==
  /\ bpc[b] = "committed"
  /\ BeginShutdown(b)
  /\ UNCHANGED <<sessionGen, buildGen, loadGen, loading, executorUp, detached, admissionVars, runVars,
                 running, preInterrupt, scopeVars, retryVars, paused, handlerVars, gate, captured, stopVars>>

\* wait_for(shield(run_task)) times out.  The executor turns the cancellation
\* into an interrupt; anywhere else it ends the task.
ShutdownTimesOut(b) ==
  /\ bpc[b] = "draining" /\ Live(runTask)
  /\ IF phase[runTask] = "exec"
     THEN stopFlag' = TRUE /\ UNCHANGED phase
     ELSE phase' = [phase EXCEPT ![runTask] = "cancelled"] /\ UNCHANGED stopFlag
  /\ Proceed(b, "cancelling")
  /\ UNCHANGED <<engineVars, admissionVars, runTask, lastTask, tscope, result, running, preInterrupt,
                 scopeVars, retryVars, paused, handlerVars, gate, captured, stopVars>>

\* Mutant of RunIsQuiet: the cancelled task is not waited for.
RunIsCancelled(b) == bpc[b] = "cancelling" \/ ~Live(runTask)

RunIsQuiet(b) == ~Live(runTask)

\* The run is over.  One that raised while the executor was still being
\* interrupted is found done, and not awaited.
ShutdownObservesRun(b) ==
  /\ bpc[b] \in {"quiet", "draining", "cancelling"} /\ RunIsQuiet(b)
  /\ bpc[b] = "cancelling" => ~Raised(runTask)
  /\ runTask' = 0 /\ pending' = None /\ active' = {}
  /\ Proceed(b, "drained")
  /\ UNCHANGED <<engineVars, closeOwner, token, nextAid, phase, tscope, result, lastTask, executorVars,
                 scopeVars, disabledGen, paused, handlerVars, gate, captured, stopVars>>

\* The awaited run raises: its exception ends the shutdown there and the
\* transition with it, the engine shutting down still.
ShutdownRaises(b) ==
  /\ bpc[b] \in {"draining", "cancelling"} /\ Raised(runTask)
  /\ Proceed(b, "finishing")
  /\ UNCHANGED <<engineVars, admissionVars, runVars, executorVars, scopeVars, retryVars,
                 paused, handlerVars, gate, captured, stopVars>>

\* The rest of shutdown, _reset_turn_runtime_after_session_shutdown and
\* _reset_for_restart.  The awaits inside only ever meet handlers of the
\* generation the commit has already retired.
EngineTornDown(b) ==
  /\ bpc[b] = "drained"
  /\ executorUp' = FALSE /\ paused' = {}
  /\ scope' = None /\ window' = 0 /\ commits' = 0
  /\ preInterrupt' = {} /\ stopFlag' = FALSE /\ running' = FALSE
  /\ fsm' = "UNINITIALIZED" /\ shuttingDown' = FALSE /\ detached' = FALSE
  /\ Proceed(b, "down")
  /\ UNCHANGED <<sessionGen, buildGen, loadGen, loading, admissionVars, runVars, nextRun, retryVars,
                 handlerVars, gate, captured, stopVars>>

\* acquire_rebuild_permit after the admissions: commits, the run-task chain,
\* commits again, then _validate_rebuild_token_after_boundary.
RebuildCommitsIdle(b) ==
  /\ b \in Rebuilds /\ bpc[b] = "waitCommits" /\ CommitsAreIdle
  /\ Proceed(b, "waitDrain")
  /\ UNCHANGED <<engineVars, admissionVars, runVars, executorVars, scopeVars, retryVars,
                 paused, handlerVars, gate, captured, stopVars>>

\* "Cannot rebuild because the active run failed", when the run has raised.
RebuildRunDrained(b) ==
  /\ bpc[b] = "waitDrain" /\ ~Live(runTask)
  /\ Proceed(b, IF Raised(runTask) THEN "finishing" ELSE "lastCommits")
  /\ UNCHANGED <<engineVars, admissionVars, runVars, executorVars, scopeVars, retryVars,
                 paused, handlerVars, gate, captured, stopVars>>

RebuildDenied(b) ==
  \/ shuttingDown \/ loading \/ ~AdmissionsAreIdle \/ Live(runTask)
  \/ [captured[b] EXCEPT !.task = 0] # Clocks

RebuildValidates(b) ==
  /\ bpc[b] = "lastCommits" /\ CommitsAreIdle /\ ~loading
  /\ Proceed(b, IF RebuildDenied(b) THEN "finishing" ELSE "permit")
  /\ UNCHANGED <<engineVars, admissionVars, runVars, executorVars, scopeVars, retryVars,
                 paused, handlerVars, gate, captured, stopVars>>

\* start or soft_restart: _begin_agent_load ...
LoadBegins(b) ==
  /\ bpc[b] \in {"down", "permit"}
  /\ loading' = TRUE /\ loadGen' = loadGen + 1
  /\ Proceed(b, "loading")
  /\ UNCHANGED <<fsm, sessionGen, buildGen, shuttingDown, executorUp, detached, admissionVars, runVars,
                 executorVars, scopeVars, retryVars, paused, handlerVars, gate, captured, stopVars>>

\* ... a failed build leaves everything as it was ...
LoadFails(b) ==
  /\ bpc[b] = "loading"
  /\ loading' = FALSE
  /\ Proceed(b, "finishing")
  /\ UNCHANGED <<fsm, sessionGen, buildGen, loadGen, shuttingDown, executorUp, detached, admissionVars,
                 runVars, executorVars, scopeVars, retryVars, paused, handlerVars, gate, captured, stopVars>>

\* ... a committed one installs the executor.  START does not follow when the
\* cleanup after the commit is cancelled; a restored history may carry a
\* terminal marker (restore_terminal_state).
LoadCommits(b) ==
  /\ bpc[b] = "loading"
  /\ loading' = FALSE /\ executorUp' = TRUE /\ buildGen' = buildGen + 1
  /\ LET started == TryTransition(fsm, "START")
     IN  fsm' \in {fsm, started} \cup
           IF b \in Restores \cup Rollbacks
           THEN {TryTransition(started, "RESTORE_INTERRUPTED"), TryTransition(started, "RESTORE_FAILED")}
           ELSE {}
  /\ Proceed(b, "finishing")
  /\ UNCHANGED <<sessionGen, loadGen, shuttingDown, detached, admissionVars, runVars, executorVars,
                 scopeVars, retryVars, paused, handlerVars, gate, captured, stopVars>>

\* _finish_session_transition, release_rebuild_permit
BoundaryFinishes(b) ==
  /\ bpc[b] = "finishing"
  /\ closeOwner' = None /\ gate' = None
  /\ Proceed(b, "done")
  /\ UNCHANGED <<engineVars, active, token, nextAid, runVars, executorVars, scopeVars, retryVars,
                 paused, handlerVars, captured, stopVars>>

-----------------------------------------------------------------------------
\* Everything asked of the engine has been answered: the system may rest.
Settled ==
  /\ \A h \in Handlers : pc[h] \in Outcomes
  /\ \A b \in Boundaries : bpc[b] = "done"
  /\ \A t \in Tasks : ~Live(t)
  /\ stopTask = 0

Rest == Settled /\ UNCHANGED vars

PromptStep(m) ==
  \/ MessageFenced(m) \/ MessageForActiveRun(m) \/ MessageWaitsForRun(m) \/ MessageReserves(m)
  \/ RunWaited(m) \/ MessageStale(m) \/ MessageConflict(m) \/ MessageStarts(m)
  \/ InjectionCommits(m) \/ InjectionAbandoned(m) \/ InjectionPublished(m)

RetryStep(r) ==
  \/ RetryFenced(r) \/ RetryWaitsForPrompt(r) \/ RetryRouted(r)
  \/ NoteReserves(r) \/ NoteRefused(r) \/ NoteCommits(r) \/ NoteRouted(r)
  \/ RetryNotStarted(r) \/ RetryStarts(r)

\* The handler's own progress, data-dependent refusals and submission aside.
HandlerStep(h) ==
  \/ NotReady(h) \/ FenceOpened(h) \/ AdmissionsIdle(h) \/ WaitFails(h)
  \/ h \in Messages /\ PromptStep(h)
  \/ h \in Retries /\ RetryStep(h)

HandlerChoice(h) ==
  \/ Submit(h)
  \/ h \in Messages /\ MessageRejected(h)
  \/ h \in Retries /\ RetryRefused(h)

RunStep(t) ==
  \/ RunEntersExecutor(t) \/ ExecutorReturns(t) \/ RunReachesTerminal(t)
  \/ RunDispatchesRetry(t) \/ RunEnds(t)

\* What a boundary that has started does on its own.
BoundaryStep(b) ==
  \/ BoundaryAcquires(b) \/ AdmissionsDrained(b)
  \/ TransitionCommits(b) \/ TransitionPrepares(b) \/ ClearDetaches(b) \/ TransitionFails(b)
  \/ RollbackCapturesRun(b) \/ RollbackDecides(b) \/ RollbackFails(b) \/ RollbackShutsDown(b)
  \/ ShutdownTimesOut(b) \/ ShutdownObservesRun(b) \/ ShutdownRaises(b) \/ EngineTornDown(b)
  \/ RebuildCommitsIdle(b) \/ RebuildRunDrained(b) \/ RebuildValidates(b)
  \/ LoadBegins(b) \/ LoadFails(b) \/ LoadCommits(b) \/ BoundaryFinishes(b)

Next ==
  \/ \E h \in Handlers : HandlerStep(h) \/ HandlerChoice(h)
  \/ \E t \in Tasks : RunStep(t) \/ RunRaises(t)
  \/ \E a \in SubAgents : SubAgentPauses(a) \/ SubAgentResolves(a)
  \/ StopRequested \/ StopLands
  \/ \E b \in Boundaries : BoundaryRequested(b) \/ BoundaryStep(b)
  \/ Rest

Spec == Init /\ [][Next]_vars

-----------------------------------------------------------------------------
(* Type invariant.                                                         *)

EngineTypes ==
  /\ fsm \in EngineStates
  /\ sessionGen \in Nat /\ buildGen \in Nat /\ loadGen \in Nat
  /\ loading \in BOOLEAN /\ shuttingDown \in BOOLEAN
  /\ executorUp \in BOOLEAN /\ detached \in BOOLEAN

HandlerTypes ==
  /\ active \subseteq Handlers /\ nextAid \in Nat
  /\ token \in [Handlers -> Token \cup {None}]
  /\ pc \in [Handlers -> HandlerPcs]
  /\ target \in [Handlers -> Target \cup NoteOwner \cup {None}]
  /\ waitTask \in [Handlers -> 0..MaxTasks]

RunTypes ==
  /\ runTask \in 0..MaxTasks /\ lastTask \in 0..MaxTasks
  /\ phase \in [Tasks -> Phases]
  /\ tscope \in [Tasks -> Scope \cup {None}]
  /\ result \in Results

StopTypes ==
  /\ running \in BOOLEAN /\ stopFlag \in BOOLEAN
  /\ preInterrupt \subseteq Tasks /\ asked \subseteq Tasks
  /\ stopTask \in 0..MaxTasks /\ stops \in 0..MaxStops
  /\ paused \subseteq SubAgents

ScopeTypes ==
  /\ scope \in Scope \cup {None} /\ nextRun \in Nat
  /\ window \in 0..MaxTasks /\ commits \in Nat
  /\ pending \in Queued \cup {None} /\ disabledGen \in Nat \cup {None}

BoundaryTypes ==
  /\ closeOwner \in Boundaries \cup {None} /\ gate \in Boundaries \cup {None}
  /\ bpc \in [Boundaries -> BoundaryPcs]
  /\ captured \in [Boundaries -> OwnerClocks \cup {None}]

\* Every variable holds the kind of value its attribute holds in the code.
TypeOK ==
  /\ EngineTypes /\ HandlerTypes /\ RunTypes /\ StopTypes /\ ScopeTypes /\ BoundaryTypes

-----------------------------------------------------------------------------
(* Safety.                                                                 *)

\* At most one run is alive, and it is the one in the slot: a prompt, a retry
\* and a queued retry racing for it never overlap, and no boundary empties the
\* slot under a live run (promote_*, start_pending_retry_if_due, shutdown).
SingleLiveRun == \A t \in Tasks : Live(t) => t = runTask

\* While the engine says it is running there is a run to inject into, stop and
\* wait for, or else the run of that turn has raised and the next retry takes the
\* turn up again; otherwise every prompt would be injected into nothing for ever.
\* (For PENDING_RETRY the code does not have it: PendingRetryIsFinishing.)
RunningStateHasItsRun ==
  /\ fsm \in {"RUNNING", "AWAITING_SUB_AGENTS"} => Live(runTask) \/ Raised(runTask)
  /\ fsm = "RUNNING" /\ ~Live(runTask) => MayClaim

\* A live run belongs to the build that is installed, and to the session that
\* is open unless a transition has committed and is waiting for that run.
RunBelongsToOwner ==
  \A t \in Tasks : Live(t) =>
    /\ tscope[t] # None
    /\ tscope[t].bgen = buildGen
    /\ tscope[t].sgen = sessionGen \/ shuttingDown

\* An admission that is still registered was reserved under the owner that is
\* current: no boundary replaces session or build over a preparing prompt.
RegisteredAdmissionIsCurrent ==
  \A h \in active : token[h] # None /\ OwnerIsCurrent(token[h])

\* Runs and registered admissions belong to the owner that is current.
OwnersAgree == RunBelongsToOwner /\ RegisteredAdmissionIsCurrent

\* While the engine loads, nothing of the old turn is left that could reach
\* the build: the gate is held, no admission reserved, no retry queued, no run.
LoadIsQuiet ==
  loading => /\ gate # None /\ closeOwner = gate
             /\ active = {} /\ pending = None
             /\ \A t \in Tasks : ~Live(t)

\* Nor is an injection still being published into the runtime that is replaced
\* (wait_for_active_injection_commits_idle).  A clear or a restore waits before
\* its own preparation and not after it, and resets a count that may be held: with
\* one among the boundaries this does not hold.
LoadMeetsNoCommit == loading => \A m \in Messages : pc[m] # "publishing"

\* AWAITING_SUB_AGENTS mirrors a non-empty paused set (the defensive check of
\* on_sub_agent_unpaused), a shutdown's own state aside.
PausedMirrorsState ==
  fsm # "SHUTTING_DOWN" => (paused # {} <=> fsm = "AWAITING_SUB_AGENTS")

\* An open injection window was opened for the current scope by the run in the
\* slot, which lives or raised in its pre-run.
WindowIsTheRuns ==
  window # 0 => window = runTask /\ (Live(runTask) \/ Raised(runTask)) /\ scope = tscope[runTask]

\* A queued retry has a live run of its own logical run to start it; only a run
\* of that logical run that raised leaves it behind (upsert,
\* start_pending_retry_if_due, boundaries).
QueuedRetryHasItsRun ==
  pending # None =>
    \/ shuttingDown
    \/ Live(runTask) /\ scope # None /\ pending.run = scope.run
    \/ \E t \in Tasks : Raised(t) /\ tscope[t].run = pending.run

\* What the engine says of its turn is true of it, wherever pauses, stops,
\* queued retries and the end of the run cross, a run that raises included.
StateMirrorsTurn ==
  RunningStateHasItsRun /\ PausedMirrorsState /\ WindowIsTheRuns /\ QueuedRetryHasItsRun

\* A queued retry is only ever replaced by a later one for the same run, however
\* long the hooks of the earlier one take (upsert_pending_retry_from_admission).
NewestRetryWins ==
  [][/\ pending # None /\ pending' # None
     /\ pending'.sgen = pending.sgen /\ pending'.run = pending.run
     => pending'.updatedBy >= pending.updatedBy]_vars

\* A stop hits the run it was meant for: neither an interrupt bound before the
\* executor nor the executor's flag ever reaches a run nobody asked to stop.
StopHitsItsRun ==
  /\ preInterrupt \subseteq {t \in asked : (Live(t) /\ phase[t] # "exec") \/ Raised(t)} \/ shuttingDown
  /\ stopFlag => running /\ (runTask \in asked \/ shuttingDown)

\* A stop that found the run before its executor ends it interrupted, or else
\* its pre-run never got that far.
BoundStopIsObeyed ==
  [][\A t \in Tasks : t \in preInterrupt /\ phase[t] = "pre" /\ phase'[t] \notin {"pre", "cancelled", "raised"}
        => phase'[t] = "post" /\ result' = "interrupted"]_vars

\* Turns keep their order: TurnOrder, with the run in the slot while it is live.
Order == INSTANCE TurnOrder WITH
           run     <- IF Live(runTask) THEN runTask ELSE 0,
           runs    <- lastTask,
           session <- sessionGen,
           orphan  <- Live(runTask) /\ tscope[runTask].sgen # sessionGen,
           build   <- buildGen

OneTurnAtATime == Order!Spec

\* "PENDING_RETRY (retry queued while current run still finishing)", is_running's
\* docstring: in that state there is a run to finish.
PendingRetryIsFinishing == fsm = "PENDING_RETRY" => Live(runTask)

\* "Pending retry auto-starts after current run completes or is interrupted"
\* (state/machine.py).
QueuedRetryStarts ==
  [][\A t \in Tasks : /\ phase[t] = "save" /\ phase'[t] = "done"
                     /\ pending # None /\ result # "failed" /\ ~shuttingDown
        => runTask' # runTask]_vars

\* "AgentEngine.shutdown cascade-aborts paused sub-agents and cancels the
\* running executor before the trigger fires" (state/machine.py).
ShutdownAfterCascade == [][fsm # "SHUTTING_DOWN" /\ fsm' = "SHUTTING_DOWN" => paused = {} /\ ~running]_vars

-----------------------------------------------------------------------------
(* Liveness.  The event loop runs every ready task; an executor's pass does *)
(* not pause for ever, and a paused sub-agent is eventually decided.       *)

Fairness ==
  /\ \A h \in Handlers : WF_vars(HandlerStep(h))
  /\ \A t \in Tasks : WF_vars(RunStep(t)) /\ SF_vars(ExecutorReturns(t))
  /\ \A a \in SubAgents : WF_vars(SubAgentResolves(a))
  /\ \A b \in Boundaries : WF_vars(BoundaryStep(b))
  /\ WF_vars(StopLands)

FairSpec == Spec /\ Fairness

\* Every prompt and retry that reached the engine gets an outcome.
EveryHandlerSettles == \A h \in Handlers : pc[h] = "gate" ~> pc[h] \in Outcomes

\* Every boundary ends and reopens admission: no one waits on everyone.
EveryBoundaryFinishes ==
  \A b \in Boundaries : bpc[b] \notin {"new", "done"} ~> bpc[b] = "done" /\ closeOwner # b

\* Nobody waits for ever: neither those who ask for a turn nor those who wait
\* for turns to be over.
EventsSettle == EveryHandlerSettles /\ EveryBoundaryFinishes

=============================================================================
