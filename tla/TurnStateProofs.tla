-------------------------- MODULE TurnStateProofs --------------------------
(***************************************************************************)
(* Theorems about TurnLifecycle, for any number of events and any bounds:  *)
(* what the engine says of its turn is true of it, runs and admissions     *)
(* belong to the owner that is current, a load meets nothing of the old    *)
(* turn, a stop hits the run it was meant for, and the engine implements   *)
(* TurnOrder.                                                              *)
(***************************************************************************)
EXTENDS TurnLifecycleProofs, FiniteSetTheorems

-----------------------------------------------------------------------------
(* The inductive invariant.                                                *)

Shutting  == {"quiet", "draining", "cancelling", "drained"}
Outside   == {"new", "requested", "done"}
Undecided == {"fenced", "preparing", "deleting", "finishing"}
Rested    == {"lastCommits", "drained", "down", "permit", "loading"}
Cleared   == Rested \ {"lastCommits"}
Reserved  == {"hook", "note", "noteRoute", "retryWait"}

\* The boundary inside the gate is the one that closed admission, and only it
\* shuts the engine down or loads; a shutdown that the run raised in stays so.
FenceInv ==
  /\ closeOwner = gate
  /\ \A b \in Boundaries : bpc[b] \notin Outside => gate = b
  /\ shuttingDown <=> fsm = "SHUTTING_DOWN"
  /\ \A b \in Boundaries : bpc[b] \in Shutting => shuttingDown
  /\ shuttingDown => (gate \in Boundaries /\ bpc[gate] \in Shutting) \/ Raised(runTask)
  /\ loading => gate \in Boundaries /\ bpc[gate] = "loading"

\* Once the admissions have been waited for or dropped none comes back before the
\* fence opens; nor does a run, where one has been waited for, or anything it left
\* where one that raised is turned away or dropped.
QuietInv == \A b \in Boundaries :
  /\ bpc[b] \notin Outside \cup Undecided => active = {}
  /\ bpc[b] \in Rested => ~Live(runTask) /\ ~Raised(runTask)
  /\ bpc[b] \in Cleared => pending = None
  /\ bpc[b] = "committed" => ~Live(runTask) /\ window = 0
  /\ bpc[b] = "waitRun" => RollbackMayRun /\ (Live(runTask) => runTask = captured[b].task)

\* A registered admission is current, and a handler whose admission is current is
\* registered: the owner's clocks only go on where admissions are dropped.
AdmissionInv == \A h \in Handlers :
  /\ token[h] # None => token[h].sgen <= sessionGen /\ token[h].bgen <= buildGen
  /\ h \in active => token[h] # None /\ OwnerIsCurrent(token[h])
  /\ pc[h] \in Reserved /\ OwnerIsCurrent(token[h]) => h \in active

\* The live run has the current scope, the executor while it runs, and the window
\* until it returns; one that raises leaves the window as it is.
RunInv ==
  /\ Live(runTask) => /\ scope # None /\ scope = tscope[runTask] /\ scope.bgen = buildGen
                      /\ scope.sgen = sessionGen \/ shuttingDown
                      /\ phase[runTask] # "save" => IsRunning(fsm) \/ fsm \in {"UNINITIALIZED", "SHUTTING_DOWN"}
  /\ running <=> Live(runTask) /\ phase[runTask] = "exec"
  /\ window # 0 => /\ window = runTask /\ phase[runTask] \in {"pre", "exec", "raised"}
                   /\ scope = tscope[runTask] /\ ~shuttingDown

\* The states that claim a run have one, or one that raised; past its terminal state
\* it is only running for a retry that is going to start.
StateInv ==
  /\ fsm # "SHUTTING_DOWN" => (paused # {} <=> fsm = "AWAITING_SUB_AGENTS")
  /\ fsm \in {"RUNNING", "AWAITING_SUB_AGENTS"} => Live(runTask) \/ Raised(runTask)
  /\ Live(runTask) /\ (fsm = "PENDING_RETRY" \/ (fsm = "RUNNING" /\ phase[runTask] = "save")) => RetryIsWanted
  /\ fsm = "AWAITING_SUB_AGENTS" => phase[runTask] # "save"

\* A run of the queued retry's logical run has raised.
LeftBehind == \E t \in Tasks : Raised(t) /\ tscope[t].run = pending.run

\* A queued retry is the live run's or was left behind by one that raised, and only
\* one of an older session is disabled.
RetryInv ==
  /\ disabledGen # None => disabledGen < sessionGen
  /\ pending # None => /\ shuttingDown \/ Live(runTask) \/ Raised(runTask)
                       /\ \/ shuttingDown \/ LeftBehind
                          \/ Live(runTask) /\ scope # None /\ pending.run = scope.run
                       /\ pending.sgen <= sessionGen
                       /\ pending.sgen = sessionGen => ~pending.disabled

\* A stop is kept for, or flagged on, the run it was meant for.
StopInv ==
  /\ stopTask # 0 => stopTask \in asked
  /\ \A t \in preInterrupt : \/ shuttingDown
                             \/ t \in asked /\ ((Live(t) /\ phase[t] # "exec") \/ Raised(t))
  /\ stopFlag => running /\ (runTask \in asked \/ shuttingDown)

\* Run tasks are installed in the order of their numbers.
BirthInv ==
  /\ runTask <= lastTask
  /\ \A t \in Tasks : t > lastTask => phase[t] = "unborn"

TurnInv ==
  /\ Typed /\ SingleLiveRun /\ BirthInv
  /\ FenceInv /\ QuietInv /\ AdmissionInv /\ RunInv /\ StateInv /\ RetryInv /\ StopInv

\* What the parts about the turn are about.
turnState == <<fsm, sessionGen, buildGen, shuttingDown, runTask, phase, tscope, scope, window, running,
               paused, pending, disabledGen, preInterrupt, asked, stopTask, stopFlag>>

TurnParts == RunInv /\ StateInv /\ RetryInv /\ StopInv

LEMMA TurnUntouched ==
  ASSUME TurnParts, UNCHANGED turnState
  PROVE  TurnParts'
BY DEF TurnParts, RunInv, StateInv, RetryInv, StopInv, turnState, Live, Raised, LeftBehind, RetryIsWanted,
       RunGeneration

LEMMA BirthNext == Typed /\ SingleLiveRun /\ BirthInv /\ [Next]_vars => BirthInv'
<1> SUFFICES ASSUME Typed, SingleLiveRun, BirthInv, [Next]_vars PROVE BirthInv'
  OBVIOUS
<1> USE DEF Typed, TypeOK, RunTypes, BirthInv
<1>0. lastTask \in Nat /\ runTask \in Nat /\ Tasks \subseteq Nat
  BY ConstantsAssumption DEF ConstantsAssumption, Tasks
<1>1. CASE SlotUntouched
  BY <1>1 DEF SlotUntouched
<1>2. CASE SlotTaken
  BY <1>0, <1>2 DEF SlotTaken, Install
<1>3. ASSUME NEW t \in Tasks, RunStep(t) \/ RunRaises(t) PROVE BirthInv'
  <2>1. phase[t] # "unborn" /\ t <= lastTask
    <3>1. phase[t] # "unborn"
      BY <1>3 DEF RunStep, RunEntersExecutor, ExecutorReturns, RunReachesTerminal, RunDispatchesRetry, RunEnds,
                  RunRaises
    <3> QED BY <1>0, <3>1
  <2>2. CASE RunDispatchesRetry(t)
    BY <1>0, <2>1, <2>2 DEF RunDispatchesRetry
  <2>3. CASE ~RunDispatchesRetry(t)
    <3>1. runTask' = runTask /\ lastTask' = lastTask /\ \A u \in Tasks \ {t} : phase'[u] = phase[u]
      BY <1>3, <2>3 DEF RunStep, RunEntersExecutor, ExecutorReturns, RunReachesTerminal, RunEnds, RunRaises
    <3> QED BY <1>0, <2>1, <3>1
  <2> QED BY <2>2, <2>3
<1>4. ASSUME NEW b \in Boundaries, ShutdownTimesOut(b) PROVE BirthInv'
  <2>1. phase[runTask] # "unborn" /\ runTask' = runTask /\ lastTask' = lastTask
    BY <1>4 DEF ShutdownTimesOut, Live, LivePhases
  <2>2. \A u \in Tasks \ {runTask} : phase'[u] = phase[u]
    BY <1>4 DEF ShutdownTimesOut
  <2> QED BY <1>0, <2>1, <2>2
<1>5. ASSUME NEW b \in Boundaries, ShutdownObservesRun(b) PROVE BirthInv'
  BY <1>0, <1>5 DEF ShutdownObservesRun
<1> QED BY <1>1, <1>2, <1>3, <1>4, <1>5, SlotStep

\* The next task has not been, so it is none of those that raised.
LEMMA NextIsUnborn ==
  ASSUME TurnInv
  PROVE  \A t \in Tasks : Raised(t) => t # lastTask + 1
<1>1. lastTask \in Nat /\ Tasks \subseteq Nat
  BY ConstantsAssumption DEF TurnInv, Typed, TypeOK, RunTypes, ConstantsAssumption, Tasks
<1>2. \A t \in Tasks : Raised(t) => ~(t > lastTask)
  BY DEF TurnInv, BirthInv, Raised
<1> QED BY <1>1, <1>2

-----------------------------------------------------------------------------
(* The state machine's table, by trigger.                                  *)

LEMMA TableOfTurns ==
  ASSUME NEW s \in EngineStates
  PROVE  /\ TryTransition(s, "USER_MESSAGE") =
              IF s \in {"IDLE", "INTERRUPTED", "FAILED", "PENDING_RETRY"} THEN "RUNNING" ELSE s
         /\ TryTransition(s, "RETRY_REQUESTED") = IF s = "RUNNING" THEN "PENDING_RETRY" ELSE s
         /\ TryTransition(s, "RETRY_STARTED") = IF s \in {"INTERRUPTED", "FAILED"} THEN "RUNNING" ELSE s
         /\ TryTransition(s, "SUB_AGENT_PAUSED") =
              IF s \in {"RUNNING", "PENDING_RETRY"} THEN "AWAITING_SUB_AGENTS" ELSE s
         /\ TryTransition(s, "SUB_AGENT_RESOLVED") = IF s = "AWAITING_SUB_AGENTS" THEN "RUNNING" ELSE s
BY DEF TryTransition, Transitions, EngineStates

LEMMA TableOfEnds ==
  ASSUME NEW s \in EngineStates
  PROVE  /\ TryTransition(s, "RUN_COMPLETED") =
              IF s = "PENDING_RETRY" THEN "RUNNING"
              ELSE IF s \in {"RUNNING", "AWAITING_SUB_AGENTS"} THEN "IDLE" ELSE s
         /\ TryTransition(s, "RUN_INTERRUPTED") =
              IF s = "PENDING_RETRY" THEN "RUNNING"
              ELSE IF s \in {"RUNNING", "AWAITING_SUB_AGENTS"} THEN "INTERRUPTED" ELSE s
         /\ TryTransition(s, "RUN_FAILED") =
              IF s \in {"RUNNING", "PENDING_RETRY", "AWAITING_SUB_AGENTS"} THEN "FAILED" ELSE s
BY DEF TryTransition, Transitions, EngineStates

LEMMA TableOfBoundaries ==
  ASSUME NEW s \in EngineStates
  PROVE  /\ TryTransition(s, "SHUTDOWN") = "SHUTTING_DOWN"
         /\ TryTransition(s, "START") = IF s = "UNINITIALIZED" THEN "IDLE" ELSE s
         /\ TryTransition(s, "RESTORE_INTERRUPTED") = IF s = "IDLE" THEN "INTERRUPTED" ELSE s
         /\ TryTransition(s, "RESTORE_FAILED") = IF s = "IDLE" THEN "FAILED" ELSE s
BY DEF TryTransition, Transitions, EngineStates

-----------------------------------------------------------------------------
(* Admission.  A handler's step concerns its own admission, and registers   *)
(* one only with the fence open.                                            *)

AdmissionLeft(h) == h \notin active' /\ token'[h] = None /\ pc'[h] \notin Reserved

AdmissionHeld(h) ==
  (h \in active' <=> h \in active) /\ token'[h] = token[h] /\ (pc'[h] \in Reserved => pc[h] \in Reserved)

AdmissionTaken(h) ==
  /\ ~Closed /\ h \in active'
  /\ token'[h] \in Token /\ token'[h].sgen = sessionGen /\ token'[h].bgen = buildGen

OwnAdmission(h) ==
  /\ \A g \in Handlers \ {h} : pc'[g] = pc[g] /\ token'[g] = token[g] /\ (g \in active' <=> g \in active)
  /\ active' \subseteq active \cup {h}
  /\ AdmissionLeft(h) \/ AdmissionHeld(h) \/ AdmissionTaken(h)

\* What a handler never touches.
boundaryState == <<sessionGen, buildGen, loadGen, loading, shuttingDown, executorUp, detached, closeOwner,
                   gate, bpc, captured, stopTask, stops, asked, running, stopFlag, preInterrupt, paused, disabledGen>>

LEMMA AdmissionKept ==
  ASSUME TurnInv, NEW h \in Handlers, OwnAdmission(h), UNCHANGED boundaryState
  PROVE  AdmissionInv'
<1> SUFFICES ASSUME NEW g \in Handlers
             PROVE  /\ token'[g] # None => token'[g].sgen <= sessionGen /\ token'[g].bgen <= buildGen
                    /\ g \in active' => token'[g] # None /\ OwnerIsCurrent(token'[g])
                    /\ pc'[g] \in Reserved /\ OwnerIsCurrent(token'[g]) => g \in active'
  BY DEF AdmissionInv, boundaryState, OwnerIsCurrent
<1>0. /\ token[g] # None => token[g].sgen <= sessionGen /\ token[g].bgen <= buildGen
      /\ g \in active => token[g] # None /\ OwnerIsCurrent(token[g])
      /\ pc[g] \in Reserved /\ OwnerIsCurrent(token[g]) => g \in active
      /\ sessionGen \in Nat /\ buildGen \in Nat
  BY DEF TurnInv, AdmissionInv, Typed, TypeOK, EngineTypes
<1>1. CASE g # h
  BY <1>0, <1>1 DEF OwnAdmission
<1>2. CASE g = h /\ AdmissionLeft(h)
  BY <1>0, <1>2 DEF AdmissionLeft
<1>3. CASE g = h /\ AdmissionHeld(h)
  BY <1>0, <1>3 DEF AdmissionHeld
<1>4. CASE g = h /\ AdmissionTaken(h)
  BY <1>0, <1>4, NoneAssumption DEF AdmissionTaken, OwnerIsCurrent, NoneAssumption
<1> QED BY <1>1, <1>2, <1>3, <1>4 DEF OwnAdmission

\* Leaving is one of the ways.
LEMMA LeaveAdmission ==
  ASSUME Typed, NEW h \in Handlers, NEW outcome \in Outcomes, Leave(h, outcome)
  PROVE  OwnAdmission(h)
BY DEF Typed, TypeOK, HandlerTypes, Leave, Goto, Release, OwnAdmission, AdmissionLeft, Outcomes, Reserved

\* So is going on without touching admission.
LEMMA GotoAdmission ==
  ASSUME Typed, NEW h \in Handlers, NEW step, Goto(h, step), UNCHANGED <<active, token>>,
         step \notin Reserved \/ pc[h] \in Reserved
  PROVE  OwnAdmission(h)
BY DEF Typed, TypeOK, HandlerTypes, Goto, OwnAdmission, AdmissionHeld

LEMMA ReserveAdmission ==
  ASSUME Typed, NEW h \in Handlers, NEW step \in Reserved, Goto(h, step), Reserve(h)
  PROVE  OwnAdmission(h)
<1>1. [sgen |-> sessionGen, bgen |-> buildGen, aid |-> nextAid] \in Token
  BY DEF Typed, TypeOK, EngineTypes, HandlerTypes, Token
<1>2. AdmissionTaken(h)
  BY <1>1 DEF Typed, TypeOK, HandlerTypes, Reserve, AdmissionTaken
<1>3. \A g \in Handlers \ {h} : pc'[g] = pc[g] /\ token'[g] = token[g] /\ (g \in active' <=> g \in active)
  BY DEF Typed, TypeOK, HandlerTypes, Goto, Reserve
<1> QED BY <1>2, <1>3 DEF OwnAdmission, Reserve

LEMMA TryReserveAdmission ==
  ASSUME Typed, NEW h \in Handlers, TryReserve(h)
  PROVE  OwnAdmission(h)
<1>1. CASE Closed /\ Goto(h, "waitOpen") /\ UNCHANGED <<active, token, nextAid>>
  BY <1>1, GotoAdmission DEF Reserved
<1>2. CASE Goto(h, "waitIdle") /\ UNCHANGED <<active, token, nextAid>>
  BY <1>2, GotoAdmission DEF Reserved
<1>3. CASE Reserve(h) /\ Goto(h, "hook")
  BY <1>3, ReserveAdmission DEF Reserved
<1> QED BY <1>1, <1>2, <1>3 DEF TryReserve

\* A retry is routed with the admission it has, or with one of this very stretch.
LEMMA RouteAdmission ==
  ASSUME Typed, NEW r \in Handlers, NEW tok, RouteRetry(r, tok),
         \/ pc[r] = "gate" /\ ~Closed /\ tok = NextToken
         \/ pc[r] \in {"note", "noteRoute"} /\ tok = token[r]
  PROVE  OwnAdmission(r)
<1>1. CASE Leave(r, "queued") \/ Leave(r, "refused")
  BY <1>1, LeaveAdmission DEF Outcomes
<1>2. CASE /\ Goto(r, "retryWait") /\ token' = [token EXCEPT ![r] = tok]
           /\ active' = active \cup (IF pc[r] = "gate" THEN {r} ELSE {})
  <2>1. \A g \in Handlers \ {r} : pc'[g] = pc[g] /\ token'[g] = token[g] /\ (g \in active' <=> g \in active)
    BY <1>2 DEF Typed, TypeOK, HandlerTypes, Goto
  <2>2. CASE pc[r] = "gate" /\ ~Closed /\ tok = NextToken
    <3>1. NextToken \in Token
      BY DEF Typed, TypeOK, EngineTypes, HandlerTypes, Token, NextToken
    <3>2. AdmissionTaken(r)
      BY <1>2, <2>2, <3>1 DEF Typed, TypeOK, HandlerTypes, AdmissionTaken, NextToken
    <3> QED BY <1>2, <2>1, <2>2, <3>2 DEF OwnAdmission
  <2>3. CASE pc[r] \in {"note", "noteRoute"} /\ tok = token[r]
    <3>1. AdmissionHeld(r)
      BY <1>2, <2>3 DEF Typed, TypeOK, HandlerTypes, AdmissionHeld, Goto, Reserved
    <3> QED BY <1>2, <2>1, <2>3, <3>1 DEF OwnAdmission
  <2> QED BY <2>2, <2>3
<1> QED BY <1>1, <1>2 DEF RouteRetry, Enqueue

\* What a handler's step does to its admission.
LEMMA HandlerAdmission ==
  ASSUME Typed, NEW h \in Handlers, HandlerStep(h) \/ HandlerChoice(h)
  PROVE  OwnAdmission(h) /\ UNCHANGED boundaryState
<1> USE DEF boundaryState, engineVars, clockVars, admissionVars, boundaryVars, stopVars, executorVars, retryVars
<1>1. CASE NotReady(h) \/ WaitFails(h)
  BY <1>1, LeaveAdmission DEF NotReady, WaitFails, Outcomes
<1>2. CASE MessageRejected(h) \/ MessageConflict(h) \/ InjectionPublished(h)
  BY <1>2, LeaveAdmission DEF MessageRejected, MessageConflict, InjectionPublished, Outcomes
<1>3. CASE MessageStale(h) \/ MessageStarts(h)
  BY <1>3, LeaveAdmission DEF MessageStale, MessageStarts, Outcomes
<1>4. CASE InjectionAbandoned(h)
  <2>1. \E outcome \in Outcomes : Leave(h, outcome)
    BY <1>4 DEF InjectionAbandoned, Outcomes
  <2> QED BY <1>4, <2>1, LeaveAdmission DEF InjectionAbandoned
<1>5. CASE RetryRefused(h)
  BY <1>5, LeaveAdmission DEF RetryRefused, Outcomes
<1>6. CASE NoteRefused(h) \/ RetryNotStarted(h)
  <2>1. \E outcome \in Outcomes : Leave(h, outcome)
    BY <1>6 DEF NoteRefused, RetryNotStarted, Outcomes
  <2> QED BY <1>6, <2>1, LeaveAdmission DEF NoteRefused, RetryNotStarted
<1>7. CASE RetryStarts(h)
  <2>1. Leave(h, "started") \/ Leave(h, "stale")
    BY <1>7 DEF RetryStarts
  <2> QED BY <1>7, <2>1, LeaveAdmission DEF RetryStarts, Outcomes
<1>8. CASE FenceOpened(h) \/ AdmissionsIdle(h) \/ Submit(h)
  BY <1>8, GotoAdmission DEF FenceOpened, AdmissionsIdle, Submit, Reserved
<1>9. CASE MessageFenced(h) \/ MessageWaitsForRun(h) \/ InjectionCommits(h)
  BY <1>9, GotoAdmission DEF MessageFenced, MessageWaitsForRun, InjectionCommits, Reserved
<1>10. CASE RetryFenced(h) \/ RetryWaitsForPrompt(h)
  BY <1>10, GotoAdmission DEF RetryFenced, RetryWaitsForPrompt, Reserved
<1>11. CASE MessageForActiveRun(h)
  <2>1. \/ Leave(h, "refused")
        \/ Goto(h, "inject") /\ UNCHANGED <<active, token>>
    BY <1>11 DEF MessageForActiveRun
  <2> QED BY <1>11, <2>1, LeaveAdmission, GotoAdmission DEF MessageForActiveRun, Outcomes, Reserved
<1>12. CASE MessageReserves(h) \/ RunWaited(h)
  BY <1>12, TryReserveAdmission DEF MessageReserves, RunWaited
<1>13. CASE NoteReserves(h)
  BY <1>13, ReserveAdmission DEF NoteReserves, Reserved
<1>14. CASE RetryRouted(h)
  BY <1>14, RouteAdmission DEF RetryRouted, RetryAtGate
<1>15. CASE NoteRouted(h)
  BY <1>15, RouteAdmission DEF NoteRouted
<1>16. CASE NoteCommits(h)
  <2>1. \/ RouteRetry(h, token[h])
        \/ Leave(h, "queued")
        \/ Goto(h, "noteRoute") /\ UNCHANGED <<active, token>>
    BY <1>16 DEF NoteCommits, Enqueue
  <2> QED BY <1>16, <2>1, RouteAdmission, LeaveAdmission, GotoAdmission DEF NoteCommits, Outcomes, Reserved
<1> QED BY <1>1, <1>2, <1>3, <1>4, <1>5, <1>6, <1>7, <1>8, <1>9, <1>10, <1>11, <1>12, <1>13, <1>14, <1>15, <1>16
        DEF HandlerStep, HandlerChoice, PromptStep, RetryStep

-----------------------------------------------------------------------------
(* What a handler's step does to the turn: nothing, unless it starts a run, *)
(* queues a retry or lets the last logical run go.                          *)

\* The rest of turnState, which no handler touches.
handlerFrame == <<sessionGen, buildGen, shuttingDown, running, paused, disabledGen, preInterrupt, asked,
                  stopTask, stopFlag>>

TurnLetGo ==
  /\ ~Live(runTask) /\ AcceptsFreshPrompt(fsm)
  /\ scope' = None /\ window' = 0
  /\ UNCHANGED <<handlerFrame, fsm, runTask, phase, tscope, pending>>

TurnStarted(sc) ==
  /\ active # {} /\ ~Live(runTask) /\ sc \in Scope /\ sc.sgen = sessionGen /\ sc.bgen = buildGen
  /\ fsm' = "RUNNING" \/ (fsm = "UNINITIALIZED" /\ fsm' = fsm)
  /\ ~shuttingDown /\ fsm # "AWAITING_SUB_AGENTS"
  /\ Install(sc) /\ scope' = sc /\ window' = lastTask + 1
  /\ UNCHANGED <<handlerFrame, pending>>

RetryQueued(tok) ==
  /\ Live(runTask) /\ MayQueue /\ tok \in Token /\ OwnerIsCurrent(tok)
  /\ pending' = Upsert(tok) /\ fsm' = "PENDING_RETRY"
  /\ UNCHANGED <<handlerFrame, runTask, phase, tscope, scope, window>>

TurnStep ==
  \/ UNCHANGED turnState
  \/ TurnLetGo
  \/ \E sc : TurnStarted(sc)
  \/ \E tok : RetryQueued(tok)

LEMMA LetGoKeeps ==
  ASSUME TurnInv, TurnLetGo
  PROVE  TurnParts'
<1>1. ~shuttingDown
  BY DEF TurnInv, TurnLetGo, FenceInv, AcceptsFreshPrompt
<1>2. ~Live(runTask)' /\ (Raised(runTask)' <=> Raised(runTask))
  BY DEF TurnLetGo, Live, Raised
<1>3. RunInv' /\ StateInv'
  BY <1>1, <1>2 DEF TurnInv, TurnLetGo, handlerFrame, RunInv, StateInv, AcceptsFreshPrompt
<1>4. RetryInv'
  BY <1>2 DEF TurnInv, TurnLetGo, handlerFrame, RetryInv, LeftBehind, Raised
<1>5. StopInv'
  BY <1>2 DEF TurnInv, TurnLetGo, handlerFrame, StopInv, Live, Raised
<1> QED BY <1>3, <1>4, <1>5 DEF TurnParts

LEMMA StartKeeps ==
  ASSUME TurnInv, NEW sc, TurnStarted(sc)
  PROVE  TurnParts'
<1>1. ~running /\ ~stopFlag
  BY DEF TurnInv, TurnStarted, StopInv, RunInv
<1>2. runTask' = lastTask + 1 /\ lastTask + 1 \in Tasks /\ runTask' # 0
  BY ConstantsAssumption DEF TurnInv, TurnStarted, Install, Typed, TypeOK, RunTypes, Tasks, ConstantsAssumption
<1>3. phase'[runTask'] = "pre" /\ tscope'[runTask'] = sc
  BY <1>2 DEF TurnInv, TurnStarted, Install, Typed, TypeOK, RunTypes
<1>4. Live(runTask)' /\ scope' # None
  BY <1>2, <1>3, NoneAssumption DEF TurnStarted, Live, LivePhases, NoneAssumption
<1>p. \A t \in Tasks : Raised(t) => Raised(t)' /\ tscope'[t] = tscope[t]
  BY NextIsUnborn DEF TurnInv, TurnStarted, Install, Typed, TypeOK, RunTypes, Raised
<1>5. RunInv'
  BY <1>1, <1>2, <1>3, <1>4 DEF TurnStarted, handlerFrame, RunInv, IsRunning
<1>6. StateInv'
  BY <1>3, <1>4 DEF TurnInv, TurnStarted, handlerFrame, StateInv, FenceInv
<1>7. RetryInv'
  <2>1. pending # None => LeftBehind
    BY DEF TurnInv, TurnStarted, RetryInv
  <2>2. pending # None => LeftBehind'
    BY <1>p, <2>1 DEF LeftBehind, TurnStarted
  <2> QED BY <1>4, <2>2 DEF TurnInv, TurnStarted, handlerFrame, RetryInv
<1>8. StopInv'
  <2>1. \A t \in preInterrupt : t \in asked /\ Raised(t) /\ t \in Tasks
    BY DEF TurnInv, TurnStarted, StopInv, SingleLiveRun, Typed, TypeOK, StopTypes
  <2> QED BY <1>1, <1>p, <2>1 DEF TurnInv, TurnStarted, handlerFrame, StopInv
<1> QED BY <1>5, <1>6, <1>7, <1>8 DEF TurnParts

LEMMA QueueKeeps ==
  ASSUME TurnInv, NEW tok, RetryQueued(tok)
  PROVE  TurnParts'
<1>1. Live(runTask)' /\ Live(runTask) /\ phase' = phase /\ runTask' = runTask /\ scope # None
  BY DEF TurnInv, RetryQueued, RunInv, Live
<1>2. RunInv'
  BY <1>1 DEF TurnInv, RetryQueued, handlerFrame, RunInv, IsRunning
<1>3. /\ pending' # None /\ pending'.sgen = sessionGen /\ pending'.run = scope.run /\ ~pending'.disabled
  <2>1. CASE pending' = QueuedBy(tok)
    <3>1. pending' = [sgen |-> sessionGen, run |-> scope.run, updatedBy |-> tok.aid, disabled |-> FALSE]
      BY <1>1, <2>1 DEF RetryQueued, QueuedBy, RunGeneration, OwnerIsCurrent
    <3>2. pending' \in Queued
      BY <1>1, <3>1 DEF TurnInv, Typed, TypeOK, ScopeTypes, EngineTypes, RetryQueued, Token, Scope, Queued
    <3> QED BY <3>1, <3>2, NoneAssumption DEF NoneAssumption
  <2>2. CASE pending' = pending /\ pending # None /\ pending.sgen = tok.sgen /\ pending.run = RunGeneration
    BY <1>1, <2>2 DEF TurnInv, RetryInv, RetryQueued, RunGeneration, OwnerIsCurrent
  <2> QED BY <2>1, <2>2 DEF RetryQueued, Upsert
<1>4. disabledGen' # sessionGen /\ (disabledGen # None => disabledGen < sessionGen)
  BY NoneAssumption DEF TurnInv, RetryInv, RetryQueued, handlerFrame, Typed, TypeOK, EngineTypes, ScopeTypes, NoneAssumption
<1>5. RetryInv'
  BY <1>1, <1>3, <1>4 DEF TurnInv, RetryInv, LeftBehind, RetryQueued, handlerFrame, Typed, TypeOK, EngineTypes
<1>6. RetryIsWanted'
  BY <1>1, <1>3, <1>4 DEF RetryIsWanted, RunGeneration, RetryQueued, handlerFrame
<1>7. StateInv'
  BY <1>1, <1>6 DEF TurnInv, StateInv, RetryQueued, handlerFrame, MayQueue
<1>8. StopInv'
  BY <1>1 DEF TurnInv, StopInv, RetryQueued, handlerFrame, Live, Raised
<1> QED BY <1>2, <1>5, <1>7, <1>8 DEF TurnParts

LEMMA TurnStepKeeps ==
  ASSUME TurnInv, TurnStep
  PROVE  TurnParts'
BY TurnUntouched, LetGoKeeps, StartKeeps, QueueKeeps DEF TurnStep, TurnParts, TurnInv

\* A routed retry is queued behind the live run, or leaves the turn alone.
LEMMA EnqueueTurn ==
  ASSUME TurnInv, NEW r, NEW tok \in Token, Enqueue(r, tok), Live(runTask),
         UNCHANGED <<handlerFrame, runTask, phase, tscope, scope, window>>
  PROVE  TurnStep
<1>1. fsm = "RUNNING" /\ fsm' = TryTransition(fsm, "RETRY_REQUESTED")
  BY DEF Enqueue, MayQueue
<1>2. fsm' = "PENDING_RETRY"
  BY <1>1, TableOfTurns DEF EngineStates
<1> QED BY <1>2 DEF Enqueue, RetryQueued, TurnStep

LEMMA RouteTurn ==
  ASSUME TurnInv, NEW r, NEW tok \in Token, RouteRetry(r, tok),
         UNCHANGED <<handlerFrame, runTask, phase, tscope, scope, window>>
  PROVE  TurnStep
<1>1. CASE running /\ Enqueue(r, tok)
  <2>1. Live(runTask)
    BY <1>1 DEF TurnInv, RunInv
  <2> QED BY <1>1, <2>1, EnqueueTurn
<1>2. CASE UNCHANGED <<fsm, pending>>
  BY <1>2 DEF TurnStep, turnState, handlerFrame
<1> QED BY <1>1, <1>2 DEF RouteRetry

LEMMA HandlerTurn ==
  ASSUME TurnInv, NEW h \in Handlers, HandlerStep(h) \/ HandlerChoice(h)
  PROVE  TurnStep
<1> USE DEF turnState, handlerFrame, engineVars, clockVars, runVars, executorVars, scopeVars, retryVars,
            boundaryVars, stopVars
<1>1. CASE NotReady(h) \/ FenceOpened(h) \/ AdmissionsIdle(h) \/ WaitFails(h) \/ Submit(h)
  BY <1>1 DEF TurnStep, NotReady, FenceOpened, AdmissionsIdle, WaitFails, Submit
<1>2. CASE \/ MessageFenced(h) \/ MessageForActiveRun(h) \/ MessageWaitsForRun(h)
           \/ MessageReserves(h) \/ RunWaited(h)
  BY <1>2 DEF TurnStep, MessageFenced, MessageForActiveRun, MessageWaitsForRun, MessageReserves, RunWaited
<1>3. CASE MessageConflict(h) \/ MessageRejected(h) \/ InjectionAbandoned(h)
  BY <1>3 DEF TurnStep, MessageConflict, MessageRejected, InjectionAbandoned
<1>4. CASE InjectionCommits(h) \/ InjectionPublished(h)
  BY <1>4 DEF TurnStep, InjectionCommits, InjectionPublished
<1>5. CASE RetryFenced(h) \/ RetryWaitsForPrompt(h) \/ RetryRefused(h) \/ RetryNotStarted(h)
  BY <1>5 DEF TurnStep, RetryFenced, RetryWaitsForPrompt, RetryRefused, RetryNotStarted
<1>6. CASE NoteReserves(h) \/ NoteRefused(h)
  BY <1>6 DEF TurnStep, NoteReserves, NoteRefused
<1>7. CASE MessageStale(h)
  <2>1. CASE OwnerIsCurrent(token[h])
    BY <1>7, <2>1 DEF MessageStale, FreshConflict, TurnLetGo, TurnStep
  <2>2. CASE ~OwnerIsCurrent(token[h])
    BY <1>7, <2>2 DEF MessageStale, TurnStep
  <2> QED BY <2>1, <2>2
<1>8. CASE MessageStarts(h)
  <2> DEFINE sc == NewScope(token[h])
  <2>1. token[h] \in Token /\ nextRun \in Nat
    BY <1>8 DEF MessageStarts, TurnInv, Typed, TokenKept, TypeOK, ScopeTypes
  <2>2. sc \in Scope /\ sc.sgen = sessionGen /\ sc.bgen = buildGen
    BY <1>8, <2>1 DEF MessageStarts, NewScope, Token, Scope, OwnerIsCurrent
  <2>3. /\ fsm' = "RUNNING" \/ (fsm = "UNINITIALIZED" /\ fsm' = fsm)
        /\ fsm \notin {"SHUTTING_DOWN", "AWAITING_SUB_AGENTS"}
    BY <1>8, TableOfTurns DEF MessageStarts, FreshConflict, AcceptsFreshPrompt, TurnInv, Typed, TypeOK,
       EngineTypes
  <2>4. ~shuttingDown
    BY <2>3 DEF TurnInv, FenceInv
  <2>5. TurnStarted(sc)
    BY <1>8, <2>2, <2>3, <2>4 DEF MessageStarts, FreshConflict, TurnStarted
  <2> QED BY <2>5 DEF TurnStep
<1>9. CASE RetryStarts(h)
  <2> DEFINE sc == RetryScope(token[h])
  <2>1. token[h] \in Token /\ nextRun \in Nat /\ h \in active
    BY <1>9 DEF RetryStarts, RetryWaitOver, TurnInv, Typed, TokenKept, TypeOK, ScopeTypes, AdmissionInv,
       Reserved
  <2>2. sc \in Scope /\ sc.sgen = sessionGen /\ sc.bgen = buildGen
    BY <1>9, <2>1 DEF RetryStarts, RetryScope, NewScope, Token, Scope, OwnerIsCurrent, TurnInv, Typed, TypeOK,
       ScopeTypes
  <2>3. fsm \in {"INTERRUPTED", "FAILED", "RUNNING"} /\ ~shuttingDown
    BY <1>9 DEF RetryStarts, MayClaim, MayBeValid
  <2>4. fsm' = "RUNNING"
    BY <1>9, <2>3, TableOfTurns DEF RetryStarts, EngineStates
  <2>5. TurnStarted(sc)
    BY <1>9, <2>1, <2>2, <2>3, <2>4 DEF RetryStarts, TurnStarted
  <2> QED BY <2>5 DEF TurnStep
<1>10. CASE RetryRouted(h)
  <2>1. NextToken \in Token
    BY DEF TurnInv, Typed, TypeOK, EngineTypes, HandlerTypes, Token, NextToken
  <2> QED BY <1>10, <2>1, RouteTurn DEF RetryRouted
<1>11. CASE NoteRouted(h)
  <2>1. token[h] \in Token
    BY <1>11 DEF NoteRouted, TurnInv, Typed, TokenKept
  <2> QED BY <1>11, <2>1, RouteTurn DEF NoteRouted
<1>12. CASE NoteCommits(h)
  <2>1. token[h] \in Token
    BY <1>12 DEF NoteCommits, TurnInv, Typed, TokenKept
  <2>2. \/ Enqueue(h, token[h]) /\ Live(runTask)
        \/ RouteRetry(h, token[h])
        \/ UNCHANGED <<fsm, pending>>
    BY <1>12 DEF NoteCommits, NoteQueues
  <2> QED BY <1>12, <2>1, <2>2, RouteTurn, EnqueueTurn DEF NoteCommits, TurnStep
<1> QED BY <1>1, <1>2, <1>3, <1>4, <1>5, <1>6, <1>7, <1>8, <1>9, <1>10, <1>11, <1>12
        DEF HandlerStep, HandlerChoice, PromptStep, RetryStep

-----------------------------------------------------------------------------
(* A handler keeps the invariant.                                          *)

LEMMA HandlerKeeps ==
  ASSUME TurnInv, NEW h \in Handlers, HandlerStep(h) \/ HandlerChoice(h)
  PROVE  FenceInv' /\ QuietInv' /\ AdmissionInv' /\ TurnParts'
<1>1. OwnAdmission(h) /\ UNCHANGED boundaryState
  BY HandlerAdmission DEF TurnInv
<1>2. TurnStep
  BY HandlerTurn
<1>3. AdmissionInv'
  BY <1>1, AdmissionKept
<1>4. TurnParts'
  BY <1>2, TurnStepKeeps
<1>5. fsm' = "SHUTTING_DOWN" <=> fsm = "SHUTTING_DOWN"
  BY <1>2 DEF TurnStep, turnState, TurnLetGo, TurnStarted, RetryQueued, TurnInv, FenceInv, MayQueue
<1>6. FenceInv'
  <2>1. CASE UNCHANGED <<runTask, phase>>
    BY <1>1, <1>5, <2>1 DEF TurnInv, FenceInv, boundaryState, Raised
  <2>2. CASE \E sc : TurnStarted(sc)
    BY <1>1, <1>5, <2>2 DEF TurnInv, FenceInv, boundaryState, TurnStarted
  <2> QED BY <1>2, <2>1, <2>2 DEF TurnStep, turnState, TurnLetGo, RetryQueued
<1>7. QuietInv'
  <2> SUFFICES ASSUME NEW b \in Boundaries, bpc[b] \notin Outside \cup Undecided
               PROVE  /\ active' = {}
                      /\ bpc[b] \in Rested => ~Live(runTask)' /\ ~Raised(runTask)'
                      /\ bpc[b] \in Cleared => pending' = None
                      /\ bpc[b] = "committed" => ~Live(runTask)' /\ window' = 0
                      /\ bpc[b] = "waitRun" =>
                           RollbackMayRun' /\ (Live(runTask)' => runTask' = captured[b].task)
    BY <1>1 DEF QuietInv, boundaryState, Outside, Undecided, Rested, Cleared
  <2>1. closeOwner = b /\ active = {}
    BY DEF TurnInv, FenceInv, QuietInv
  <2>2. b # None
    BY ConstantsAssumption DEF ConstantsAssumption
  <2>3. active' = {}
    <3>1. h \notin active'
      BY <1>1, <2>1, <2>2 DEF OwnAdmission, AdmissionLeft, AdmissionHeld, AdmissionTaken, Closed
    <3> QED BY <1>1, <2>1, <3>1 DEF OwnAdmission
  <2>4. /\ bpc[b] \in Rested => ~Live(runTask) /\ ~Raised(runTask)
        /\ bpc[b] \in Cleared => pending = None
        /\ bpc[b] = "committed" => ~Live(runTask) /\ window = 0
    BY DEF TurnInv, QuietInv
  <2>5. bpc[b] = "waitRun" => RollbackMayRun /\ (Live(runTask) => runTask = captured[b].task)
    BY DEF TurnInv, QuietInv
  <2>6. CASE UNCHANGED turnState \/ TurnLetGo
    BY <2>3, <2>4, <2>5, <2>6 DEF turnState, TurnLetGo, Live, Raised, RollbackMayRun
  <2>7. CASE \E sc : TurnStarted(sc)
    BY <2>1, <2>7 DEF TurnStarted
  <2>8. CASE \E tok : RetryQueued(tok)
    BY <2>3, <2>4, <2>5, <2>8 DEF RetryQueued, MayQueue, RollbackMayRun, Rested, Cleared
  <2> QED BY <1>2, <2>6, <2>7, <2>8 DEF TurnStep
<1> QED BY <1>3, <1>4, <1>6, <1>7

-----------------------------------------------------------------------------
(* The run, and the stops.  They leave boundaries and admission alone.      *)

admissionState == <<pc, token, active, loading, closeOwner, gate, bpc, captured, sessionGen, buildGen, shuttingDown>>

LEMMA AdmissionUntouched ==
  ASSUME TurnInv, UNCHANGED admissionState, fsm' = "SHUTTING_DOWN" <=> fsm = "SHUTTING_DOWN",
         Raised(runTask) => Raised(runTask)'
  PROVE  FenceInv' /\ AdmissionInv'
BY DEF TurnInv, FenceInv, AdmissionInv, admissionState, OwnerIsCurrent

\* While a boundary waits for the run, the state is terminal and the run the same.
LEMMA QuietUntouched ==
  ASSUME TurnInv, UNCHANGED admissionState, pending' = pending \/ pending' = None,
         Live(runTask)' => Live(runTask) /\ (runTask' = runTask \/ ~RollbackMayRun),
         RollbackMayRun /\ Live(runTask) => RollbackMayRun' /\ runTask' = runTask,
         fsm' = fsm \/ Live(runTask) \/ ~RollbackMayRun, window' = window \/ Live(runTask),
         Raised(runTask)' => Raised(runTask) \/ Live(runTask)
  PROVE  QuietInv'
BY DEF TurnInv, QuietInv, admissionState, RollbackMayRun, Rested, Cleared

LEMMA RunKeeps ==
  ASSUME TurnInv, NEW t \in Tasks, RunStep(t) \/ RunRaises(t)
  PROVE  FenceInv' /\ QuietInv' /\ AdmissionInv' /\ TurnParts'
<1> USE DEF engineVars, clockVars, admissionVars, handlerVars, boundaryVars, scopeVars, retryVars, stopVars
<1>1. t = runTask /\ Live(runTask) /\ t # 0
  BY DEF RunStep, RunEntersExecutor, ExecutorReturns, RunReachesTerminal, RunDispatchesRetry, RunEnds,
         RunRaises, TurnInv, SingleLiveRun, Live, LivePhases, Tasks
<1>2. /\ scope # None /\ scope = tscope[t] /\ scope.bgen = buildGen
      /\ scope.sgen = sessionGen \/ shuttingDown
      /\ phase[t] # "save" => IsRunning(fsm) \/ fsm \in {"UNINITIALIZED", "SHUTTING_DOWN"}
      /\ window # 0 => window = t /\ phase[t] \in {"pre", "exec"} /\ ~shuttingDown
      /\ running <=> phase[t] = "exec"
      /\ shuttingDown <=> fsm = "SHUTTING_DOWN"
  BY <1>1 DEF TurnInv, RunInv, FenceInv, Live, LivePhases
<1>3. /\ fsm # "SHUTTING_DOWN" => (paused # {} <=> fsm = "AWAITING_SUB_AGENTS")
      /\ fsm = "PENDING_RETRY" \/ (fsm = "RUNNING" /\ phase[t] = "save") => RetryIsWanted
      /\ fsm = "AWAITING_SUB_AGENTS" => phase[t] # "save"
  BY <1>1 DEF TurnInv, StateInv
<1>4. \A u \in preInterrupt : /\ u \in Tasks
                              /\ \/ shuttingDown
                                 \/ u = t /\ u \in asked /\ phase[u] # "exec"
                                 \/ u # t /\ u \in asked /\ Raised(u)
  BY <1>1 DEF TurnInv, StopInv, SingleLiveRun, Typed, TypeOK, StopTypes, Live, Raised, LivePhases
<1>r. ~Raised(runTask)
  BY <1>1 DEF Live, Raised, LivePhases
<1>l. /\ \A u \in Tasks \ {t} : Raised(u) => u # lastTask + 1
      /\ pending # None => shuttingDown \/ LeftBehind \/ pending.run = scope.run
  BY <1>1, NextIsUnborn DEF TurnInv, RetryInv
<1>5. /\ fsm \in EngineStates /\ phase \in [Tasks -> Phases] /\ tscope \in [Tasks -> Scope \cup {None}]
      /\ lastTask \in Nat /\ result \in Results
  BY ConstantsAssumption DEF TurnInv, Typed, TypeOK, EngineTypes, RunTypes, ConstantsAssumption
<1>6. CASE RunEntersExecutor(t)
  <2>1. /\ phase'[t] \in {"post", "exec"} /\ runTask' = runTask /\ fsm' = fsm /\ Live(runTask)'
        /\ running' <=> phase'[t] = "exec"
        /\ window' = (IF phase'[t] = "exec" THEN window ELSE 0)
    BY <1>1, <1>2, <1>5, <1>6 DEF RunEntersExecutor, CloseWindow, Live, LivePhases
  <2>2. RunInv'
    BY <1>1, <1>2, <1>5, <1>6, <2>1 DEF RunEntersExecutor, RunInv
  <2>3. StateInv'
    BY <1>1, <1>3, <1>6, <2>1 DEF RunEntersExecutor, StateInv, RetryIsWanted, RunGeneration
  <2>r. \A u \in Tasks : Raised(u) => Raised(u)' /\ tscope'[u] = tscope[u]
    BY <1>5, <1>6 DEF RunEntersExecutor, Raised
  <2>4. RetryInv'
    <3>1. LeftBehind => LeftBehind'
      BY <1>6, <2>r DEF RunEntersExecutor, LeftBehind
    <3> QED BY <1>1, <1>6, <2>1, <3>1 DEF TurnInv, RunEntersExecutor, RetryInv
  <2>5. StopInv'
    <3>1. \A u \in preInterrupt' : shuttingDown \/ (u \in asked /\ Raised(u)')
      BY <1>4, <1>6, <2>r DEF RunEntersExecutor, StoppedBeforeStart
    <3> QED BY <1>6, <3>1 DEF TurnInv, RunEntersExecutor, StopInv
  <2>6. FenceInv' /\ AdmissionInv'
    BY <1>6, <1>r, AdmissionUntouched DEF RunEntersExecutor, admissionState
  <2>7. QuietInv'
    BY <1>1, <1>6, <2>1, QuietUntouched DEF RunEntersExecutor, admissionState, RollbackMayRun
  <2> QED BY <2>2, <2>3, <2>4, <2>5, <2>6, <2>7 DEF TurnParts
<1>7. CASE ExecutorReturns(t)
  <2>1. /\ phase'[t] = "post" /\ runTask' = runTask /\ fsm' = fsm /\ Live(runTask)' /\ ~running'
        /\ window' = 0 /\ phase[t] = "exec"
    BY <1>1, <1>2, <1>5, <1>7 DEF ExecutorReturns, CloseWindow, Live, LivePhases
  <2>2. RunInv'
    BY <1>1, <1>2, <1>5, <1>7, <2>1 DEF ExecutorReturns, RunInv
  <2>3. StateInv'
    BY <1>1, <1>3, <1>7, <2>1 DEF ExecutorReturns, StateInv, RetryIsWanted, RunGeneration
  <2>r. \A u \in Tasks : Raised(u) => Raised(u)' /\ tscope'[u] = tscope[u]
    BY <1>5, <1>7 DEF ExecutorReturns, Raised
  <2>4. RetryInv'
    <3>1. LeftBehind => LeftBehind'
      BY <1>7, <2>r DEF ExecutorReturns, LeftBehind
    <3> QED BY <1>1, <1>7, <2>1, <3>1 DEF TurnInv, ExecutorReturns, RetryInv
  <2>5. StopInv'
    <3>1. \A u \in preInterrupt' : shuttingDown \/ (u \in asked /\ Raised(u)')
      BY <1>4, <1>7, <2>1, <2>r DEF ExecutorReturns
    <3> QED BY <1>7, <2>1, <3>1 DEF TurnInv, ExecutorReturns, StopInv
  <2>6. FenceInv' /\ AdmissionInv'
    BY <1>7, <1>r, AdmissionUntouched DEF ExecutorReturns, admissionState
  <2>7. QuietInv'
    BY <1>1, <1>7, <2>1, QuietUntouched DEF ExecutorReturns, admissionState, RollbackMayRun
  <2> QED BY <2>2, <2>3, <2>4, <2>5, <2>6, <2>7 DEF TurnParts
<1>8. CASE RunReachesTerminal(t)
  <2>1. /\ phase'[t] = "save" /\ runTask' = runTask /\ Live(runTask)' /\ phase[t] = "post"
    BY <1>1, <1>5, <1>8 DEF RunReachesTerminal, Live, LivePhases
  <2>2. /\ fsm' = "RUNNING" => fsm = "PENDING_RETRY"
        /\ fsm' \notin {"PENDING_RETRY", "AWAITING_SUB_AGENTS"}
        /\ fsm' = "SHUTTING_DOWN" <=> fsm = "SHUTTING_DOWN"
    <3>1. result = "interrupted" \/ result = "failed" \/ result = "ok"
      BY <1>5 DEF Results
    <3>2. \/ fsm' = TryTransition(fsm, "RUN_INTERRUPTED")
          \/ fsm' = TryTransition(fsm, "RUN_FAILED")
          \/ fsm' = TryTransition(fsm, "RUN_COMPLETED")
      BY <1>8, <3>1 DEF RunReachesTerminal
    <3> QED BY <1>5, <3>2, TableOfEnds
  <2>3. RunInv'
    BY <1>1, <1>2, <1>8, <2>1, <2>2 DEF RunReachesTerminal, executorVars, RunInv
  <2>4. StateInv'
    BY <1>1, <1>3, <1>8, <2>1, <2>2 DEF RunReachesTerminal, StateInv, RetryIsWanted, RunGeneration
  <2>r. \A u \in Tasks : Raised(u) => Raised(u)' /\ tscope'[u] = tscope[u]
    BY <1>5, <1>8 DEF RunReachesTerminal, Raised
  <2>5. RetryInv'
    <3>1. LeftBehind => LeftBehind'
      BY <1>8, <2>r DEF RunReachesTerminal, LeftBehind
    <3> QED BY <1>8, <1>1, <2>1, <3>1 DEF TurnInv, RunReachesTerminal, RetryInv
  <2>6. StopInv'
    <3>1. UNCHANGED <<running, stopFlag, preInterrupt, asked, stopTask, shuttingDown>>
      BY <1>8 DEF RunReachesTerminal, executorVars
    <3>2. \A u \in preInterrupt : shuttingDown \/ (u \in asked /\ (Raised(u)' \/ u = t))
      BY <1>4, <2>r
    <3> QED BY <1>1, <2>1, <3>1, <3>2 DEF TurnInv, StopInv
  <2>7. FenceInv' /\ AdmissionInv'
    BY <1>8, <1>r, <2>2, AdmissionUntouched DEF RunReachesTerminal, admissionState
  <2>8. QuietInv'
    BY <1>1, <1>2, <1>8, <2>1, QuietUntouched DEF RunReachesTerminal, admissionState, RollbackMayRun, IsRunning
  <2> QED BY <2>3, <2>4, <2>5, <2>6, <2>7, <2>8 DEF TurnParts
<1>9. CASE RunDispatchesRetry(t)
  <2>1. /\ fsm = "RUNNING" /\ fsm' = fsm /\ ~shuttingDown /\ phase[t] = "save"
        /\ scope.sgen = sessionGen /\ paused = {}
    BY <1>2, <1>3, <1>9 DEF RunDispatchesRetry, RetryIsDue
  <2>2. runTask' = lastTask + 1 /\ lastTask + 1 \in Tasks /\ lastTask + 1 # 0
    BY <1>5, <1>9, ConstantsAssumption DEF RunDispatchesRetry, Tasks, ConstantsAssumption
  <2>3. /\ phase'[runTask'] = "pre" /\ tscope'[runTask'] = scope /\ window' = runTask'
    BY <1>2, <1>5, <1>9, <2>1, <2>2 DEF RunDispatchesRetry
  <2>4. Live(runTask)'
    BY <2>2, <2>3 DEF Live, LivePhases
  <2>5. RunInv'
    BY <1>2, <1>9, <2>1, <2>2, <2>3, <2>4 DEF RunDispatchesRetry, RunInv, IsRunning
  <2>6. StateInv'
    BY <1>9, <2>1, <2>3, <2>4 DEF RunDispatchesRetry, StateInv
  <2>7. RetryInv'
    BY <1>9 DEF TurnInv, RunDispatchesRetry, DropQueuedRetry, RetryInv
  <2>8. StopInv'
    <3>1. \A u \in preInterrupt' : u \in Tasks \ {t} /\ u \in asked /\ Raised(u)
      BY <1>1, <1>4, <1>9, <2>1 DEF RunDispatchesRetry
    <3>2. \A u \in preInterrupt' : u \in asked /\ Raised(u)'
      BY <1>5, <1>9, <1>l, <3>1 DEF RunDispatchesRetry, Raised
    <3>3. ~stopFlag'
      BY <1>2, <1>9, <2>1 DEF TurnInv, RunDispatchesRetry, StopInv
    <3> QED BY <1>9, <3>2, <3>3 DEF TurnInv, RunDispatchesRetry, StopInv
  <2>9. FenceInv' /\ AdmissionInv'
    BY <1>9, <1>r, AdmissionUntouched DEF RunDispatchesRetry, admissionState
  <2>10. QuietInv'
    BY <1>1, <1>9, <2>1, QuietUntouched DEF RunDispatchesRetry, DropQueuedRetry, admissionState, RollbackMayRun
  <2> QED BY <2>5, <2>6, <2>7, <2>8, <2>9, <2>10 DEF TurnParts
<1>10. CASE RunEnds(t)
  <2>1. /\ phase'[t] = "done" /\ phase[t] = "save" /\ runTask' = runTask /\ fsm' = fsm /\ ~Live(runTask)'
        /\ ~running /\ window = 0
    BY <1>1, <1>2, <1>5, <1>10 DEF RunEnds, Live, LivePhases
  <2>2. fsm \notin {"RUNNING", "AWAITING_SUB_AGENTS"}
    BY <1>2, <1>3, <1>10, <2>1 DEF RunEnds, RetryIsDue
  <2>3. RunInv'
    BY <1>10, <2>1 DEF RunEnds, RunInv
  <2>4. StateInv'
    BY <1>3, <1>10, <2>1, <2>2 DEF RunEnds, StateInv
  <2>5. RetryInv'
    BY <1>10 DEF TurnInv, RunEnds, DropQueuedRetry, RetryInv
  <2>6. StopInv'
    <3>1. \A u \in preInterrupt' : shuttingDown \/ (u \in asked /\ Raised(u)')
      BY <1>1, <1>4, <1>5, <1>10 DEF RunEnds, Raised
    <3>2. ~stopFlag'
      BY <1>10, <2>1 DEF TurnInv, RunEnds, StopInv
    <3> QED BY <1>10, <3>1, <3>2 DEF TurnInv, RunEnds, StopInv
  <2>7. FenceInv' /\ AdmissionInv'
    BY <1>10, <1>r, AdmissionUntouched DEF RunEnds, admissionState
  <2>8. QuietInv'
    BY <1>1, <1>10, <2>1, QuietUntouched DEF RunEnds, DropQueuedRetry, admissionState, RollbackMayRun
  <2> QED BY <2>3, <2>4, <2>5, <2>6, <2>7, <2>8 DEF TurnParts
<1>11. CASE RunRaises(t)
  <2>1. /\ phase'[t] = "raised" /\ runTask' = runTask /\ fsm' = fsm /\ phase[t] # "exec" /\ ~running
        /\ scope' = scope /\ tscope' = tscope /\ window' = window /\ pending' = pending
        /\ UNCHANGED <<paused, running, stopFlag, preInterrupt, asked, stopTask, shuttingDown>>
    BY <1>2, <1>5, <1>11 DEF RunRaises, executorVars
  <2>2. ~Live(runTask)' /\ Raised(runTask)'
    BY <1>1, <2>1 DEF Live, Raised, LivePhases
  <2>r. \A u \in Tasks : Raised(u) => Raised(u)'
    BY <1>5, <1>11 DEF RunRaises, Raised
  <2>3. RunInv'
    BY <1>1, <1>2, <2>1, <2>2 DEF RunInv
  <2>4. StateInv'
    BY <1>1, <1>3, <2>1, <2>2 DEF StateInv
  <2>5. RetryInv'
    <3>1. pending # None => shuttingDown \/ LeftBehind'
      <4>1. LeftBehind => LeftBehind'
        BY <2>1, <2>r DEF LeftBehind
      <4>2. pending # None /\ pending.run = scope.run => LeftBehind'
        BY <1>1, <1>2, <2>1, <2>2 DEF LeftBehind
      <4> QED BY <1>l, <4>1, <4>2
    <3> QED BY <1>11, <2>1, <2>2, <3>1 DEF TurnInv, RunRaises, RetryInv
  <2>6. StopInv'
    <3>1. \A u \in preInterrupt : shuttingDown \/ (u \in asked /\ Raised(u)')
      BY <1>1, <1>4, <2>1, <2>2, <2>r
    <3> QED BY <2>1, <3>1 DEF TurnInv, StopInv
  <2>7. FenceInv' /\ AdmissionInv'
    BY <1>11, <1>r, AdmissionUntouched DEF RunRaises, admissionState
  <2>8. QuietInv'
    BY <1>1, <1>11, <2>1, <2>2, QuietUntouched DEF RunRaises, admissionState, RollbackMayRun
  <2> QED BY <2>3, <2>4, <2>5, <2>6, <2>7, <2>8 DEF TurnParts
<1> QED BY <1>6, <1>7, <1>8, <1>9, <1>10, <1>11 DEF RunStep

\* Pauses, decisions and stops.
LEMMA StopKeeps ==
  ASSUME TurnInv, (\E a \in SubAgents : SubAgentPauses(a) \/ SubAgentResolves(a)) \/ StopRequested \/ StopLands
  PROVE  FenceInv' /\ QuietInv' /\ AdmissionInv' /\ TurnParts'
<1> USE DEF engineVars, clockVars, admissionVars, handlerVars, boundaryVars, scopeVars, retryVars, runVars
<1>0. fsm \in EngineStates /\ paused \subseteq SubAgents /\ running \in BOOLEAN /\ runTask \in Nat
  BY ConstantsAssumption DEF TurnInv, Typed, TypeOK, EngineTypes, StopTypes, RunTypes, ConstantsAssumption
<1>1. ASSUME NEW a \in SubAgents, SubAgentPauses(a) PROVE FenceInv' /\ QuietInv' /\ AdmissionInv' /\ TurnParts'
  <2>1. Live(runTask) /\ phase[runTask] = "exec" /\ IsRunning(fsm) /\ fsm' = "AWAITING_SUB_AGENTS"
    BY <1>0, <1>1, TableOfTurns DEF TurnInv, RunInv, StateInv, SubAgentPauses, IsRunning
  <2>2. RunInv' /\ StateInv' /\ RetryInv'
    BY <1>1, <2>1 DEF TurnInv, SubAgentPauses, RunInv, StateInv, RetryInv, LeftBehind, IsRunning, Live, Raised, executorVars
  <2>3. StopInv'
    BY <1>1 DEF TurnInv, SubAgentPauses, StopInv, Live, Raised, executorVars, stopVars
  <2>4. FenceInv' /\ AdmissionInv'
    BY <1>1, <2>1, AdmissionUntouched DEF SubAgentPauses, admissionState, IsRunning, Raised
  <2>5. QuietInv'
    BY <1>1, <2>1, QuietUntouched DEF SubAgentPauses, admissionState, IsRunning, RollbackMayRun, Live, Raised
  <2> QED BY <2>2, <2>3, <2>4, <2>5 DEF TurnParts
<1>2. ASSUME NEW a \in SubAgents, SubAgentResolves(a) PROVE FenceInv' /\ QuietInv' /\ AdmissionInv' /\ TurnParts'
  <2>1. \/ fsm' = fsm /\ (fsm # "SHUTTING_DOWN" => paused' # {})
        \/ fsm = "AWAITING_SUB_AGENTS" /\ fsm' = "RUNNING" /\ paused' = {}
    BY <1>0, <1>2, TableOfTurns DEF TurnInv, StateInv, SubAgentResolves, IsLastPaused
  <2>2. RunInv'
    BY <1>2, <2>1 DEF TurnInv, SubAgentResolves, RunInv, IsRunning, Live, Raised, executorVars
  <2>3. StateInv' /\ RetryInv'
    BY <1>2, <2>1 DEF TurnInv, SubAgentResolves, StateInv, RetryInv, LeftBehind, Live, Raised, RetryIsWanted, RunGeneration
  <2>4. StopInv'
    BY <1>2 DEF TurnInv, SubAgentResolves, StopInv, Live, Raised, executorVars, stopVars
  <2>5. FenceInv' /\ AdmissionInv'
    BY <1>2, <2>1, AdmissionUntouched DEF SubAgentResolves, admissionState, Raised
  <2>6. QuietInv'
    BY <1>2, <2>1, QuietUntouched DEF TurnInv, StateInv, SubAgentResolves, admissionState, RollbackMayRun, Live, Raised
  <2> QED BY <2>2, <2>3, <2>4, <2>5, <2>6 DEF TurnParts
<1>3. CASE StopRequested
  <2>1. RunInv' /\ StateInv' /\ RetryInv'
    BY <1>3 DEF TurnInv, StopRequested, RunInv, StateInv, RetryInv, LeftBehind, Live, Raised, RetryIsWanted, RunGeneration
  <2>2. StopInv'
    BY <1>3 DEF TurnInv, StopRequested, StopInv, RunInv, Live, Raised
  <2>3. FenceInv' /\ AdmissionInv'
    BY <1>3, AdmissionUntouched DEF StopRequested, admissionState, Raised
  <2>4. QuietInv'
    BY <1>3, QuietUntouched DEF StopRequested, admissionState, RollbackMayRun, Live, Raised
  <2> QED BY <2>1, <2>2, <2>3, <2>4 DEF TurnParts
<1>4. CASE StopLands
  <2>1. \/ fsm' = fsm /\ (paused' = paused \/ (fsm # "AWAITING_SUB_AGENTS" /\ paused' = {}))
        \/ fsm = "AWAITING_SUB_AGENTS" /\ fsm' = "RUNNING" /\ paused' = {}
    BY <1>0, <1>4, TableOfTurns DEF TurnInv, StateInv, StopLands
  <2>2. RunInv'
    BY <1>4, <2>1 DEF TurnInv, StopLands, RunInv, IsRunning, Live, Raised
  <2>3. StateInv' /\ RetryInv'
    BY <1>4, <2>1 DEF TurnInv, StopLands, StateInv, RetryInv, LeftBehind, Live, Raised, RetryIsWanted, RunGeneration
  <2>4. StopInv'
    BY <1>4 DEF TurnInv, StopLands, StopIsCurrent, StopInv, RunInv, Live, Raised
  <2>5. FenceInv' /\ AdmissionInv'
    BY <1>4, <2>1, AdmissionUntouched DEF StopLands, admissionState, Raised
  <2>6. QuietInv'
    BY <1>4, <2>1, QuietUntouched DEF TurnInv, StateInv, StopLands, admissionState, RollbackMayRun, Live, Raised
  <2> QED BY <2>2, <2>3, <2>4, <2>5, <2>6 DEF TurnParts
<1> QED BY <1>1, <1>2, <1>3, <1>4

-----------------------------------------------------------------------------
(* The boundaries.  Inside the gate there is one, and every other is        *)
(* outside; so each step is about the one that takes it.                    *)

LEMMA OneInside ==
  ASSUME TurnInv, NEW b \in Boundaries, bpc[b] \notin Outside
  PROVE  /\ gate = b /\ closeOwner = b
         /\ \A c \in Boundaries \ {b} : bpc[c] \in Outside
BY DEF TurnInv, FenceInv

LEMMA InsideFence ==
  ASSUME TurnInv, NEW b \in Boundaries, NEW step \in BoundaryPcs \ Outside,
         bpc[b] \notin Outside, Proceed(b, step), UNCHANGED <<gate, closeOwner>>,
         shuttingDown' <=> fsm' = "SHUTTING_DOWN", step \in Shutting => shuttingDown',
         shuttingDown' => step \in Shutting \/ Raised(runTask)',
         loading' => step = "loading"
  PROVE  FenceInv'
<1>1. \A c \in Boundaries : bpc'[c] = IF c = b THEN step ELSE bpc[c]
  BY DEF TurnInv, Typed, TypeOK, BoundaryTypes, Proceed
<1> QED BY <1>1, OneInside DEF FenceInv, Shutting, Outside

LEMMA InsideQuiet ==
  ASSUME TurnInv, NEW b \in Boundaries, NEW step \in BoundaryPcs \ Outside,
         bpc[b] \notin Outside, Proceed(b, step),
         step \notin Undecided => active' = {},
         step \in Rested => ~Live(runTask)' /\ ~Raised(runTask)',
         step \in Cleared => pending' = None,
         step = "committed" => ~Live(runTask)' /\ window' = 0,
         step = "waitRun" => RollbackMayRun' /\ (Live(runTask)' => runTask' = captured'[b].task)
  PROVE  QuietInv'
<1>1. \A c \in Boundaries : bpc'[c] = IF c = b THEN step ELSE bpc[c]
  BY DEF TurnInv, Typed, TypeOK, BoundaryTypes, Proceed
<1>2. \A c \in Boundaries \ {b} : bpc[c] \in Outside
  BY OneInside
<1> QED BY <1>1, <1>2 DEF QuietInv, Outside, Undecided, Rested, Cleared

\* Where the clocks go on, the admissions are gone.
LEMMA ClocksGoOn ==
  ASSUME TurnInv, active' = {}, UNCHANGED <<pc, token>>,
         \/ sessionGen' = sessionGen + 1 /\ buildGen' = buildGen
         \/ sessionGen' = sessionGen /\ buildGen' = buildGen + 1
  PROVE  AdmissionInv'
<1> SUFFICES ASSUME NEW h \in Handlers
             PROVE  /\ token[h] # None => token[h].sgen <= sessionGen' /\ token[h].bgen <= buildGen'
                    /\ pc[h] \in Reserved => ~(token[h].sgen = sessionGen' /\ token[h].bgen = buildGen')
  BY DEF AdmissionInv, OwnerIsCurrent
<1>1. /\ token[h] # None => token[h] \in Token /\ token[h].sgen <= sessionGen /\ token[h].bgen <= buildGen
      /\ sessionGen \in Nat /\ buildGen \in Nat
  BY DEF TurnInv, AdmissionInv, Typed, TypeOK, EngineTypes, HandlerTypes
<1>2. pc[h] \in Reserved => token[h] # None
  BY NoneAssumption DEF TurnInv, Typed, TokenKept, Reserved, NoneAssumption
<1> QED BY <1>1, <1>2 DEF Token

\* A boundary comes to the gate.
LEMMA BoundaryComes ==
  ASSUME TurnInv, NEW b \in Boundaries, BoundaryRequested(b) \/ BoundaryAcquires(b)
  PROVE  FenceInv' /\ QuietInv' /\ AdmissionInv' /\ TurnParts'
<1> USE DEF engineVars, admissionVars, handlerVars, runVars, executorVars, scopeVars, retryVars, stopVars
<1>1. UNCHANGED turnState /\ UNCHANGED <<pc, token, active, loading>>
  BY DEF BoundaryRequested, BoundaryAcquires, turnState
<1>2. TurnParts'
  BY <1>1, TurnUntouched DEF TurnInv, TurnParts
<1>3. AdmissionInv'
  BY <1>1 DEF TurnInv, AdmissionInv, OwnerIsCurrent, turnState
<1>4. bpc[b] \in {"new", "requested"}
  BY DEF BoundaryRequested, BoundaryAcquires
<1>5. \A c \in Boundaries \ {b} : bpc'[c] = bpc[c] /\ captured'[c] = captured[c]
  BY DEF TurnInv, Typed, TypeOK, BoundaryTypes, BoundaryRequested, BoundaryAcquires, Proceed
<1>6. CASE bpc'[b] \in Outside /\ UNCHANGED <<gate, closeOwner>>
  <2>1. FenceInv'
    BY <1>1, <1>4, <1>5, <1>6 DEF TurnInv, FenceInv, turnState, Outside, Shutting, Raised
  <2>2. QuietInv'
    BY <1>1, <1>4, <1>5, <1>6 DEF TurnInv, QuietInv, turnState, Outside, Undecided, Rested, Cleared, Live,
                                       Raised, RollbackMayRun
  <2> QED BY <1>2, <1>3, <2>1, <2>2
<1>7. CASE bpc'[b] = "fenced" /\ gate = None /\ gate' = b /\ closeOwner' = b
  <2>1. /\ None \notin Boundaries
        /\ \A c \in Boundaries : bpc[c] \in Outside
    BY <1>7, ConstantsAssumption DEF TurnInv, FenceInv, ConstantsAssumption
  <2>2. (shuttingDown => Raised(runTask)) /\ ~loading
    BY <1>7, <2>1 DEF TurnInv, FenceInv
  <2>3. FenceInv'
    BY <1>1, <1>5, <1>7, <2>1, <2>2 DEF TurnInv, FenceInv, turnState, Outside, Shutting, Raised
  <2>4. QuietInv'
    BY <1>5, <1>7, <2>1 DEF QuietInv, Outside, Undecided, Rested, Cleared
  <2> QED BY <1>2, <1>3, <2>3, <2>4
<1>8. \/ bpc'[b] \in Outside /\ UNCHANGED <<gate, closeOwner>>
      \/ bpc'[b] = "fenced" /\ gate = None /\ gate' = b /\ closeOwner' = b
  BY DEF TurnInv, Typed, TypeOK, BoundaryTypes, BoundaryRequested, BoundaryAcquires, Proceed, Outside
<1> QED BY <1>6, <1>7, <1>8

\* A boundary goes on, or leaves, with the turn as it is.
LEMMA BoundaryPasses ==
  ASSUME TurnInv, NEW b \in Boundaries,
         \/ AdmissionsDrained(b) \/ TransitionPrepares(b) \/ ClearDetaches(b) \/ TransitionFails(b)
         \/ RollbackCapturesRun(b) \/ RollbackFails(b)
         \/ RebuildCommitsIdle(b) \/ RebuildRunDrained(b) \/ RebuildValidates(b)
         \/ LoadBegins(b) \/ LoadFails(b) \/ BoundaryFinishes(b)
         \/ RollbackDecides(b) /\ Proceed(b, "finishing") /\ UNCHANGED <<sessionGen, active, window, retryVars>>
  PROVE  FenceInv' /\ QuietInv' /\ AdmissionInv' /\ TurnParts'
<1> USE DEF engineVars, admissionVars, handlerVars, runVars, executorVars, scopeVars, retryVars, stopVars
<1>1. UNCHANGED turnState /\ UNCHANGED <<pc, token, active>>
  <2>1. CASE AdmissionsDrained(b) \/ TransitionPrepares(b) \/ ClearDetaches(b) \/ TransitionFails(b)
    BY <2>1 DEF AdmissionsDrained, TransitionPrepares, ClearDetaches, TransitionFails, turnState
  <2>2. CASE RollbackCapturesRun(b) \/ RollbackFails(b) \/ LoadBegins(b) \/ LoadFails(b) \/ BoundaryFinishes(b)
    BY <2>2 DEF RollbackCapturesRun, RollbackFails, LoadBegins, LoadFails, BoundaryFinishes, turnState
  <2>3. CASE RebuildCommitsIdle(b) \/ RebuildRunDrained(b) \/ RebuildValidates(b)
    BY <2>3 DEF RebuildCommitsIdle, RebuildRunDrained, RebuildValidates, turnState
  <2>4. CASE RollbackDecides(b) /\ UNCHANGED <<sessionGen, active, window, retryVars>>
    BY <2>4 DEF RollbackDecides, turnState
  <2> QED BY <2>1, <2>2, <2>3, <2>4
<1>2. TurnParts'
  BY <1>1, TurnUntouched DEF TurnInv, TurnParts
<1>3. AdmissionInv'
  BY <1>1 DEF TurnInv, AdmissionInv, OwnerIsCurrent, turnState
<1>4. bpc[b] \notin Outside \cup Shutting
  BY DEF AdmissionsDrained, TransitionPrepares, ClearDetaches, TransitionFails, RollbackCapturesRun,
         RollbackFails, RebuildCommitsIdle, RebuildRunDrained, RebuildValidates, LoadBegins, LoadFails,
         BoundaryFinishes, RollbackDecides, Outside, Shutting
<1>5. /\ shuttingDown <=> fsm = "SHUTTING_DOWN"
      /\ shuttingDown => Raised(runTask)
      /\ loading => bpc[b] = "loading"
  BY <1>4, OneInside DEF TurnInv, FenceInv
<1>6. /\ bpc[b] \notin Undecided => active = {}
      /\ bpc[b] \in Rested => ~Live(runTask) /\ ~Raised(runTask)
      /\ bpc[b] \in Cleared => pending = None
  BY <1>4 DEF TurnInv, QuietInv
<1>7. ASSUME NEW step \in BoundaryPcs \ (Outside \cup Shutting), Proceed(b, step),
             UNCHANGED <<gate, closeOwner>>, loading' => step = "loading",
             step \notin Undecided => active = {},
             step \in Rested => ~Live(runTask) /\ ~Raised(runTask),
             step \in Cleared => pending = None, step # "committed",
             step = "waitRun" => RollbackMayRun /\ (Live(runTask) => runTask = captured'[b].task)
      PROVE  FenceInv' /\ QuietInv' /\ AdmissionInv' /\ TurnParts'
  <2>1. FenceInv'
    BY <1>1, <1>4, <1>5, <1>7, InsideFence DEF turnState, Raised
  <2>2. QuietInv'
    BY <1>1, <1>4, <1>7, InsideQuiet DEF turnState, Live, Raised, RollbackMayRun
  <2> QED BY <1>2, <1>3, <2>1, <2>2
<1> USE DEF BoundaryPcs, Outside, Undecided, Shutting, Rested, Cleared
<1>8. CASE AdmissionsDrained(b)
  BY <1>5, <1>7, <1>8 DEF AdmissionsDrained, AdmissionsAreIdle
<1>9. CASE TransitionPrepares(b)
  BY <1>5, <1>7, <1>9 DEF TransitionPrepares
<1>10. CASE ClearDetaches(b)
  BY <1>5, <1>7, <1>10 DEF ClearDetaches
<1>11. CASE TransitionFails(b)
  BY <1>5, <1>7, <1>11 DEF TransitionFails
<1>12. CASE RollbackCapturesRun(b)
  <2>1. captured'[b].task = runTask
    BY <1>12 DEF RollbackCapturesRun, TurnInv, Typed, TypeOK, BoundaryTypes, OwnerCaptured, OwnerClocks
  <2>2. active = {}
    BY <1>6, <1>12 DEF RollbackCapturesRun
  <2>3. Proceed(b, "finishing") \/ (Proceed(b, "waitRun") /\ RollbackMayRun)
    BY <1>12 DEF RollbackCapturesRun
  <2> QED BY <1>5, <1>7, <1>12, <2>1, <2>2, <2>3 DEF RollbackCapturesRun
<1>13. CASE RollbackFails(b)
  BY <1>5, <1>7, <1>13 DEF RollbackFails
<1>14. CASE RebuildCommitsIdle(b)
  BY <1>5, <1>6, <1>7, <1>14 DEF RebuildCommitsIdle
<1>15. CASE RebuildRunDrained(b)
  BY <1>5, <1>6, <1>7, <1>15 DEF RebuildRunDrained
<1>16. CASE RebuildValidates(b)
  <2>1. \/ Proceed(b, "finishing")
        \/ Proceed(b, "permit") /\ ~shuttingDown
    BY <1>16 DEF RebuildValidates, RebuildDenied
  <2>2. ~shuttingDown => pending = None
    BY <1>6, <1>16 DEF RebuildValidates, TurnInv, RetryInv
  <2> QED BY <1>5, <1>6, <1>7, <1>16, <2>1, <2>2 DEF RebuildValidates
<1>17. CASE LoadBegins(b)
  BY <1>6, <1>7, <1>17 DEF LoadBegins
<1>18. CASE LoadFails(b)
  BY <1>7, <1>18 DEF LoadFails
<1>19. CASE RollbackDecides(b) /\ Proceed(b, "finishing")
  BY <1>5, <1>7, <1>19 DEF RollbackDecides
<1>20. CASE BoundaryFinishes(b)
  <2>1. \A c \in Boundaries : bpc'[c] \in Outside
    BY <1>4, <1>20, OneInside DEF BoundaryFinishes, TurnInv, Typed, TypeOK, BoundaryTypes, Proceed
  <2>2. FenceInv'
    BY <1>1, <1>5, <1>20, <2>1 DEF BoundaryFinishes, TurnInv, FenceInv, turnState, Raised
  <2>3. QuietInv'
    BY <2>1 DEF QuietInv
  <2> QED BY <1>2, <1>3, <2>2, <2>3
<1> QED BY <1>8, <1>9, <1>10, <1>11, <1>12, <1>13, <1>14, <1>15, <1>16, <1>17, <1>18, <1>19, <1>20

\* A transition commits and begins to shut the engine down.
LEMMA TransitionChanges ==
  ASSUME TurnInv, NEW b \in Boundaries, TransitionCommits(b)
  PROVE  FenceInv' /\ QuietInv' /\ AdmissionInv' /\ TurnParts'
<1> USE DEF handlerVars, runVars, stopVars
<1>1. bpc[b] \in {"fenced", "deleting", "preparing"}
  BY DEF TransitionCommits
<1>2. ~loading
  BY <1>1, OneInside DEF TurnInv, FenceInv, Outside
<1>3. /\ fsm' = "SHUTTING_DOWN" /\ shuttingDown' /\ loading' = loading /\ active' = {}
      /\ Proceed(b, "draining") \/ Proceed(b, "quiet")
      /\ UNCHANGED <<gate, closeOwner>>
  BY TableOfBoundaries DEF TransitionCommits, CommitTransition, BeginShutdown, TurnInv, Typed, TypeOK, EngineTypes
<1>4. FenceInv'
  BY <1>1, <1>2, <1>3, InsideFence DEF BoundaryPcs, Outside, Shutting
<1>5. QuietInv'
  BY <1>1, <1>3, InsideQuiet DEF BoundaryPcs, Outside, Rested, Cleared
<1>6. AdmissionInv'
  BY <1>3, ClocksGoOn DEF TransitionCommits, CommitTransition
<1>7. UNCHANGED <<runTask, phase, tscope, scope, buildGen, running, paused, preInterrupt, asked, stopTask>>
  BY DEF TransitionCommits
<1>8. Live(runTask)' <=> Live(runTask)
  BY <1>7 DEF Live
<1>9. RunInv'
  BY <1>2, <1>3, <1>7, <1>8 DEF TurnInv, TransitionCommits, CommitTransition, RunInv
<1>10. StateInv'
  BY <1>3 DEF StateInv
<1>11. RetryInv'
  <2>1. sessionGen \in Nat /\ pending \in Queued \cup {None}
    BY DEF TurnInv, Typed, TypeOK, EngineTypes, ScopeTypes
  <2>2. disabledGen' = sessionGen /\ sessionGen' = sessionGen + 1
    BY DEF TransitionCommits, CommitTransition
  <2>3. pending # None => pending.sgen \in Nat /\ pending.sgen <= sessionGen
    BY <2>1 DEF TurnInv, RetryInv, Queued
  <2>4. pending' # None => pending # None /\ pending'.sgen = pending.sgen
    BY <2>1 DEF TransitionCommits, CommitTransition, Queued
  <2>5. disabledGen' < sessionGen'
    BY <2>1, <2>2
  <2>6. pending' # None => pending'.sgen <= sessionGen' /\ pending'.sgen # sessionGen'
    BY <2>1, <2>2, <2>3, <2>4
  <2>7. shuttingDown'
    BY <1>3
  <2> QED BY <2>5, <2>6, <2>7 DEF RetryInv
<1>12. StopInv'
  <2>1. stopFlag \in BOOLEAN /\ running \in BOOLEAN /\ (stopFlag => running)
    BY DEF TurnInv, StopInv, Typed, TypeOK, StopTypes
  <2>2. stopFlag' => running'
    BY <1>7, <2>1 DEF TransitionCommits, BeginShutdown
  <2> QED BY <1>3, <1>7, <2>2 DEF TurnInv, StopInv
<1> QED BY <1>4, <1>5, <1>6, <1>9, <1>10, <1>11, <1>12 DEF TurnParts

\* With no live run there is no pass and no flag; with none that raised, no window.
LEMMA NoRun ==
  ASSUME TurnInv, ~Live(runTask)
  PROVE  /\ ~running /\ ~stopFlag
         /\ ~Raised(runTask) => window = 0
<1>0. runTask = 0 \/ phase[runTask] \notin LivePhases
  BY DEF Live
<1>1. ~Raised(runTask) => window = 0
  BY <1>0 DEF TurnInv, RunInv, Raised, LivePhases
<1>2. ~running /\ ~stopFlag
  BY DEF TurnInv, RunInv, StopInv
<1> QED BY <1>1, <1>2

\* A rollback commits with its run quiet, and may then shut the engine down.
LEMMA RollbackChanges ==
  ASSUME TurnInv, NEW b \in Boundaries,
         \/ RollbackDecides(b) /\ CommitTransition /\ Proceed(b, "committed")
         \/ RollbackShutsDown(b)
  PROVE  FenceInv' /\ QuietInv' /\ AdmissionInv' /\ TurnParts'
<1> USE DEF handlerVars, runVars, stopVars, admissionVars, executorVars, retryVars, scopeVars
<1>1. bpc[b] \in {"waitRun", "committed"}
  BY DEF RollbackDecides, RollbackShutsDown
<1>2. /\ shuttingDown <=> fsm = "SHUTTING_DOWN"
      /\ shuttingDown => Raised(runTask)
      /\ ~loading /\ active = {}
  BY <1>1, OneInside DEF TurnInv, FenceInv, QuietInv, Outside, Shutting, Undecided
<1>3. ~Live(runTask)
  <2>1. CASE RollbackDecides(b)
    BY <2>1 DEF RollbackDecides, TurnInv, QuietInv
  <2>2. CASE RollbackShutsDown(b)
    BY <2>2 DEF RollbackShutsDown, TurnInv, QuietInv
  <2> QED BY <2>1, <2>2
<1>4. ~running /\ ~stopFlag
  BY <1>3, NoRun
<1>5. UNCHANGED <<runTask, phase, tscope, scope, running, preInterrupt, paused, asked, stopTask, gate, closeOwner, loading>>
  BY DEF RollbackDecides, RollbackShutsDown
<1>6. ~Live(runTask)' /\ \A t \in Tasks \cup {0} : Live(t)' = Live(t) /\ Raised(t)' = Raised(t)
  BY <1>3, <1>5 DEF Live, Raised
<1>q. Raised(runTask)' <=> Raised(runTask)
  BY <1>5 DEF Raised
<1>7. CASE RollbackDecides(b) /\ CommitTransition /\ Proceed(b, "committed")
  <2>1. /\ fsm' = fsm /\ shuttingDown' = shuttingDown /\ stopFlag' = stopFlag /\ buildGen' = buildGen
        /\ sessionGen' = sessionGen + 1 /\ active' = {} /\ window' = 0 /\ disabledGen' = sessionGen
        /\ UNCHANGED <<pc, token>>
    BY <1>7 DEF RollbackDecides, CommitTransition
  <2>2. FenceInv'
    BY <1>1, <1>2, <1>5, <1>7, <1>q, <2>1, InsideFence DEF BoundaryPcs, Outside, Shutting
  <2>3. QuietInv'
    BY <1>1, <1>6, <1>7, <2>1, InsideQuiet DEF BoundaryPcs, Outside, Rested, Cleared
  <2>4. AdmissionInv'
    BY <2>1, ClocksGoOn
  <2>5. RunInv' /\ StateInv'
    BY <1>3, <1>4, <1>5, <1>6, <1>q, <2>1 DEF TurnInv, RunInv, StateInv
  <2>6. StopInv'
    BY <1>4, <1>5, <1>6, <2>1 DEF TurnInv, StopInv, Typed, TypeOK, StopTypes
  <2>7. RetryInv'
    <3>1. sessionGen \in Nat /\ pending \in Queued \cup {None}
      BY DEF TurnInv, Typed, TypeOK, EngineTypes, ScopeTypes
    <3>2. pending' # None => pending # None /\ pending'.sgen = pending.sgen /\ pending'.run = pending.run
      BY <1>7, <3>1 DEF CommitTransition, Queued
    <3>3. pending # None => /\ pending.sgen \in Nat /\ pending.sgen <= sessionGen
                            /\ shuttingDown \/ Raised(runTask)
                            /\ shuttingDown \/ LeftBehind
      BY <1>3, <3>1 DEF TurnInv, RetryInv, Queued
    <3>4. pending' # None /\ LeftBehind => LeftBehind'
      BY <1>5, <1>6, <3>2 DEF LeftBehind
    <3>5. disabledGen' < sessionGen'
      BY <2>1, <3>1
    <3>6. pending' # None => pending'.sgen <= sessionGen' /\ pending'.sgen # sessionGen'
      BY <2>1, <3>1, <3>2, <3>3
    <3> QED BY <1>q, <2>1, <3>2, <3>3, <3>4, <3>5, <3>6 DEF RetryInv
  <2> QED BY <2>2, <2>3, <2>4, <2>5, <2>6, <2>7 DEF TurnParts
<1>8. CASE RollbackShutsDown(b)
  <2>w. window = 0
    BY <1>8 DEF RollbackShutsDown, TurnInv, QuietInv
  <2>1. /\ fsm' = "SHUTTING_DOWN" /\ shuttingDown' /\ ~stopFlag'
        /\ UNCHANGED <<sessionGen, buildGen, active, window, disabledGen, pending, pc, token>>
        /\ Proceed(b, "quiet")
    BY <1>3, <1>4, <1>8, TableOfBoundaries DEF RollbackShutsDown, BeginShutdown, TurnInv, Typed, TypeOK, EngineTypes
  <2>2. FenceInv'
    BY <1>1, <1>2, <1>5, <2>1, InsideFence DEF BoundaryPcs, Outside, Shutting
  <2>3. QuietInv'
    BY <1>1, <1>2, <2>1, InsideQuiet DEF BoundaryPcs, Outside, Rested, Cleared
  <2>4. AdmissionInv'
    BY <2>1 DEF TurnInv, AdmissionInv, OwnerIsCurrent
  <2>5. RunInv' /\ StateInv' /\ StopInv'
    BY <1>4, <1>5, <1>6, <2>w, <2>1 DEF TurnInv, RunInv, StateInv, StopInv
  <2>6. RetryInv'
    <3>1. pending # None => shuttingDown \/ Raised(runTask)
      BY <1>3 DEF TurnInv, RetryInv
    <3> QED BY <2>1, <3>1 DEF TurnInv, RetryInv
  <2> QED BY <2>2, <2>3, <2>4, <2>5, <2>6 DEF TurnParts
<1> QED BY <1>7, <1>8

\* The shutdown waits for the run, gives it up or sees it end, and tears down.
LEMMA ShutdownChanges ==
  ASSUME TurnInv, NEW b \in Boundaries,
         ShutdownTimesOut(b) \/ ShutdownObservesRun(b) \/ ShutdownRaises(b) \/ EngineTornDown(b)
  PROVE  FenceInv' /\ QuietInv' /\ AdmissionInv' /\ TurnParts'
<1> USE DEF engineVars, handlerVars, runVars, stopVars, admissionVars, executorVars, retryVars, scopeVars
<1>1. bpc[b] \in Shutting
  BY DEF ShutdownTimesOut, ShutdownObservesRun, ShutdownRaises, EngineTornDown, Shutting
<1>2. shuttingDown /\ fsm = "SHUTTING_DOWN" /\ ~loading /\ active = {}
  BY <1>1, OneInside DEF TurnInv, FenceInv, QuietInv, Outside, Shutting, Undecided
<1>3. window = 0
  BY <1>2 DEF TurnInv, RunInv
<1>4. active' = {} /\ UNCHANGED <<pc, token, sessionGen, buildGen, gate, closeOwner, loading, tscope, asked, stopTask, disabledGen>>
  BY <1>2 DEF ShutdownTimesOut, ShutdownObservesRun, ShutdownRaises, EngineTornDown
<1>5. AdmissionInv'
  BY <1>2, <1>4 DEF TurnInv, AdmissionInv, OwnerIsCurrent
<1>6. CASE ShutdownTimesOut(b)
  <2>1. /\ UNCHANGED <<fsm, shuttingDown, runTask, scope, window, running, paused, pending, preInterrupt>>
        /\ Proceed(b, "cancelling") /\ Live(runTask)
    BY <1>6 DEF ShutdownTimesOut
  <2>2. FenceInv'
    BY <1>1, <1>2, <1>4, <2>1, InsideFence DEF BoundaryPcs, Outside, Shutting
  <2>3. QuietInv'
    BY <1>1, <1>4, <2>1, InsideQuiet DEF BoundaryPcs, Outside, Shutting, Rested, Cleared
  <2>4. RunInv'
    <3>1. runTask \in Tasks
      BY <2>1, ConstantsAssumption DEF TurnInv, Typed, TypeOK, RunTypes, Live, Tasks, ConstantsAssumption
    <3>2. CASE phase[runTask] = "exec"
      BY <1>2, <1>3, <1>4, <1>6, <2>1, <3>2 DEF ShutdownTimesOut, TurnInv, RunInv, Live
    <3>3. CASE phase[runTask] # "exec"
      <4>1. phase'[runTask] = "cancelled" /\ ~Live(runTask)' /\ ~running
        BY <1>6, <2>1, <3>1, <3>3 DEF ShutdownTimesOut, TurnInv, RunInv, Typed, TypeOK, RunTypes, Live, LivePhases
      <4> QED BY <1>3, <2>1, <4>1 DEF RunInv
    <3> QED BY <3>2, <3>3
  <2>5. StateInv' /\ RetryInv'
    BY <1>2, <1>4, <2>1 DEF TurnInv, StateInv, RetryInv
  <2>6. StopInv'
    BY <1>2, <1>4, <1>6, <2>1 DEF ShutdownTimesOut, TurnInv, StopInv, RunInv
  <2> QED BY <1>5, <2>2, <2>3, <2>4, <2>5, <2>6 DEF TurnParts
<1>7. CASE ShutdownObservesRun(b)
  <2>1. /\ UNCHANGED <<fsm, shuttingDown, scope, window, running, stopFlag, paused, preInterrupt>>
        /\ runTask' = 0 /\ pending' = None /\ Proceed(b, "drained") /\ ~Live(runTask)
    BY <1>7 DEF ShutdownObservesRun, RunIsQuiet
  <2>2. ~running /\ ~stopFlag /\ ~Live(runTask)' /\ ~Raised(runTask)'
    BY <2>1, NoRun DEF Live, Raised
  <2>3. FenceInv'
    BY <1>1, <1>2, <1>4, <2>1, InsideFence DEF BoundaryPcs, Outside, Shutting
  <2>4. QuietInv'
    BY <1>1, <1>4, <2>1, <2>2, InsideQuiet DEF BoundaryPcs, Outside, Shutting
  <2>5. RunInv' /\ StateInv' /\ StopInv'
    BY <1>2, <1>3, <1>4, <2>1, <2>2 DEF TurnInv, RunInv, StateInv, StopInv
  <2>6. RetryInv'
    BY <1>4, <2>1 DEF TurnInv, RetryInv
  <2> QED BY <1>5, <2>3, <2>4, <2>5, <2>6 DEF TurnParts
<1>8. CASE EngineTornDown(b)
  <2>1. /\ fsm' = "UNINITIALIZED" /\ ~shuttingDown' /\ ~running' /\ ~stopFlag' /\ preInterrupt' = {} /\ paused' = {}
        /\ scope' = None /\ window' = 0 /\ UNCHANGED <<runTask, phase, pending>> /\ Proceed(b, "down")
    BY <1>8 DEF EngineTornDown
  <2>2. pending = None /\ ~Live(runTask) /\ ~Raised(runTask)
    BY <1>8 DEF EngineTornDown, TurnInv, QuietInv, Rested, Cleared
  <2>3. ~Live(runTask)' /\ ~Raised(runTask)'
    BY <2>1, <2>2 DEF Live, Raised
  <2>4. FenceInv'
    BY <1>1, <1>2, <1>4, <2>1, InsideFence DEF BoundaryPcs, Outside, Shutting
  <2>5. QuietInv'
    BY <1>1, <1>4, <2>1, <2>2, <2>3, InsideQuiet DEF BoundaryPcs, Outside, Shutting
  <2>6. RunInv' /\ StateInv' /\ StopInv'
    BY <1>4, <2>1, <2>3 DEF TurnInv, RunInv, StateInv, StopInv
  <2>7. RetryInv'
    BY <1>4, <2>1, <2>2 DEF TurnInv, RetryInv
  <2> QED BY <1>5, <2>4, <2>5, <2>6, <2>7 DEF TurnParts
<1>9. CASE ShutdownRaises(b)
  <2>1. UNCHANGED turnState /\ Proceed(b, "finishing") /\ Raised(runTask)
    BY <1>9 DEF ShutdownRaises, turnState
  <2>2. FenceInv'
    BY <1>1, <1>2, <1>4, <2>1, InsideFence DEF BoundaryPcs, Outside, Shutting, turnState, Raised
  <2>3. QuietInv'
    BY <1>1, <1>4, <2>1, InsideQuiet DEF BoundaryPcs, Outside, Shutting, Undecided, Rested, Cleared
  <2>4. TurnParts'
    BY <2>1, TurnUntouched DEF TurnInv, TurnParts
  <2> QED BY <1>5, <2>2, <2>3, <2>4
<1> QED BY <1>6, <1>7, <1>8, <1>9

\* A load commits into an engine with no run.
LEMMA LoadChanges ==
  ASSUME TurnInv, NEW b \in Boundaries, LoadCommits(b)
  PROVE  FenceInv' /\ QuietInv' /\ AdmissionInv' /\ TurnParts'
<1> USE DEF handlerVars, runVars, stopVars, admissionVars, executorVars, retryVars, scopeVars
<1>1. bpc[b] = "loading"
  BY DEF LoadCommits
<1>2. /\ active = {} /\ pending = None /\ ~Live(runTask) /\ ~Raised(runTask)
      /\ ~shuttingDown /\ fsm # "SHUTTING_DOWN"
  BY <1>1, OneInside DEF TurnInv, FenceInv, QuietInv, Outside, Shutting, Undecided, Rested, Cleared
<1>3. fsm \notin {"RUNNING", "AWAITING_SUB_AGENTS"} /\ paused = {}
  BY <1>2 DEF TurnInv, StateInv
<1>4. ~running /\ ~stopFlag /\ window = 0
  BY <1>2, NoRun
<1>5. fsm' \notin {"RUNNING", "AWAITING_SUB_AGENTS", "SHUTTING_DOWN"}
  <2>1. fsm \in EngineStates
    BY DEF TurnInv, Typed, TypeOK, EngineTypes
  <2> DEFINE started == TryTransition(fsm, "START")
  <2>2. started \in EngineStates \ {"RUNNING", "AWAITING_SUB_AGENTS", "SHUTTING_DOWN"}
    BY <1>2, <1>3, <2>1, TableOfBoundaries DEF EngineStates
  <2>3. fsm' \in {fsm, started, TryTransition(started, "RESTORE_INTERRUPTED"), TryTransition(started, "RESTORE_FAILED")}
    BY DEF LoadCommits
  <2> HIDE DEF started
  <2> QED BY <1>2, <1>3, <2>2, <2>3, TableOfBoundaries
<1>6. /\ UNCHANGED <<shuttingDown, runTask, phase, tscope, scope, window, running, stopFlag, preInterrupt, paused,
                     pending, disabledGen, sessionGen, asked, stopTask, active, pc, token, gate, closeOwner>>
      /\ buildGen' = buildGen + 1 /\ ~loading' /\ Proceed(b, "finishing")
  BY DEF LoadCommits
<1>7. ~Live(runTask)' /\ \A t \in Tasks : Raised(t)' = Raised(t) /\ Live(t)' = Live(t)
  BY <1>2, <1>6 DEF Live, Raised
<1>8. FenceInv'
  BY <1>1, <1>2, <1>5, <1>6, InsideFence DEF BoundaryPcs, Outside, Shutting
<1>9. QuietInv'
  BY <1>1, <1>6, InsideQuiet DEF BoundaryPcs, Outside, Undecided, Rested, Cleared
<1>10. AdmissionInv'
  BY <1>2, <1>6, ClocksGoOn
<1>11. RunInv' /\ StateInv' /\ StopInv'
  <2>1. RunInv' /\ StateInv'
    BY <1>3, <1>4, <1>5, <1>6, <1>7 DEF TurnInv, RunInv, StateInv
  <2>2. StopInv'
    BY <1>4, <1>6, <1>7 DEF TurnInv, StopInv, Typed, TypeOK, StopTypes
  <2> QED BY <2>1, <2>2
<1>12. RetryInv'
  BY <1>2, <1>6 DEF TurnInv, RetryInv
<1> QED BY <1>8, <1>9, <1>10, <1>11, <1>12 DEF TurnParts

-----------------------------------------------------------------------------
(* The invariant, from its parts.                                          *)

LEMMA BoundaryKeeps ==
  ASSUME TurnInv, NEW b \in Boundaries, BoundaryRequested(b) \/ BoundaryStep(b)
  PROVE  FenceInv' /\ QuietInv' /\ AdmissionInv' /\ TurnParts'
<1>1. CASE BoundaryRequested(b) \/ BoundaryAcquires(b)
  BY <1>1, BoundaryComes
<1>2. CASE TransitionCommits(b)
  BY <1>2, TransitionChanges
<1>3. CASE RollbackDecides(b)
  <2>1. \/ Proceed(b, "finishing") /\ UNCHANGED <<sessionGen, active, window, retryVars>>
        \/ CommitTransition /\ Proceed(b, "committed")
    BY <1>3 DEF RollbackDecides
  <2> QED BY <1>3, <2>1, BoundaryPasses, RollbackChanges
<1>4. CASE RollbackShutsDown(b)
  BY <1>4, RollbackChanges
<1>5. CASE ShutdownTimesOut(b) \/ ShutdownObservesRun(b) \/ ShutdownRaises(b) \/ EngineTornDown(b)
  BY <1>5, ShutdownChanges
<1>6. CASE LoadCommits(b)
  BY <1>6, LoadChanges
<1>7. CASE \/ AdmissionsDrained(b) \/ TransitionPrepares(b) \/ ClearDetaches(b) \/ TransitionFails(b)
           \/ RollbackCapturesRun(b) \/ RollbackFails(b)
           \/ RebuildCommitsIdle(b) \/ RebuildRunDrained(b) \/ RebuildValidates(b)
           \/ LoadBegins(b) \/ LoadFails(b) \/ BoundaryFinishes(b)
  BY <1>7, BoundaryPasses
<1> QED BY <1>1, <1>2, <1>3, <1>4, <1>5, <1>6, <1>7 DEF BoundaryStep

LEMMA TurnInvInit == Init => TurnInv
<1> SUFFICES ASSUME Init PROVE TurnInv
  OBVIOUS
<1> USE DEF Init
<1>1. Typed
  BY TypedInit, ConstantsAssumption
<1>2. ~Live(runTask) /\ \A t \in Tasks : ~Live(t)
  BY DEF Live, LivePhases
<1>3. SingleLiveRun
  BY <1>2 DEF SingleLiveRun
<1>4. FenceInv
  BY DEF FenceInv, Outside, Shutting
<1>5. QuietInv
  BY DEF QuietInv, Outside, Undecided, Rested, Cleared
<1>6. AdmissionInv
  BY DEF AdmissionInv, Reserved
<1>7. RunInv
  BY <1>2 DEF RunInv
<1>8. StateInv /\ RetryInv /\ StopInv
  BY <1>2 DEF StateInv, RetryInv, StopInv
<1>9. BirthInv
  BY ConstantsAssumption DEF BirthInv, ConstantsAssumption
<1> QED BY <1>1, <1>3, <1>4, <1>5, <1>6, <1>7, <1>8, <1>9 DEF TurnInv

LEMMA TurnInvNext == TurnInv /\ [Next]_vars => TurnInv'
<1> SUFFICES ASSUME TurnInv, [Next]_vars PROVE TurnInv'
  OBVIOUS
<1>1. Typed'
  BY TypedNext DEF TurnInv
<1>2. SingleLiveRun' /\ BirthInv'
  BY SingleNext, BirthNext DEF TurnInv
<1>3. FenceInv' /\ QuietInv' /\ AdmissionInv' /\ TurnParts'
  <2>1. CASE \E h \in Handlers : HandlerStep(h) \/ HandlerChoice(h)
    BY <2>1, HandlerKeeps
  <2>2. CASE \E t \in Tasks : RunStep(t) \/ RunRaises(t)
    BY <2>2, RunKeeps
  <2>3. CASE (\E a \in SubAgents : SubAgentPauses(a) \/ SubAgentResolves(a)) \/ StopRequested \/ StopLands
    BY <2>3, StopKeeps
  <2>4. CASE \E b \in Boundaries : BoundaryRequested(b) \/ BoundaryStep(b)
    BY <2>4, BoundaryKeeps
  <2>5. CASE UNCHANGED vars
    <3> USE <2>5 DEF vars, engineVars, admissionVars, runVars, executorVars, scopeVars, retryVars, handlerVars,
                     boundaryVars, stopVars
    <3>1. TurnParts'
      BY TurnUntouched DEF TurnInv, TurnParts, turnState
    <3>2. FenceInv' /\ AdmissionInv'
      BY DEF TurnInv, FenceInv, AdmissionInv, OwnerIsCurrent, Raised
    <3>3. QuietInv'
      BY DEF TurnInv, QuietInv, Live, Raised, RollbackMayRun
    <3> QED BY <3>1, <3>2, <3>3
  <2> QED BY <2>1, <2>2, <2>3, <2>4, <2>5 DEF Next, Rest
<1> QED BY <1>1, <1>2, <1>3 DEF TurnInv, TurnParts

LEMMA TurnInvHolds == Spec => []TurnInv
BY TurnInvInit, TurnInvNext, PTL DEF Spec

-----------------------------------------------------------------------------
(* What follows.                                                           *)

\* The engine's state, its paused sub-agents, its injection window and its
\* queued retry tell the truth about the run, one that raised included.
THEOREM StateIsTrue == Spec => []StateMirrorsTurn
<1>1. TurnInv => StateMirrorsTurn
  <2> SUFFICES ASSUME TurnInv PROVE StateMirrorsTurn
    OBVIOUS
  <2>1. RunningStateHasItsRun /\ PausedMirrorsState
    <3>1. fsm = "RUNNING" => ~shuttingDown
      BY DEF TurnInv, FenceInv
    <3>2. fsm \in {"RUNNING", "AWAITING_SUB_AGENTS"} => Live(runTask) \/ Raised(runTask)
      BY DEF TurnInv, StateInv
    <3>3. fsm = "RUNNING" /\ ~Live(runTask) => MayClaim
      BY <3>1, <3>2, NoRun DEF MayClaim, MayBeValid, Done, Raised
    <3> QED BY <3>2, <3>3 DEF TurnInv, StateInv, RunningStateHasItsRun, PausedMirrorsState
  <2>2. WindowIsTheRuns
    <3>1. runTask \in Nat /\ (window # 0 => runTask # 0)
      BY ConstantsAssumption DEF TurnInv, Typed, TypeOK, RunTypes, RunInv, ConstantsAssumption
    <3> QED BY <3>1 DEF TurnInv, RunInv, WindowIsTheRuns, Live, Raised, LivePhases
  <2>3. QueuedRetryHasItsRun
    BY DEF TurnInv, RetryInv, LeftBehind, QueuedRetryHasItsRun
  <2> QED BY <2>1, <2>2, <2>3 DEF StateMirrorsTurn
<1> QED BY <1>1, TurnInvHolds, PTL

\* A stop waits for, or flags, no other run than the one it was asked for.
THEOREM StopsHit == Spec => []StopHitsItsRun
<1>1. TurnInv => StopHitsItsRun
  BY DEF TurnInv, StopInv, StopHitsItsRun
<1> QED BY <1>1, TurnInvHolds, PTL

\* Runs and registered admissions belong to the session and the build at hand.
THEOREM OwnersAreCurrent == Spec => []OwnersAgree
<1>1. TurnInv => OwnersAgree
  <2> SUFFICES ASSUME TurnInv PROVE OwnersAgree
    OBVIOUS
  <2>1. RunBelongsToOwner
    BY DEF TurnInv, SingleLiveRun, RunInv, RunBelongsToOwner
  <2>2. active \subseteq Handlers
    BY DEF TurnInv, Typed, TypeOK, HandlerTypes
  <2>3. RegisteredAdmissionIsCurrent
    BY <2>2 DEF TurnInv, AdmissionInv, RegisteredAdmissionIsCurrent
  <2> QED BY <2>1, <2>3 DEF OwnersAgree
<1> QED BY <1>1, TurnInvHolds, PTL

\* A load meets no admission, no queued retry and no run of the old turn.
THEOREM LoadsAreQuiet == Spec => []LoadIsQuiet
<1>1. TurnInv => LoadIsQuiet
  <2> SUFFICES ASSUME TurnInv, loading PROVE LoadIsQuiet
    BY DEF LoadIsQuiet
  <2>1. gate \in Boundaries /\ bpc[gate] = "loading" /\ closeOwner = gate
    BY DEF TurnInv, FenceInv
  <2>2. gate # None
    BY <2>1, ConstantsAssumption DEF ConstantsAssumption
  <2>3. active = {} /\ pending = None /\ ~Live(runTask)
    BY <2>1 DEF TurnInv, QuietInv, Outside, Undecided, Rested, Cleared
  <2>4. \A t \in Tasks : ~Live(t)
    BY <2>3 DEF TurnInv, SingleLiveRun
  <2> QED BY <2>1, <2>2, <2>3, <2>4 DEF LoadIsQuiet
<1> QED BY <1>1, TurnInvHolds, PTL

-----------------------------------------------------------------------------
(* Injections being published.  Where no clear and no restore resets the   *)
(* count, it is how many there are; and past a boundary's last wait for    *)
(* them nothing is a target any more, so none is begun.                    *)

Publishing == {m \in Messages : pc[m] = "publishing"}
Waited     == {"waitRun", "committed"} \cup Shutting \cup Cleared

CommitInv ==
  /\ IsFiniteSet(Publishing) /\ commits = Cardinality(Publishing)
  /\ \A m \in Messages : pc[m] = "inject" => target[m].window # 0
  /\ \A b \in Boundaries : bpc[b] \in Waited => Publishing = {}

\* No injection is begun where a boundary has waited for the last.
LEMMA NothingToInject ==
  ASSUME TurnInv, NEW b \in Boundaries, bpc[b] \in Waited,
         NEW m \in Messages, target[m].window # 0
  PROVE  ~TargetIsCurrent(target[m])
<1> SUFFICES ASSUME TargetIsCurrent(target[m]) PROVE FALSE
  OBVIOUS
<1>1. Live(runTask) /\ window # 0 /\ (IsRunning(fsm) \/ running)
  BY DEF TargetIsCurrent
<1>2. CASE bpc[b] = "waitRun"
  <2>1. fsm \in {"IDLE", "INTERRUPTED", "FAILED"}
    BY <1>2 DEF TurnInv, QuietInv, RollbackMayRun
  <2>2. phase[runTask] = "exec"
    BY <1>1, <2>1 DEF IsRunning, TurnInv, RunInv
  <2> QED BY <1>1, <2>1, <2>2 DEF TurnInv, RunInv, IsRunning
<1>3. CASE bpc[b] \in Shutting
  BY <1>1, <1>3 DEF TurnInv, FenceInv, RunInv
<1>4. CASE bpc[b] \in {"committed"} \cup Cleared
  BY <1>1, <1>4 DEF TurnInv, QuietInv, Rested, Cleared
<1> QED BY <1>2, <1>3, <1>4 DEF Waited

\* A handler goes on without publishing, begins to or is done.
InjectsNothing(h) ==
  /\ h \in Messages => /\ pc[h] # "publishing" /\ pc'[h] # "publishing"
                       /\ pc'[h] = "inject" => target'[h].window # 0
  /\ commits' = commits

OwnInjection(h) ==
  /\ \A g \in Handlers \ {h} : pc'[g] = pc[g] /\ target'[g] = target[g]
  /\ InjectsNothing(h) \/ (h \in Messages /\ (InjectionCommits(h) \/ InjectionPublished(h)))

LEMMA LeaveInjection ==
  ASSUME Typed, NEW h \in Handlers, NEW outcome \in Outcomes, Leave(h, outcome),
         pc[h] # "publishing", commits' = commits
  PROVE  OwnInjection(h)
BY DEF Typed, TypeOK, HandlerTypes, Leave, Goto, OwnInjection, InjectsNothing, Outcomes

LEMMA GotoInjection ==
  ASSUME Typed, NEW h \in Handlers, NEW step, Goto(h, step), step \notin {"inject", "publishing"},
         \A g \in Handlers \ {h} : target'[g] = target[g], pc[h] # "publishing", commits' = commits
  PROVE  OwnInjection(h)
BY DEF Typed, TypeOK, HandlerTypes, Goto, OwnInjection, InjectsNothing

LEMMA RouteInjection ==
  ASSUME Typed, NEW h \in Handlers, NEW tok, RouteRetry(h, tok), pc[h] # "publishing", commits' = commits
  PROVE  OwnInjection(h)
<1>1. CASE Leave(h, "queued") \/ Leave(h, "refused")
  BY <1>1, LeaveInjection DEF Outcomes
<1>2. CASE Goto(h, "retryWait") /\ target' = [target EXCEPT ![h] = None]
  <2>1. \A g \in Handlers \ {h} : target'[g] = target[g]
    BY <1>2 DEF Typed, TypeOK, HandlerTypes
  <2> QED BY <1>2, <2>1, GotoInjection
<1> QED BY <1>1, <1>2 DEF RouteRetry, Enqueue

\* What a handler's step does to its injection.
LEMMA HandlerInjection ==
  ASSUME Typed, NEW h \in Handlers, HandlerStep(h) \/ HandlerChoice(h)
  PROVE  OwnInjection(h)
<1> USE DEF engineVars, clockVars, admissionVars, boundaryVars, stopVars, executorVars, retryVars, scopeVars
<1>1. CASE NotReady(h) \/ WaitFails(h)
  BY <1>1, LeaveInjection DEF NotReady, WaitFails, Outcomes
<1>2. CASE MessageRejected(h) \/ MessageConflict(h)
  BY <1>2, LeaveInjection DEF MessageRejected, MessageConflict, Outcomes
<1>3. CASE MessageStale(h) \/ MessageStarts(h)
  BY <1>3, LeaveInjection DEF MessageStale, MessageStarts, Outcomes
<1>4. CASE InjectionAbandoned(h)
  <2>1. \E outcome \in Outcomes : Leave(h, outcome)
    BY <1>4 DEF InjectionAbandoned, Outcomes
  <2> QED BY <1>4, <2>1, LeaveInjection DEF InjectionAbandoned
<1>5. CASE RetryRefused(h)
  BY <1>5, LeaveInjection DEF RetryRefused, RetryAtGate, Outcomes
<1>6. CASE NoteRefused(h) \/ RetryNotStarted(h)
  <2>1. \E outcome \in Outcomes : Leave(h, outcome)
    BY <1>6 DEF NoteRefused, RetryNotStarted, Outcomes
  <2> QED BY <1>6, <2>1, LeaveInjection DEF NoteRefused, RetryNotStarted, RetryWaitOver
<1>7. CASE RetryStarts(h)
  <2>1. Leave(h, "started") \/ Leave(h, "stale")
    BY <1>7 DEF RetryStarts
  <2> QED BY <1>7, <2>1, LeaveInjection DEF RetryStarts, RetryWaitOver, Outcomes
<1>8. CASE FenceOpened(h) \/ AdmissionsIdle(h) \/ Submit(h)
  BY <1>8, GotoInjection DEF FenceOpened, AdmissionsIdle, Submit
<1>9. CASE MessageFenced(h) \/ MessageWaitsForRun(h)
  BY <1>9, GotoInjection DEF MessageFenced, MessageWaitsForRun
<1>10. CASE RetryFenced(h) \/ RetryWaitsForPrompt(h)
  BY <1>10, GotoInjection DEF RetryFenced, RetryWaitsForPrompt, RetryAtGate
<1>11. CASE MessageForActiveRun(h)
  <2> DEFINE tgt == CaptureTarget(InjectRoute)
  <2>1. CASE tgt = None
    BY <1>11, <2>1, LeaveInjection DEF MessageForActiveRun, Outcomes
  <2>2. CASE tgt # None
    <3>1. tgt.window # 0
      BY <2>2 DEF CaptureTarget
    <3> HIDE DEF tgt
    <3>2. /\ Goto(h, "inject") /\ target' = [target EXCEPT ![h] = tgt]
          /\ pc[h] = "gate" /\ commits' = commits
      BY <1>11, <2>2 DEF MessageForActiveRun, tgt
    <3>3. /\ pc'[h] = "inject" /\ target'[h] = tgt
          /\ \A g \in Handlers \ {h} : pc'[g] = pc[g] /\ target'[g] = target[g]
      BY <3>2 DEF Typed, TypeOK, HandlerTypes, Goto
    <3> QED BY <3>1, <3>2, <3>3 DEF OwnInjection, InjectsNothing
  <2> QED BY <2>1, <2>2
<1>12. CASE MessageReserves(h) \/ RunWaited(h)
  <2>1. Goto(h, "waitOpen") \/ Goto(h, "waitIdle") \/ Goto(h, "hook")
    BY <1>12 DEF MessageReserves, RunWaited, TryReserve
  <2> QED BY <1>12, <2>1, GotoInjection DEF MessageReserves, RunWaited
<1>13. CASE NoteReserves(h)
  <2>1. \A g \in Handlers \ {h} : target'[g] = target[g]
    BY <1>13 DEF NoteReserves, Typed, TypeOK, HandlerTypes
  <2> QED BY <1>13, <2>1, GotoInjection DEF NoteReserves, RetryAtGate
<1>14. CASE RetryRouted(h)
  BY <1>14, RouteInjection DEF RetryRouted, RetryAtGate
<1>15. CASE NoteRouted(h)
  BY <1>15, RouteInjection DEF NoteRouted
<1>16. CASE NoteCommits(h)
  <2>1. \/ RouteRetry(h, token[h])
        \/ Leave(h, "queued")
        \/ Goto(h, "noteRoute") /\ target' = target
    BY <1>16 DEF NoteCommits, Enqueue
  <2> QED BY <1>16, <2>1, RouteInjection, LeaveInjection, GotoInjection DEF NoteCommits, Outcomes
<1>17. CASE h \in Messages /\ (InjectionCommits(h) \/ InjectionPublished(h))
  BY <1>17 DEF OwnInjection, InjectionCommits, InjectionPublished, Leave, Goto, Typed, TypeOK, HandlerTypes
<1> QED BY <1>1, <1>2, <1>3, <1>4, <1>5, <1>6, <1>7, <1>8, <1>9, <1>10, <1>11, <1>12, <1>13, <1>14, <1>15, <1>16, <1>17
        DEF HandlerStep, HandlerChoice, PromptStep, RetryStep

LEMMA HandlerCommits ==
  ASSUME TurnInv, CommitInv, NEW h \in Handlers, HandlerStep(h) \/ HandlerChoice(h)
  PROVE  CommitInv'
<1>1. OwnInjection(h) /\ bpc' = bpc
  BY HandlerInjection, HandlerAdmission DEF TurnInv, boundaryState
<1>2. Messages \subseteq Handlers /\ pc \in [Handlers -> HandlerPcs]
  BY DEF Handlers, TurnInv, Typed, TypeOK, HandlerTypes
<1>3. CASE InjectsNothing(h)
  <2>1. Publishing' = Publishing /\ commits' = commits
    BY <1>1, <1>2, <1>3 DEF OwnInjection, InjectsNothing, Publishing
  <2>2. \A m \in Messages : pc'[m] = "inject" => target'[m].window # 0
    BY <1>1, <1>2, <1>3 DEF OwnInjection, InjectsNothing, CommitInv
  <2> QED BY <1>1, <2>1, <2>2 DEF CommitInv
<1>4. CASE InjectionCommits(h) /\ h \in Messages
  <2>1. Publishing' = Publishing \cup {h} /\ h \notin Publishing
    BY <1>2, <1>4 DEF InjectionCommits, Goto, Publishing
  <2>2. \A b \in Boundaries : bpc[b] \notin Waited
    BY <1>4, NothingToInject DEF InjectionCommits, CommitInv
  <2>3. IsFiniteSet(Publishing') /\ Cardinality(Publishing') = Cardinality(Publishing) + 1
    BY <2>1, FS_AddElement DEF CommitInv
  <2>4. \A m \in Messages : pc'[m] = "inject" => target'[m].window # 0
    BY <1>2, <1>4 DEF InjectionCommits, Goto, CommitInv
  <2>5. commits' = commits + 1
    BY <1>4 DEF InjectionCommits
  <2> QED BY <1>1, <2>2, <2>3, <2>4, <2>5 DEF CommitInv
<1>5. CASE InjectionPublished(h) /\ h \in Messages
  <2>1. pc'[h] = "injected" /\ pc[h] = "publishing" /\ \A g \in Handlers \ {h} : pc'[g] = pc[g] /\ target'[g] = target[g]
    BY <1>1, <1>2, <1>5 DEF OwnInjection, InjectionPublished, Leave, Goto
  <2>2. Publishing' = Publishing \ {h} /\ h \in Publishing
    BY <1>2, <1>5, <2>1 DEF Publishing
  <2>3. IsFiniteSet(Publishing') /\ Cardinality(Publishing') = Cardinality(Publishing) - 1
    BY <2>2, FS_RemoveElement DEF CommitInv
  <2>4. Cardinality(Publishing) \in Nat /\ Cardinality(Publishing) # 0
    BY <2>2, FS_EmptySet, FS_CardinalityType DEF CommitInv
  <2>5. commits' = commits - 1
    BY <1>5, <2>4 DEF InjectionPublished, FinishCommit, CommitInv
  <2>6. \A m \in Messages : pc'[m] = "inject" => target'[m].window # 0
    BY <1>2, <2>1 DEF CommitInv
  <2>7. \A b \in Boundaries : bpc[b] \notin Waited
    BY <2>2 DEF CommitInv
  <2> QED BY <1>1, <2>3, <2>5, <2>6, <2>7 DEF CommitInv
<1> QED BY <1>1, <1>3, <1>4, <1>5 DEF OwnInjection

\* What neither a run, nor a pause, nor a stop touches.
LEMMA CommitsUntouched ==
  ASSUME CommitInv, UNCHANGED <<pc, target, commits, bpc>>
  PROVE  CommitInv'
BY DEF CommitInv, Publishing

\* A boundary goes past its last wait with nothing being published.
LEMMA BoundaryCommits ==
  ASSUME Clears = {}, Restores = {}, TurnInv, CommitInv,
         NEW b \in Boundaries, BoundaryRequested(b) \/ BoundaryStep(b)
  PROVE  CommitInv'
<1> USE DEF engineVars, admissionVars, handlerVars, runVars, executorVars, scopeVars, retryVars, stopVars
<1>1. bpc \in [Boundaries -> BoundaryPcs]
  BY DEF TurnInv, Typed, TypeOK, BoundaryTypes
<1>2. commits = 0 => Publishing = {}
  BY FS_EmptySet DEF CommitInv
<1>3. ASSUME NEW step, Proceed(b, step), UNCHANGED <<pc, target>>,
             commits' = commits \/ (commits' = 0 /\ bpc[b] \in Waited),
             step \in Waited => commits = 0 \/ bpc[b] \in Waited
      PROVE  CommitInv'
  <2>1. bpc[b] \in Waited => Publishing = {} /\ commits = 0
    BY FS_EmptySet DEF CommitInv
  <2>2. Publishing' = Publishing /\ commits' = commits
    BY <1>3, <2>1 DEF Publishing
  <2>3. \A c \in Boundaries : bpc'[c] = IF c = b THEN step ELSE bpc[c]
    BY <1>1, <1>3 DEF Proceed
  <2>4. \A c \in Boundaries : bpc'[c] \in Waited => Publishing = {}
    BY <1>2, <1>3, <2>1, <2>3 DEF CommitInv
  <2> QED BY <1>3, <2>2, <2>4 DEF CommitInv
<1> USE DEF Waited, Shutting, Rested, Cleared
<1>4. CASE BoundaryRequested(b)
  BY <1>3, <1>4 DEF BoundaryRequested
<1>5. CASE BoundaryAcquires(b)
  BY <1>3, <1>5 DEF BoundaryAcquires
<1>6. CASE AdmissionsDrained(b) \/ RebuildCommitsIdle(b) \/ RebuildRunDrained(b)
  BY <1>3, <1>6 DEF AdmissionsDrained, RebuildCommitsIdle, RebuildRunDrained
<1>7. CASE TransitionCommits(b)
  BY <1>3, <1>7 DEF TransitionCommits, BeginShutdown, CommitsAreIdle
<1>8. CASE TransitionPrepares(b) \/ ClearDetaches(b) \/ TransitionFails(b)
  BY <1>3, <1>8 DEF TransitionPrepares, ClearDetaches, TransitionFails
<1>9. CASE RollbackCapturesRun(b)
  BY <1>3, <1>9 DEF RollbackCapturesRun, CommitsAreIdle
<1>10. CASE RollbackDecides(b)
  BY <1>3, <1>10 DEF RollbackDecides
<1>11. CASE RollbackFails(b) \/ RollbackShutsDown(b)
  BY <1>3, <1>11 DEF RollbackFails, RollbackShutsDown, BeginShutdown
<1>12. CASE ShutdownTimesOut(b) \/ ShutdownObservesRun(b) \/ ShutdownRaises(b)
  BY <1>3, <1>12 DEF ShutdownTimesOut, ShutdownObservesRun, ShutdownRaises
<1>13. CASE EngineTornDown(b)
  BY <1>3, <1>13 DEF EngineTornDown
<1>14. CASE RebuildValidates(b)
  BY <1>3, <1>14 DEF RebuildValidates, CommitsAreIdle
<1>15. CASE LoadBegins(b) \/ LoadFails(b) \/ LoadCommits(b)
  BY <1>3, <1>15 DEF LoadBegins, LoadFails, LoadCommits
<1>16. CASE BoundaryFinishes(b)
  BY <1>3, <1>16 DEF BoundaryFinishes
<1> QED BY <1>4, <1>5, <1>6, <1>7, <1>8, <1>9, <1>10, <1>11, <1>12, <1>13, <1>14, <1>15, <1>16 DEF BoundaryStep

LEMMA CommitInvInit == Init => CommitInv
<1> SUFFICES ASSUME Init PROVE CommitInv
  OBVIOUS
<1>1. Publishing = {}
  BY DEF Init, Publishing, Handlers
<1>2. \A m \in Messages : pc[m] # "inject"
  BY DEF Init, Handlers
<1> QED BY <1>1, <1>2, FS_EmptySet DEF Init, CommitInv

LEMMA CommitInvNext ==
  ASSUME Clears = {}, Restores = {}
  PROVE  TurnInv /\ CommitInv /\ [Next]_vars => CommitInv'
<1> SUFFICES ASSUME TurnInv, CommitInv, [Next]_vars PROVE CommitInv'
  OBVIOUS
<1>1. CASE \E h \in Handlers : HandlerStep(h) \/ HandlerChoice(h)
  BY <1>1, HandlerCommits
<1>2. CASE \E b \in Boundaries : BoundaryRequested(b) \/ BoundaryStep(b)
  BY <1>2, BoundaryCommits
<1> USE DEF engineVars, admissionVars, handlerVars, runVars, executorVars, scopeVars, retryVars, stopVars,
            boundaryVars
<1>3. ASSUME NEW t \in Tasks, RunStep(t) \/ RunRaises(t) PROVE CommitInv'
  <2>1. UNCHANGED <<pc, target, commits, bpc>>
    BY <1>3 DEF RunStep, RunEntersExecutor, ExecutorReturns, RunReachesTerminal, RunDispatchesRetry, RunEnds,
                RunRaises
  <2> QED BY <2>1, CommitsUntouched
<1>4. CASE (\E a \in SubAgents : SubAgentPauses(a) \/ SubAgentResolves(a)) \/ StopRequested \/ StopLands
  <2>1. UNCHANGED <<pc, target, commits, bpc>>
    BY <1>4 DEF SubAgentPauses, SubAgentResolves, StopRequested, StopLands
  <2> QED BY <2>1, CommitsUntouched
<1>5. CASE UNCHANGED vars
  BY <1>5, CommitsUntouched DEF vars
<1> QED BY <1>1, <1>2, <1>3, <1>4, <1>5 DEF Next, Rest

\* Where no clear and no restore is asked for, a load meets no injection that
\* is still being published into the runtime it replaces.
THEOREM LoadsMeetNoCommit ==
  ASSUME Clears = {}, Restores = {}
  PROVE  Spec => []LoadMeetsNoCommit
<1>1. Init => CommitInv
  BY CommitInvInit
<1>2. TurnInv /\ CommitInv /\ [Next]_vars => CommitInv'
  BY CommitInvNext
<1>3. TurnInv /\ CommitInv => LoadMeetsNoCommit
  <2> SUFFICES ASSUME TurnInv, CommitInv, loading PROVE \A m \in Messages : pc[m] # "publishing"
    BY DEF LoadMeetsNoCommit
  <2>1. gate \in Boundaries /\ bpc[gate] = "loading"
    BY DEF TurnInv, FenceInv
  <2>2. Publishing = {}
    BY <2>1 DEF CommitInv, Waited, Rested, Cleared
  <2> QED BY <2>2 DEF Publishing
<1> QED BY <1>1, <1>2, <1>3, TurnInvHolds, PTL DEF Spec

-----------------------------------------------------------------------------
(* The refinement.  A promotion begins a run, a dispatched retry continues  *)
(* it, its end or its cancellation ends it, a commit switches the session   *)
(* and a load replaces the build; every other step stutters.                *)

liveRun   == IF Live(runTask) THEN runTask ELSE 0
orphaned  == Live(runTask) /\ tscope[runTask].sgen # sessionGen
turnView  == <<liveRun, lastTask, sessionGen, orphaned, buildGen>>

BeginsRun     == /\ liveRun = 0 /\ liveRun' = lastTask + 1 /\ lastTask' = lastTask + 1
                 /\ UNCHANGED <<sessionGen, orphaned, buildGen>>
ContinuesRun  == /\ liveRun # 0 /\ ~orphaned /\ liveRun' = lastTask + 1 /\ lastTask' = lastTask + 1
                 /\ UNCHANGED <<sessionGen, orphaned, buildGen>>
EndsRun       == /\ liveRun # 0 /\ liveRun' = 0 /\ orphaned' = FALSE
                 /\ UNCHANGED <<lastTask, sessionGen, buildGen>>
SwitchesOwner == /\ sessionGen' = sessionGen + 1 /\ orphaned' = (liveRun # 0)
                 /\ UNCHANGED <<liveRun, lastTask, buildGen>>
ReplacesBuild == /\ liveRun = 0 /\ buildGen' = buildGen + 1
                 /\ UNCHANGED <<liveRun, lastTask, sessionGen, orphaned>>

TurnViewStep == BeginsRun \/ ContinuesRun \/ EndsRun \/ SwitchesOwner \/ ReplacesBuild \/ UNCHANGED turnView

LEMMA ViewUntouched ==
  ASSUME SlotUntouched, UNCHANGED <<sessionGen, buildGen>>
  PROVE  UNCHANGED turnView
BY DEF SlotUntouched, turnView, liveRun, orphaned, Live

LEMMA HandlerView ==
  ASSUME TurnInv, NEW h \in Handlers, HandlerStep(h) \/ HandlerChoice(h)
  PROVE  TurnViewStep
<1>1. UNCHANGED <<sessionGen, buildGen>>
  BY HandlerAdmission DEF TurnInv, boundaryState
<1>2. CASE SlotUntouched
  BY <1>1, <1>2, ViewUntouched DEF TurnViewStep
<1>3. CASE SlotTaken
  <2>1. PICK sc : Install(sc)
    BY <1>3 DEF SlotTaken
  <2>2. runTask' = lastTask + 1 /\ lastTask' = lastTask + 1 /\ lastTask + 1 \in Tasks /\ lastTask + 1 # 0
    BY <2>1, ConstantsAssumption DEF TurnInv, Install, Typed, TypeOK, RunTypes, Tasks, ConstantsAssumption
  <2>3. phase'[runTask'] = "pre" /\ tscope'[runTask'] = sc
    BY <2>1, <2>2 DEF TurnInv, Install, Typed, TypeOK, RunTypes
  <2>4. Live(runTask)' /\ ~Live(runTask)
    BY <1>3, <2>2, <2>3 DEF SlotTaken, Live, LivePhases
  <2>5. ~UNCHANGED <<runTask, phase>>
    BY <2>4 DEF Live
  <2>6. PICK sd : TurnStarted(sd)
    BY <2>5, HandlerTurn DEF TurnStep, turnState, TurnLetGo, RetryQueued
  <2>7. tscope'[runTask'].sgen = sessionGen
    BY <2>2, <2>6 DEF TurnStarted, TurnInv, Install, Typed, TypeOK, RunTypes
  <2> QED BY <1>1, <2>2, <2>4, <2>7 DEF TurnViewStep, BeginsRun, liveRun, orphaned
<1> QED BY <1>2, <1>3, HandlerSlot

LEMMA RunView ==
  ASSUME TurnInv, NEW t \in Tasks, RunStep(t) \/ RunRaises(t)
  PROVE  TurnViewStep
<1> USE DEF engineVars, clockVars
<1>1. t = runTask /\ Live(runTask) /\ t # 0
  BY DEF RunStep, RunEntersExecutor, ExecutorReturns, RunReachesTerminal, RunDispatchesRetry, RunEnds,
         RunRaises, TurnInv, SingleLiveRun, Live, LivePhases, Tasks
<1>2. UNCHANGED <<sessionGen, buildGen>>
  BY DEF RunStep, RunEntersExecutor, ExecutorReturns, RunReachesTerminal, RunDispatchesRetry, RunEnds, RunRaises
<1>3. phase \in [Tasks -> Phases] /\ tscope \in [Tasks -> Scope \cup {None}] /\ lastTask \in Nat
  BY ConstantsAssumption DEF TurnInv, Typed, TypeOK, RunTypes, ConstantsAssumption
<1>4. CASE RunEntersExecutor(t) \/ ExecutorReturns(t) \/ RunReachesTerminal(t)
  <2>1. UNCHANGED <<runTask, tscope, lastTask>>
    BY <1>4 DEF RunEntersExecutor, ExecutorReturns, RunReachesTerminal
  <2>2. phase'[t] \in {"exec", "post", "save"}
    BY <1>3, <1>4 DEF RunEntersExecutor, ExecutorReturns, RunReachesTerminal
  <2>3. Live(runTask)'
    BY <1>1, <2>1, <2>2 DEF Live, LivePhases
  <2> QED BY <1>1, <1>2, <2>1, <2>3 DEF TurnViewStep, turnView, liveRun, orphaned
<1>5. CASE RunDispatchesRetry(t)
  <2>1. scope.sgen = sessionGen /\ scope # None /\ scope = tscope[t] /\ scope.bgen = buildGen
    BY <1>1, <1>5 DEF TurnInv, RunInv, RunDispatchesRetry, RetryIsDue
  <2>2. runTask' = lastTask + 1 /\ lastTask' = lastTask + 1 /\ lastTask + 1 \in Tasks /\ lastTask + 1 # 0
    BY <1>3, <1>5, ConstantsAssumption DEF RunDispatchesRetry, Tasks, ConstantsAssumption
  <2>3. phase'[runTask'] = "pre" /\ tscope'[runTask'] = scope
    BY <1>3, <1>5, <2>1, <2>2 DEF RunDispatchesRetry
  <2>4. Live(runTask)'
    BY <2>2, <2>3 DEF Live, LivePhases
  <2>5. ~orphaned /\ ~orphaned' /\ liveRun = t /\ liveRun' = lastTask + 1
    BY <1>1, <1>2, <2>1, <2>2, <2>3, <2>4 DEF orphaned, liveRun
  <2> QED BY <1>1, <1>2, <2>2, <2>5 DEF TurnViewStep, ContinuesRun, orphaned
<1>6. CASE RunEnds(t) \/ RunRaises(t)
  <2>1. phase'[t] \in {"done", "raised"} /\ UNCHANGED <<runTask, lastTask>>
    BY <1>3, <1>6 DEF RunEnds, RunRaises
  <2>2. ~Live(runTask)'
    BY <1>1, <2>1 DEF Live, LivePhases
  <2> QED BY <1>1, <1>2, <2>1, <2>2 DEF TurnViewStep, EndsRun, liveRun, orphaned
<1> QED BY <1>4, <1>5, <1>6 DEF RunStep

LEMMA BoundaryView ==
  ASSUME TurnInv, NEW b \in Boundaries, BoundaryRequested(b) \/ BoundaryStep(b)
  PROVE  TurnViewStep
<1>1. CASE ShutdownTimesOut(b)
  <2>1. Live(runTask) /\ runTask # 0 /\ UNCHANGED <<runTask, lastTask, tscope, sessionGen, buildGen>>
    BY <1>1 DEF ShutdownTimesOut, engineVars, Live
  <2>2. CASE phase' = phase
    BY <2>1, <2>2, ViewUntouched DEF TurnViewStep, SlotUntouched
  <2>3. CASE phase' = [phase EXCEPT ![runTask] = "cancelled"]
    <3>1. runTask \in Tasks
      BY <2>1, ConstantsAssumption DEF TurnInv, Typed, TypeOK, RunTypes, Tasks, ConstantsAssumption
    <3>2. ~Live(runTask)'
      BY <2>1, <2>3, <3>1 DEF TurnInv, Typed, TypeOK, RunTypes, Live, LivePhases
    <3> QED BY <2>1, <3>2 DEF TurnViewStep, EndsRun, liveRun, orphaned
  <2> QED BY <1>1, <2>2, <2>3 DEF ShutdownTimesOut
<1>2. CASE ShutdownObservesRun(b)
  <2>1. ~Live(runTask) /\ ~Live(runTask)' /\ UNCHANGED <<lastTask, sessionGen, buildGen>>
    BY <1>2 DEF ShutdownObservesRun, RunIsQuiet, Live, engineVars
  <2> QED BY <2>1 DEF TurnViewStep, turnView, liveRun, orphaned
<1>3. CASE SlotUntouched /\ UNCHANGED <<sessionGen, buildGen>>
  BY <1>3, ViewUntouched DEF TurnViewStep
<1>4. CASE SlotUntouched /\ (TransitionCommits(b) \/ RollbackDecides(b))
  <2>1. sessionGen' = sessionGen \/ sessionGen' = sessionGen + 1
    BY <1>4 DEF TransitionCommits, RollbackDecides, CommitTransition
  <2>2. buildGen' = buildGen /\ (Live(runTask)' <=> Live(runTask)) /\ UNCHANGED <<runTask, lastTask, tscope>>
    BY <1>4 DEF TransitionCommits, RollbackDecides, SlotUntouched, Live
  <2>3. CASE sessionGen' = sessionGen
    BY <1>4, <2>2, <2>3, ViewUntouched DEF TurnViewStep
  <2>4. CASE sessionGen' = sessionGen + 1
    <3>1. Live(runTask) => ~shuttingDown
      BY <1>4, OneInside DEF TransitionCommits, RollbackDecides, TurnInv, FenceInv, Outside, Shutting,
                             Live, LivePhases, Raised
    <3>2. Live(runTask) => tscope[runTask].sgen = sessionGen
      BY <3>1 DEF TurnInv, RunInv
    <3>3. sessionGen \in Nat
      BY DEF TurnInv, Typed, TypeOK, EngineTypes
    <3>4. Live(runTask) => liveRun # 0
      BY DEF liveRun, Live
    <3>5. ~Live(runTask) => liveRun = 0
      BY DEF liveRun
    <3>6. orphaned' = (liveRun # 0)
      BY <2>2, <2>4, <3>2, <3>3, <3>4, <3>5 DEF orphaned
    <3> QED BY <2>2, <2>4, <3>6 DEF TurnViewStep, SwitchesOwner, liveRun
  <2> QED BY <2>1, <2>3, <2>4
<1>5. CASE SlotUntouched /\ LoadCommits(b)
  <2>1. ~Live(runTask)
    BY <1>5 DEF LoadCommits, TurnInv, QuietInv, Rested
  <2>2. /\ ~Live(runTask)' /\ buildGen' = buildGen + 1 /\ UNCHANGED <<lastTask, sessionGen>>
    BY <1>5, <2>1 DEF LoadCommits, SlotUntouched, Live
  <2> QED BY <2>1, <2>2 DEF TurnViewStep, ReplacesBuild, liveRun, orphaned
<1>6. \/ UNCHANGED <<sessionGen, buildGen>>
      \/ TransitionCommits(b) \/ RollbackDecides(b) \/ LoadCommits(b)
  <2> USE DEF engineVars
  <2>1. CASE \/ BoundaryRequested(b) \/ BoundaryAcquires(b) \/ AdmissionsDrained(b) \/ TransitionPrepares(b)
             \/ ClearDetaches(b) \/ TransitionFails(b)
    BY <2>1 DEF BoundaryRequested, BoundaryAcquires, AdmissionsDrained, TransitionPrepares, ClearDetaches,
                TransitionFails
  <2>2. CASE \/ RollbackCapturesRun(b) \/ RollbackFails(b) \/ RollbackShutsDown(b) \/ ShutdownTimesOut(b)
             \/ ShutdownObservesRun(b) \/ ShutdownRaises(b) \/ EngineTornDown(b)
    BY <2>2 DEF RollbackCapturesRun, RollbackFails, RollbackShutsDown, ShutdownTimesOut, ShutdownObservesRun,
                ShutdownRaises, EngineTornDown
  <2>3. CASE \/ RebuildCommitsIdle(b) \/ RebuildRunDrained(b) \/ RebuildValidates(b) \/ LoadBegins(b)
             \/ LoadFails(b) \/ BoundaryFinishes(b)
    BY <2>3 DEF RebuildCommitsIdle, RebuildRunDrained, RebuildValidates, LoadBegins, LoadFails, BoundaryFinishes
  <2> QED BY <2>1, <2>2, <2>3 DEF BoundaryStep
<1> QED BY <1>1, <1>2, <1>3, <1>4, <1>5, <1>6, BoundarySlot

LEMMA ViewStep == TurnInv /\ [Next]_vars => TurnViewStep
<1> SUFFICES ASSUME TurnInv, [Next]_vars PROVE TurnViewStep
  OBVIOUS
<1>1. ASSUME NEW a \in SubAgents, SubAgentPauses(a) \/ SubAgentResolves(a) PROVE TurnViewStep
  BY <1>1, ViewUntouched DEF SubAgentPauses, SubAgentResolves, TurnViewStep, SlotUntouched, runVars, clockVars
<1>2. CASE StopRequested \/ StopLands
  BY <1>2, ViewUntouched DEF StopRequested, StopLands, TurnViewStep, SlotUntouched, runVars, engineVars, clockVars
<1>3. CASE UNCHANGED vars
  BY <1>3, ViewUntouched DEF vars, TurnViewStep, SlotUntouched, runVars, engineVars
<1> QED BY <1>1, <1>2, <1>3, HandlerView, RunView, BoundaryView DEF Next, Rest

\* The engine implements TurnOrder.
THEOREM TurnsKeepOrder == Spec => OneTurnAtATime
<1>1. Init => Order!Init
  BY DEF Init, Order!Init, Live, LivePhases
<1>2. TurnViewStep => [Order!Next]_(Order!turnVars)
  BY DEF TurnViewStep, BeginsRun, ContinuesRun, EndsRun, SwitchesOwner, ReplacesBuild, turnView, liveRun, orphaned,
         Order!Next, Order!Begin, Order!Continue, Order!End, Order!Switch, Order!Rebuild, Order!turnVars
<1>3. TurnInv /\ [Next]_vars => [Order!Next]_(Order!turnVars)
  BY <1>2, ViewStep
<1> QED BY <1>1, <1>3, TurnInvHolds, PTL DEF Spec, OneTurnAtATime, Order!Spec

=============================================================================
