------------------------ MODULE TurnLifecycleProofs ------------------------
(***************************************************************************)
(* Theorems about TurnLifecycle, for every number of prompts, retries,     *)
(* boundaries, sub-agents, run tasks and stops.                            *)
(***************************************************************************)
EXTENDS TurnLifecycle, TLAPS

-----------------------------------------------------------------------------
(* The state machine's table.                                              *)

\* The engine never leaves the states of the table, whatever trigger is tried.
LEMMA TransitionStays ==
  ASSUME NEW s \in EngineStates, NEW t \in Triggers
  PROVE  TryTransition(s, t) \in EngineStates
<1>1. CASE t \in {"START", "USER_MESSAGE", "RUN_COMPLETED", "RUN_INTERRUPTED"}
  BY <1>1 DEF TryTransition, Transitions, EngineStates
<1>2. CASE t \in {"RUN_FAILED", "RETRY_REQUESTED", "RETRY_STARTED", "RESTORE_INTERRUPTED"}
  BY <1>2 DEF TryTransition, Transitions, EngineStates
<1>3. CASE t \in {"RESTORE_FAILED", "SHUTDOWN", "SUB_AGENT_PAUSED", "SUB_AGENT_RESOLVED"}
  BY <1>3 DEF TryTransition, Transitions, EngineStates
<1> QED  BY <1>1, <1>2, <1>3 DEF Triggers

-----------------------------------------------------------------------------
(* Types.  TypeOK is not inductive: a handler that goes on with its         *)
(* admission's token, and a boundary that goes on with the owner it         *)
(* captured, must have one.                                                 *)

\* From its reservation to its outcome a handler knows its token.
TokenKept ==
  \A h \in Handlers : pc[h] \in {"hook", "note", "noteRoute", "retryWait"} => token[h] \in Token

\* A rollback or a rebuild that has been asked for has captured its owner.
OwnerCaptured ==
  \A b \in Rollbacks \cup Rebuilds : bpc[b] # "new" => captured[b] \in OwnerClocks

Typed == TypeOK /\ TokenKept /\ OwnerCaptured

LEMMA TypedInit == ASSUME ConstantsAssumption PROVE Init => Typed
<1> SUFFICES ASSUME Init PROVE Typed
  OBVIOUS
<1>1. EngineTypes
  BY DEF Init, EngineTypes, EngineStates
<1>2. HandlerTypes /\ TokenKept
  <2>1. 0 \in 0..MaxTasks
    BY DEF ConstantsAssumption
  <2>2. pc \in [Handlers -> HandlerPcs] /\ TokenKept
    BY DEF Init, TokenKept, HandlerPcs
  <2>3. active \subseteq Handlers /\ nextAid \in Nat
    BY DEF Init
  <2>4. token \in [Handlers -> Token \cup {None}]
    BY DEF Init
  <2>5. target \in [Handlers -> Target \cup NoteOwner \cup {None}]
    BY DEF Init
  <2>6. waitTask \in [Handlers -> 0..MaxTasks]
    BY <2>1 DEF Init, ConstantsAssumption
  <2> QED  BY <2>2, <2>3, <2>4, <2>5, <2>6 DEF HandlerTypes
<1>3. RunTypes
  BY DEF Init, RunTypes, Phases, Results, ConstantsAssumption
<1>4. StopTypes
  <2>1. running \in BOOLEAN /\ stopFlag \in BOOLEAN
    BY DEF Init
  <2>2. 0 \in 0..MaxTasks /\ 0 \in 0..MaxStops
    BY DEF ConstantsAssumption
  <2> QED  BY <2>1, <2>2 DEF Init, StopTypes
<1>5. ScopeTypes
  BY DEF Init, ScopeTypes, ConstantsAssumption
<1>6. BoundaryTypes /\ OwnerCaptured
  BY DEF Init, BoundaryTypes, OwnerCaptured, BoundaryPcs, Boundaries, Transitioners
<1> QED  BY <1>1, <1>2, <1>3, <1>4, <1>5, <1>6 DEF Typed, TypeOK

\* Leaving with an outcome forgets the token and nothing but it.
LEMMA LeaveTyped ==
  ASSUME HandlerTypes, TokenKept, NEW h \in Handlers, NEW o \in Outcomes, Leave(h, o),
         nextAid' \in Nat
  PROVE  HandlerTypes' /\ TokenKept'
<1>1. o \in HandlerPcs /\ o \notin {"hook", "note", "noteRoute", "retryWait"}
  BY DEF Outcomes, HandlerPcs
<1>2. pc' \in [Handlers -> HandlerPcs]
  BY <1>1 DEF HandlerTypes, Leave, Goto
<1>3. /\ active' \subseteq Handlers
      /\ token' \in [Handlers -> Token \cup {None}]
      /\ target' \in [Handlers -> Target \cup NoteOwner \cup {None}]
      /\ waitTask' \in [Handlers -> 0..MaxTasks]
  <2>1. 0 \in 0..MaxTasks
    BY ConstantsAssumption DEF ConstantsAssumption
  <2> QED  BY <2>1 DEF HandlerTypes, Leave, Release
<1>4. TokenKept'
  BY <1>1 DEF TokenKept, HandlerTypes, Leave, Goto
<1> QED  BY <1>2, <1>3, <1>4 DEF HandlerTypes

\* What prompts and retries do alike.
LEMMA TypedHandler ==
  ASSUME Typed, NEW h \in Handlers,
         NotReady(h) \/ FenceOpened(h) \/ AdmissionsIdle(h) \/ WaitFails(h) \/ Submit(h)
  PROVE  Typed'
<1> USE DEF Typed, TypeOK, EngineTypes, RunTypes, StopTypes, ScopeTypes, BoundaryTypes,
            engineVars, clockVars, admissionVars, runVars, executorVars, scopeVars, retryVars,
            handlerVars, boundaryVars, stopVars, OwnerCaptured
<1>1. CASE NotReady(h)
  BY <1>1, LeaveTyped DEF NotReady, Outcomes, HandlerTypes
<1>2. CASE FenceOpened(h)
  BY <1>2 DEF FenceOpened, Goto, HandlerTypes, HandlerPcs, TokenKept
<1>3. CASE AdmissionsIdle(h)
  BY <1>3 DEF AdmissionsIdle, Goto, HandlerTypes, HandlerPcs, TokenKept
<1>4. CASE WaitFails(h)
  BY <1>4, LeaveTyped DEF WaitFails, Outcomes, HandlerTypes
<1>5. CASE Submit(h)
  BY <1>5 DEF Submit, Goto, HandlerTypes, HandlerPcs, TokenKept
<1> QED  BY <1>1, <1>2, <1>3, <1>4, <1>5

LEMMA CapturedTarget ==
  ASSUME Typed, NEW route \in {"fsm_active", "executor_fallback"}
  PROVE  CaptureTarget(route) \in Target \cup {None}
BY ConstantsAssumption
   DEF Typed, TypeOK, EngineTypes, RunTypes, ScopeTypes, CaptureTarget, Target, ConstantsAssumption

LEMMA NewScopeTyped ==
  ASSUME Typed, NEW tok \in Token
  PROVE  NewScope(tok) \in Scope
BY DEF Typed, TypeOK, ScopeTypes, NewScope, Token, Scope

LEMMA ReserveTyped ==
  ASSUME Typed, NEW h \in Handlers, Reserve(h)
  PROVE  /\ active' \subseteq Handlers
         /\ nextAid' \in Nat
         /\ token' \in [Handlers -> Token \cup {None}]
         /\ token'[h] \in Token
         /\ \A g \in Handlers : g # h => token'[g] = token[g]
BY DEF Typed, TypeOK, EngineTypes, HandlerTypes, Reserve, Token

\* A prompt's wait or reservation.
LEMMA TryReserveTyped ==
  ASSUME Typed, NEW h \in Handlers, TryReserve(h), target' = target,
         waitTask' \in [Handlers -> 0..MaxTasks]
  PROVE  HandlerTypes' /\ TokenKept'
<1> USE DEF Typed, TypeOK, HandlerTypes, TokenKept, Goto, HandlerPcs, Outcomes
<1>1. CASE Closed /\ Goto(h, "waitOpen") /\ UNCHANGED <<active, token, nextAid>>
  BY <1>1
<1>2. CASE ~Closed /\ active # {} /\ Goto(h, "waitIdle") /\ UNCHANGED <<active, token, nextAid>>
  BY <1>2
<1>3. CASE active = {} /\ Reserve(h) /\ Goto(h, "hook")
  BY <1>3, ReserveTyped
<1> QED  BY <1>1, <1>2, <1>3 DEF TryReserve

\* A run task in the slot.
LEMMA InstallTyped ==
  ASSUME Typed, NEW sc \in Scope, Install(sc)
  PROVE  /\ lastTask + 1 \in Tasks /\ lastTask + 1 \in 0..MaxTasks
         /\ result' = result => RunTypes'
<1>1. lastTask + 1 \in Tasks /\ lastTask + 1 \in 0..MaxTasks
  BY ConstantsAssumption DEF Typed, TypeOK, RunTypes, Install, Tasks, ConstantsAssumption
<1>2. "pre" \in Phases
  BY DEF Phases, LivePhases
<1> QED  BY <1>1, <1>2 DEF Typed, TypeOK, RunTypes, Install

LEMMA TypedPrompt ==
  ASSUME Typed, NEW m \in Messages, PromptStep(m) \/ MessageRejected(m)
  PROVE  Typed'
<1>m. m \in Handlers
  BY DEF Handlers
<1> USE <1>m DEF Typed, TypeOK, EngineTypes, RunTypes, StopTypes, BoundaryTypes, OwnerCaptured,
            engineVars, clockVars, admissionVars, runVars, executorVars, scopeVars, retryVars,
            handlerVars, boundaryVars, stopVars
<1>1. CASE MessageFenced(m)
  BY <1>1 DEF MessageFenced, Goto, HandlerTypes, HandlerPcs, TokenKept, ScopeTypes
<1>2. CASE MessageForActiveRun(m)
  <2>1. HandlerTypes' /\ TokenKept'
    <3> DEFINE tgt == CaptureTarget(InjectRoute)
    <3>1. CASE tgt = None
      BY <1>2, <3>1, LeaveTyped DEF MessageForActiveRun, HandlerTypes, Outcomes
    <3>2. CASE tgt # None
      <4>1. InjectRoute \in {"fsm_active", "executor_fallback"}
        BY <1>2 DEF MessageForActiveRun, InjectRoute
      <4>2. tgt \in Target
        BY <3>2, <4>1, CapturedTarget
      <4> QED  BY <1>2, <3>2, <4>2 DEF MessageForActiveRun, Goto, HandlerTypes, HandlerPcs, TokenKept
    <3> QED  BY <3>1, <3>2
  <2> QED  BY <1>2, <2>1 DEF MessageForActiveRun, ScopeTypes
<1>3. CASE MessageWaitsForRun(m)
  BY <1>3 DEF MessageWaitsForRun, Goto, HandlerTypes, HandlerPcs, TokenKept, ScopeTypes
<1>4. CASE MessageReserves(m)
  <2>1. HandlerTypes' /\ TokenKept'
    BY <1>4, TryReserveTyped DEF MessageReserves, HandlerTypes
  <2> QED  BY <1>4, <2>1 DEF MessageReserves, ScopeTypes
<1>5. CASE RunWaited(m)
  <2>1. waitTask' \in [Handlers -> 0..MaxTasks]
    BY <1>5, ConstantsAssumption DEF RunWaited, HandlerTypes, ConstantsAssumption
  <2>2. HandlerTypes' /\ TokenKept'
    BY <1>5, <2>1, TryReserveTyped DEF RunWaited
  <2> QED  BY <1>5, <2>2 DEF RunWaited, ScopeTypes
<1>6. CASE MessageStale(m)
  <2>1. HandlerTypes' /\ TokenKept'
    BY <1>6, LeaveTyped DEF MessageStale, HandlerTypes, Outcomes
  <2>2. ScopeTypes'
    BY <1>6, ConstantsAssumption DEF MessageStale, ScopeTypes, ConstantsAssumption
  <2> QED  BY <1>6, <2>1, <2>2 DEF MessageStale
<1>7. CASE MessageConflict(m)
  BY <1>7, LeaveTyped DEF MessageConflict, HandlerTypes, Outcomes, ScopeTypes
<1>8. CASE MessageStarts(m)
  <2>1. NewScope(token[m]) \in Scope
    BY <1>8, NewScopeTyped DEF MessageStarts, TokenKept
  <2>2. RunTypes' /\ lastTask + 1 \in 0..MaxTasks
    BY <1>8, <2>1, InstallTyped DEF MessageStarts
  <2>3. HandlerTypes' /\ TokenKept'
    BY <1>8, LeaveTyped DEF MessageStarts, HandlerTypes, Outcomes
  <2>4. ScopeTypes'
    BY <1>8, <2>1, <2>2 DEF MessageStarts, ScopeTypes
  <2>5. fsm' \in EngineStates
    BY <1>8, TransitionStays DEF MessageStarts, Triggers
  <2> QED  BY <1>8, <2>2, <2>3, <2>4, <2>5 DEF MessageStarts
<1>9. CASE InjectionCommits(m)
  BY <1>9 DEF InjectionCommits, Goto, HandlerTypes, HandlerPcs, TokenKept, ScopeTypes
<1>10. CASE InjectionAbandoned(m)
  BY <1>10, LeaveTyped DEF InjectionAbandoned, HandlerTypes, Outcomes, ScopeTypes
<1>11. CASE InjectionPublished(m)
  BY <1>11, LeaveTyped DEF InjectionPublished, FinishCommit, HandlerTypes, Outcomes, ScopeTypes
<1>12. CASE MessageRejected(m)
  BY <1>12, LeaveTyped DEF MessageRejected, HandlerTypes, Outcomes, ScopeTypes
<1> QED
  BY <1>1, <1>2, <1>3, <1>4, <1>5, <1>6, <1>7, <1>8, <1>9, <1>10, <1>11, <1>12 DEF PromptStep

\* Queueing a retry, and what else a retry's route may do.
LEMMA UpsertTyped ==
  ASSUME Typed, NEW tok \in Token
  PROVE  Upsert(tok) \in Queued
<1>1. RunGeneration \in Nat
  BY DEF Typed, TypeOK, ScopeTypes, RunGeneration, Scope
<1>2. QueuedBy(tok) \in Queued
  BY <1>1 DEF QueuedBy, Queued, Token
<1> QED  BY <1>2 DEF Upsert, Typed, TypeOK, ScopeTypes

LEMMA RouteRetryTyped ==
  ASSUME Typed, NEW r \in Handlers, NEW tok \in Token, RouteRetry(r, tok), nextAid' \in Nat
  PROVE  HandlerTypes' /\ TokenKept' /\ fsm' \in EngineStates /\ pending' \in Queued \cup {None}
<1> USE DEF Typed, TypeOK, EngineTypes, ScopeTypes
<1>1. CASE running /\ Enqueue(r, tok)
  <2>1. HandlerTypes' /\ TokenKept'
    BY <1>1, LeaveTyped DEF Enqueue, Outcomes
  <2>2. fsm' \in EngineStates
    BY <1>1, TransitionStays DEF Enqueue, Triggers
  <2> QED  BY <1>1, <2>1, <2>2, UpsertTyped DEF Enqueue
<1>2. CASE Leave(r, "refused") /\ UNCHANGED <<fsm, pending>>
  BY <1>2, LeaveTyped DEF Outcomes
<1>3. CASE /\ Goto(r, "retryWait")
           /\ waitTask' = [waitTask EXCEPT ![r] = IF Live(runTask) THEN runTask ELSE 0]
           /\ active' = active \cup (IF pc[r] = "gate" THEN {r} ELSE {})
           /\ token' = [token EXCEPT ![r] = tok]
           /\ target' = [target EXCEPT ![r] = None]
           /\ UNCHANGED <<fsm, pending>>
  <2>1. (IF Live(runTask) THEN runTask ELSE 0) \in 0..MaxTasks
    BY ConstantsAssumption DEF RunTypes, ConstantsAssumption
  <2> QED  BY <1>3, <2>1 DEF HandlerTypes, TokenKept, Goto, HandlerPcs
<1> QED  BY <1>1, <1>2, <1>3 DEF RouteRetry

LEMMA TypedRetry ==
  ASSUME Typed, NEW r \in Retries, RetryStep(r) \/ RetryRefused(r)
  PROVE  Typed'
<1>r. r \in Handlers
  BY DEF Handlers
<1> USE <1>r DEF Typed, TypeOK, EngineTypes, RunTypes, StopTypes, BoundaryTypes, OwnerCaptured,
            engineVars, clockVars, admissionVars, runVars, executorVars, scopeVars, retryVars,
            handlerVars, boundaryVars, stopVars
<1>1. CASE RetryFenced(r)
  BY <1>1 DEF RetryFenced, Goto, HandlerTypes, HandlerPcs, TokenKept, ScopeTypes
<1>2. CASE RetryWaitsForPrompt(r)
  BY <1>2 DEF RetryWaitsForPrompt, Goto, HandlerTypes, HandlerPcs, TokenKept, ScopeTypes
<1>3. CASE RetryRefused(r)
  BY <1>3, LeaveTyped DEF RetryRefused, HandlerTypes, Outcomes, ScopeTypes
<1>4. CASE RetryRouted(r)
  <2>1. NextToken \in Token /\ nextAid' \in Nat
    BY <1>4 DEF RetryRouted, NextToken, Token, HandlerTypes
  <2>2. HandlerTypes' /\ TokenKept' /\ fsm' \in EngineStates /\ pending' \in Queued \cup {None}
    BY <1>4, <2>1, RouteRetryTyped DEF RetryRouted
  <2> QED  BY <1>4, <2>2 DEF RetryRouted, ScopeTypes
<1>5. CASE NoteReserves(r)
  <2> DEFINE owner == [scope |-> scope, detached |-> detached,
                       active |-> IF running THEN CaptureTarget("fsm_active") ELSE None]
  <2>1. CaptureTarget("fsm_active") \in Target \cup {None}
    BY CapturedTarget
  <2>2. owner \in NoteOwner
    BY <2>1 DEF NoteOwner, ScopeTypes
  <2> HIDE DEF owner
  <2>3. target' = [target EXCEPT ![r] = owner]
    BY <1>5 DEF NoteReserves, owner
  <2>4. HandlerTypes' /\ TokenKept'
    BY <1>5, <2>2, <2>3, ReserveTyped DEF NoteReserves, HandlerTypes, HandlerPcs, TokenKept, Goto
  <2> QED  BY <1>5, <2>4 DEF NoteReserves, ScopeTypes
<1>6. CASE NoteRefused(r)
  BY <1>6, LeaveTyped DEF NoteRefused, HandlerTypes, Outcomes, ScopeTypes
<1>7. CASE NoteCommits(r)
  <2>1. token[r] \in Token /\ nextAid' \in Nat
    BY <1>7 DEF NoteCommits, TokenKept, HandlerTypes
  <2>2. HandlerTypes' /\ TokenKept' /\ fsm' \in EngineStates /\ pending' \in Queued \cup {None}
    <3>1. CASE Enqueue(r, token[r])
      <4>1. HandlerTypes' /\ TokenKept'
        BY <2>1, <3>1, LeaveTyped DEF Enqueue, Outcomes
      <4>2. fsm' \in EngineStates
        BY <3>1, TransitionStays DEF Enqueue, Triggers
      <4> QED  BY <2>1, <3>1, <4>1, <4>2, UpsertTyped DEF Enqueue
    <3>2. CASE RouteRetry(r, token[r])
      BY <2>1, <3>2, RouteRetryTyped
    <3>3. CASE /\ Goto(r, "noteRoute")
               /\ UNCHANGED <<active, token, target, waitTask, fsm, pending>>
      BY <2>1, <3>3 DEF Goto, HandlerTypes, HandlerPcs, TokenKept, ScopeTypes
    <3> QED  BY <1>7, <3>1, <3>2, <3>3 DEF NoteCommits
  <2> QED  BY <1>7, <2>2 DEF NoteCommits, ScopeTypes
<1>8. CASE NoteRouted(r)
  <2>1. token[r] \in Token /\ nextAid' \in Nat
    BY <1>8 DEF NoteRouted, TokenKept, HandlerTypes
  <2>2. HandlerTypes' /\ TokenKept' /\ fsm' \in EngineStates /\ pending' \in Queued \cup {None}
    BY <1>8, <2>1, RouteRetryTyped DEF NoteRouted
  <2> QED  BY <1>8, <2>2 DEF NoteRouted, ScopeTypes
<1>9. CASE RetryNotStarted(r)
  BY <1>9, LeaveTyped DEF RetryNotStarted, HandlerTypes, Outcomes, ScopeTypes
<1>10. CASE RetryStarts(r)
  <2>1. HandlerTypes' /\ TokenKept'
    BY <1>10, LeaveTyped DEF RetryStarts, HandlerTypes, Outcomes
  <2>2. fsm' \in EngineStates
    BY <1>10, TransitionStays DEF RetryStarts, Triggers
  <2>3. token[r] \in Token
    BY <1>10 DEF RetryStarts, RetryWaitOver, TokenKept
  <2>4. RetryScope(token[r]) \in Scope
    BY <2>3, NewScopeTyped DEF RetryScope, ScopeTypes, Scope, Token
  <2>5. RunTypes' /\ ScopeTypes'
    <3>1. CASE r \in active
      <4>1. RunTypes' /\ lastTask + 1 \in 0..MaxTasks
        BY <1>10, <2>4, <3>1, InstallTyped DEF RetryStarts
      <4> QED  BY <1>10, <2>4, <3>1, <4>1 DEF RetryStarts, ScopeTypes
    <3>2. CASE r \notin active
      BY <1>10, <3>2 DEF RetryStarts, ScopeTypes
    <3> QED  BY <3>1, <3>2
  <2> QED  BY <1>10, <2>1, <2>2, <2>5 DEF RetryStarts
<1> QED
  BY <1>1, <1>2, <1>3, <1>4, <1>5, <1>6, <1>7, <1>8, <1>9, <1>10 DEF RetryStep

LEMMA TypedRun ==
  ASSUME Typed, NEW t \in Tasks, RunStep(t) \/ RunRaises(t)
  PROVE  Typed'
<1> USE DEF Typed, TypeOK, EngineTypes, HandlerTypes, BoundaryTypes, OwnerCaptured, TokenKept,
            engineVars, clockVars, admissionVars, runVars, executorVars, scopeVars, retryVars,
            handlerVars, boundaryVars, stopVars
<1>1. CASE RunEntersExecutor(t)
  <2>1. RunTypes'
    BY <1>1 DEF RunEntersExecutor, RunTypes, Phases, LivePhases, Results
  <2>2. StopTypes'
    BY <1>1 DEF RunEntersExecutor, StopTypes
  <2>3. ScopeTypes'
    BY <1>1, ConstantsAssumption DEF RunEntersExecutor, CloseWindow, ScopeTypes, ConstantsAssumption
  <2> QED  BY <1>1, <2>1, <2>2, <2>3 DEF RunEntersExecutor
<1>2. CASE ExecutorReturns(t)
  <2>1. RunTypes'
    BY <1>2 DEF ExecutorReturns, RunTypes, Phases, LivePhases, Results
  <2>2. StopTypes'
    BY <1>2 DEF ExecutorReturns, StopTypes
  <2>3. ScopeTypes'
    BY <1>2, ConstantsAssumption DEF ExecutorReturns, CloseWindow, ScopeTypes, ConstantsAssumption
  <2> QED  BY <1>2, <2>1, <2>2, <2>3 DEF ExecutorReturns
<1>3. CASE RunReachesTerminal(t)
  <2>1. fsm' \in EngineStates
    <3>1. result = "interrupted" \/ result = "failed" \/ result = "ok"
      BY DEF RunTypes, Results
    <3>2. \E trigger \in Triggers : fsm' = TryTransition(fsm, trigger)
      BY <1>3, <3>1 DEF RunReachesTerminal, Triggers
    <3> QED  BY <3>2, TransitionStays
  <2>2. RunTypes'
    BY <1>3 DEF RunReachesTerminal, RunTypes, Phases, LivePhases
  <2>3. StopTypes'
    BY <1>3 DEF RunReachesTerminal, StopTypes
  <2> QED  BY ZenonT(60), <1>3, <2>1, <2>2, <2>3 DEF RunReachesTerminal, ScopeTypes
<1>4. CASE RunDispatchesRetry(t)
  <2>1. lastTask + 1 \in Tasks /\ lastTask + 1 \in 0..MaxTasks
    BY <1>4, ConstantsAssumption DEF RunDispatchesRetry, RunTypes, Tasks, ConstantsAssumption
  <2>2. RunTypes'
    BY <1>4, <2>1 DEF RunDispatchesRetry, RunTypes, ScopeTypes, Phases, LivePhases
  <2>3. ScopeTypes'
    BY <1>4, <2>1 DEF RunDispatchesRetry, DropQueuedRetry, ScopeTypes
  <2>4. StopTypes'
    BY <1>4 DEF RunDispatchesRetry, StopTypes
  <2> QED  BY <1>4, <2>2, <2>3, <2>4 DEF RunDispatchesRetry
<1>5. CASE RunEnds(t)
  <2>1. RunTypes'
    BY <1>5 DEF RunEnds, RunTypes, Phases
  <2>2. ScopeTypes'
    BY <1>5, ConstantsAssumption DEF RunEnds, DropQueuedRetry, ScopeTypes, ConstantsAssumption
  <2>3. StopTypes'
    BY <1>5 DEF RunEnds, StopTypes
  <2> QED  BY <1>5, <2>1, <2>2, <2>3 DEF RunEnds
<1>6. CASE RunRaises(t)
  <2>1. RunTypes'
    BY <1>6 DEF RunRaises, RunTypes, Phases
  <2> QED  BY <1>6, <2>1 DEF RunRaises, ScopeTypes, StopTypes
<1> QED  BY <1>1, <1>2, <1>3, <1>4, <1>5, <1>6 DEF RunStep

\* Pauses, resolutions and stops.
LEMMA TypedStop ==
  ASSUME Typed,
         (\E a \in SubAgents : SubAgentPauses(a) \/ SubAgentResolves(a)) \/ StopRequested \/ StopLands
  PROVE  Typed'
<1> USE DEF Typed, TypeOK, EngineTypes, HandlerTypes, RunTypes, ScopeTypes, BoundaryTypes,
            OwnerCaptured, TokenKept,
            engineVars, clockVars, admissionVars, runVars, executorVars, scopeVars, retryVars,
            handlerVars, boundaryVars, stopVars
<1>1. ASSUME NEW a \in SubAgents, SubAgentPauses(a) PROVE Typed'
  <2>1. fsm' \in EngineStates
    BY <1>1, TransitionStays DEF SubAgentPauses, Triggers
  <2> QED  BY <1>1, <2>1 DEF SubAgentPauses, StopTypes
<1>2. ASSUME NEW a \in SubAgents, SubAgentResolves(a) PROVE Typed'
  <2>1. fsm' \in EngineStates
    BY <1>2, TransitionStays DEF SubAgentResolves, Triggers
  <2> QED  BY <1>2, <2>1 DEF SubAgentResolves, StopTypes
<1>3. CASE StopRequested
  <2>1. runTask \in Tasks
    BY <1>3, ConstantsAssumption DEF StopRequested, Live, Tasks, ConstantsAssumption
  <2>2. stops' \in 0..MaxStops
    BY <1>3, ConstantsAssumption DEF StopRequested, StopTypes, ConstantsAssumption
  <2> QED  BY <1>3, <2>1, <2>2 DEF StopRequested, StopTypes
<1>4. CASE StopLands
  <2>1. fsm' \in EngineStates
    BY <1>4, TransitionStays DEF StopLands, Triggers
  <2>2. stopTask \in Tasks
    BY <1>4, ConstantsAssumption DEF StopLands, StopTypes, Tasks, ConstantsAssumption
  <2>3. 0 \in 0..MaxTasks
    BY ConstantsAssumption DEF ConstantsAssumption
  <2>4. StopTypes'
    <3>1. stopFlag' \in BOOLEAN
      BY <1>4 DEF StopLands, StopTypes
    <3>2. paused' \subseteq SubAgents /\ preInterrupt' \subseteq Tasks
      BY <1>4, <2>2 DEF StopLands, StopTypes
    <3> QED  BY <1>4, <2>3, <3>1, <3>2 DEF StopLands, StopTypes
  <2> QED  BY <1>4, <2>1, <2>4 DEF StopLands
<1> QED  BY <1>1, <1>2, <1>3, <1>4

LEMMA ProceedTyped ==
  ASSUME Typed, NEW b \in Boundaries, NEW step \in BoundaryPcs, Proceed(b, step),
         bpc[b] # "new" \/ b \notin Rollbacks \cup Rebuilds, captured' = captured
  PROVE  bpc' \in [Boundaries -> BoundaryPcs] /\ OwnerCaptured'
BY DEF Typed, TypeOK, BoundaryTypes, Proceed, OwnerCaptured, Boundaries, Transitioners

\* The steps of a boundary up to its commit or its permit.
LEMMA TypedBoundaryBegins ==
  ASSUME Typed, NEW b \in Boundaries,
         \/ BoundaryRequested(b) \/ BoundaryAcquires(b) \/ AdmissionsDrained(b)
         \/ TransitionPrepares(b) \/ ClearDetaches(b) \/ TransitionFails(b)
         \/ RollbackCapturesRun(b) \/ RollbackFails(b)
         \/ RebuildCommitsIdle(b) \/ RebuildRunDrained(b) \/ RebuildValidates(b)
  PROVE  Typed'
<1> USE DEF Typed, TypeOK, EngineTypes, HandlerTypes, RunTypes, StopTypes, ScopeTypes, TokenKept,
            engineVars, clockVars, admissionVars, runVars, executorVars, scopeVars, retryVars,
            handlerVars, boundaryVars, stopVars
<1>1. CASE BoundaryRequested(b)
  <2>1. Clocks \in OwnerClocks
    BY ConstantsAssumption DEF Clocks, OwnerClocks, ConstantsAssumption
  <2>2. captured' \in [Boundaries -> OwnerClocks \cup {None}] /\ captured'[b] \in OwnerClocks
    BY <1>1, <2>1 DEF BoundaryRequested, BoundaryTypes
  <2>3. bpc' \in [Boundaries -> BoundaryPcs]
    BY <1>1 DEF BoundaryRequested, Proceed, BoundaryTypes, BoundaryPcs
  <2>4. OwnerCaptured'
    BY <1>1, <2>2 DEF BoundaryRequested, Proceed, BoundaryTypes, OwnerCaptured, Boundaries, Transitioners
  <2> QED  BY <1>1, <2>2, <2>3, <2>4 DEF BoundaryRequested, BoundaryTypes
<1>2. CASE BoundaryAcquires(b)
  <2>1. bpc[b] # "new" \/ b \notin Rollbacks \cup Rebuilds
    BY <1>2 DEF BoundaryAcquires
  <2>2. bpc' \in [Boundaries -> BoundaryPcs] /\ OwnerCaptured'
    BY <1>2, <2>1, ProceedTyped DEF BoundaryAcquires, BoundaryPcs
  <2> QED  BY <1>2, <2>2 DEF BoundaryAcquires, BoundaryTypes
<1>3. CASE AdmissionsDrained(b)
  BY <1>3, ProceedTyped DEF AdmissionsDrained, BoundaryPcs, BoundaryTypes
<1>4. CASE TransitionPrepares(b)
  BY <1>4, ProceedTyped DEF TransitionPrepares, BoundaryPcs, BoundaryTypes
<1>5. CASE ClearDetaches(b)
  BY <1>5, ProceedTyped DEF ClearDetaches, BoundaryPcs, BoundaryTypes
<1>6. CASE TransitionFails(b)
  <2>1. bpc' \in [Boundaries -> BoundaryPcs] /\ OwnerCaptured'
    BY <1>6, ProceedTyped DEF TransitionFails, BoundaryPcs
  <2>2. detached' \in BOOLEAN
    BY <1>6 DEF TransitionFails
  <2> QED  BY <1>6, <2>1, <2>2 DEF TransitionFails, BoundaryTypes
<1>7. CASE RollbackCapturesRun(b)
  <2>1. captured[b] \in OwnerClocks
    BY <1>7 DEF RollbackCapturesRun, OwnerCaptured
  <2>2. [captured[b] EXCEPT !.task = runTask] \in OwnerClocks
    BY <2>1, ConstantsAssumption DEF OwnerClocks, ConstantsAssumption
  <2>3. captured' = [captured EXCEPT ![b] = [captured[b] EXCEPT !.task = runTask]]
    BY <1>7 DEF RollbackCapturesRun, BoundaryTypes
  <2>4. captured' \in [Boundaries -> OwnerClocks \cup {None}] /\ captured'[b] \in OwnerClocks
    BY <2>2, <2>3 DEF BoundaryTypes
  <2>5. bpc' \in [Boundaries -> BoundaryPcs]
    BY <1>7 DEF RollbackCapturesRun, Proceed, BoundaryTypes, BoundaryPcs
  <2>6. OwnerCaptured'
    BY <1>7, <2>3, <2>4 DEF RollbackCapturesRun, Proceed, BoundaryTypes, OwnerCaptured, Boundaries, Transitioners
  <2> QED  BY <1>7, <2>4, <2>5, <2>6 DEF RollbackCapturesRun, BoundaryTypes
<1>8. CASE RollbackFails(b)
  BY <1>8, ProceedTyped DEF RollbackFails, BoundaryPcs, BoundaryTypes
<1>9. CASE RebuildCommitsIdle(b)
  BY <1>9, ProceedTyped DEF RebuildCommitsIdle, BoundaryPcs, BoundaryTypes
<1>10. CASE RebuildRunDrained(b)
  BY <1>10, ProceedTyped DEF RebuildRunDrained, BoundaryPcs, BoundaryTypes
<1>11. CASE RebuildValidates(b)
  BY <1>11, ProceedTyped DEF RebuildValidates, BoundaryPcs, BoundaryTypes
<1> QED
  BY <1>1, <1>2, <1>3, <1>4, <1>5, <1>6, <1>7, <1>8, <1>9, <1>10, <1>11

LEMMA CommitTyped ==
  ASSUME Typed, CommitTransition, scope' = scope, nextRun' = nextRun, commits' = commits
  PROVE  ScopeTypes' /\ sessionGen' \in Nat /\ active' \subseteq Handlers
<1>1. pending # None => [pending EXCEPT !.disabled = TRUE] \in Queued
  BY DEF Typed, TypeOK, ScopeTypes, Queued
<1> QED
  BY <1>1, ConstantsAssumption
     DEF Typed, TypeOK, EngineTypes, ScopeTypes, CommitTransition, ConstantsAssumption

\* The commit, the shutdown, the load and the end.
LEMMA TypedBoundaryEnds ==
  ASSUME Typed, NEW b \in Boundaries,
         \/ TransitionCommits(b) \/ RollbackDecides(b) \/ RollbackShutsDown(b)
         \/ ShutdownTimesOut(b) \/ ShutdownObservesRun(b) \/ ShutdownRaises(b) \/ EngineTornDown(b)
         \/ LoadBegins(b) \/ LoadFails(b) \/ LoadCommits(b) \/ BoundaryFinishes(b)
  PROVE  Typed'
<1> USE DEF Typed, TypeOK, TokenKept,
            engineVars, clockVars, admissionVars, runVars, executorVars, scopeVars, retryVars,
            handlerVars, boundaryVars, stopVars
<1>0. 0 \in 0..MaxTasks
  BY ConstantsAssumption DEF ConstantsAssumption
<1>1. CASE TransitionCommits(b)
  <2>1. ScopeTypes' /\ sessionGen' \in Nat /\ active' \subseteq Handlers
    BY <1>1, CommitTyped DEF TransitionCommits
  <2>2. fsm' \in EngineStates
    BY <1>1, TransitionStays DEF TransitionCommits, BeginShutdown, EngineTypes, Triggers
  <2>3. bpc[b] # "new" \/ b \notin Rollbacks \cup Rebuilds
    BY <1>1 DEF TransitionCommits
  <2>4. bpc' \in [Boundaries -> BoundaryPcs] /\ OwnerCaptured'
    BY <1>1, <2>3, ProceedTyped DEF TransitionCommits, BeginShutdown, BoundaryPcs
  <2>5. EngineTypes' /\ StopTypes'
    BY <1>1, <2>1, <2>2 DEF TransitionCommits, BeginShutdown, EngineTypes, StopTypes
  <2> QED  BY <1>1, <2>1, <2>4, <2>5 DEF TransitionCommits, HandlerTypes, RunTypes, BoundaryTypes
<1>2. CASE RollbackDecides(b)
  <2>1. bpc' \in [Boundaries -> BoundaryPcs] /\ OwnerCaptured'
    BY <1>2, ProceedTyped DEF RollbackDecides, BoundaryPcs
  <2>2. ScopeTypes' /\ sessionGen' \in Nat /\ active' \subseteq Handlers
    <3>1. CASE UNCHANGED <<sessionGen, active, window, retryVars>>
      BY <1>2, <3>1 DEF RollbackDecides, ScopeTypes, EngineTypes, HandlerTypes
    <3>2. CASE CommitTransition
      BY <1>2, <3>2, CommitTyped DEF RollbackDecides
    <3> QED  BY <1>2, <3>1, <3>2 DEF RollbackDecides
  <2> QED
    BY <1>2, <2>1, <2>2 DEF RollbackDecides, EngineTypes, HandlerTypes, RunTypes, StopTypes, BoundaryTypes
<1>3. CASE RollbackShutsDown(b)
  <2>1. fsm' \in EngineStates
    BY <1>3, TransitionStays DEF RollbackShutsDown, BeginShutdown, EngineTypes, Triggers
  <2>2. bpc' \in [Boundaries -> BoundaryPcs] /\ OwnerCaptured'
    BY <1>3, ProceedTyped DEF RollbackShutsDown, BeginShutdown, BoundaryPcs
  <2>3. EngineTypes' /\ StopTypes'
    BY <1>3, <2>1 DEF RollbackShutsDown, BeginShutdown, EngineTypes, StopTypes
  <2> QED
    BY <1>3, <2>2, <2>3 DEF RollbackShutsDown, HandlerTypes, RunTypes, ScopeTypes, BoundaryTypes
<1>4. CASE ShutdownTimesOut(b)
  <2>1. bpc' \in [Boundaries -> BoundaryPcs] /\ OwnerCaptured'
    BY <1>4, ProceedTyped DEF ShutdownTimesOut, BoundaryPcs
  <2>2. phase' \in [Tasks -> Phases] /\ stopFlag' \in BOOLEAN
    BY <1>4 DEF ShutdownTimesOut, RunTypes, StopTypes, Phases
  <2> QED
    BY <1>4, <2>1, <2>2
       DEF ShutdownTimesOut, EngineTypes, HandlerTypes, RunTypes, StopTypes, ScopeTypes, BoundaryTypes
<1>5. CASE ShutdownObservesRun(b)
  <2>1. bpc[b] # "new"
    BY <1>5 DEF ShutdownObservesRun
  <2>2. bpc' \in [Boundaries -> BoundaryPcs] /\ OwnerCaptured'
    BY <1>5, <2>1, ProceedTyped DEF ShutdownObservesRun, BoundaryPcs
  <2> QED
    BY <1>0, <1>5, <2>2
       DEF ShutdownObservesRun, EngineTypes, HandlerTypes, RunTypes, StopTypes, ScopeTypes, BoundaryTypes
<1>6. CASE EngineTornDown(b)
  <2>1. bpc' \in [Boundaries -> BoundaryPcs] /\ OwnerCaptured'
    BY <1>6, ProceedTyped DEF EngineTornDown, BoundaryPcs
  <2>2. EngineTypes'
    BY <1>6 DEF EngineTornDown, EngineTypes, EngineStates
  <2>3. StopTypes'
    BY <1>6 DEF EngineTornDown, StopTypes
  <2>4. ScopeTypes'
    BY <1>0, <1>6 DEF EngineTornDown, ScopeTypes
  <2> QED
    BY <1>6, <2>1, <2>2, <2>3, <2>4 DEF EngineTornDown, HandlerTypes, RunTypes, BoundaryTypes
<1>7. CASE LoadBegins(b)
  <2>1. bpc[b] # "new"
    BY <1>7 DEF LoadBegins
  <2>2. bpc' \in [Boundaries -> BoundaryPcs] /\ OwnerCaptured'
    BY <1>7, <2>1, ProceedTyped DEF LoadBegins, BoundaryPcs
  <2> QED
    BY <1>7, <2>2
       DEF LoadBegins, EngineTypes, HandlerTypes, RunTypes, StopTypes, ScopeTypes, BoundaryTypes
<1>8. CASE LoadFails(b)
  <2>1. bpc' \in [Boundaries -> BoundaryPcs] /\ OwnerCaptured'
    BY <1>8, ProceedTyped DEF LoadFails, BoundaryPcs
  <2>2. EngineTypes'
    BY <1>8 DEF LoadFails, EngineTypes
  <2>3. HandlerTypes' /\ RunTypes'
    BY <1>8 DEF LoadFails, HandlerTypes, RunTypes
  <2>4. StopTypes' /\ ScopeTypes'
    BY <1>8 DEF LoadFails, StopTypes, ScopeTypes
  <2> QED
    BY <1>8, <2>1, <2>2, <2>3, <2>4 DEF LoadFails, BoundaryTypes
<1>9. CASE LoadCommits(b)
  <2>1. fsm' \in EngineStates
    <3> DEFINE started == TryTransition(fsm, "START")
    <3>1. started \in EngineStates
      BY TransitionStays DEF EngineTypes, Triggers
    <3>2. /\ TryTransition(started, "RESTORE_INTERRUPTED") \in EngineStates
          /\ TryTransition(started, "RESTORE_FAILED") \in EngineStates
      BY <3>1, TransitionStays DEF Triggers
    <3> HIDE DEF started
    <3>3. fsm' \in {fsm, started} \cup {TryTransition(started, "RESTORE_INTERRUPTED"),
                                        TryTransition(started, "RESTORE_FAILED")}
      BY <1>9 DEF LoadCommits, started
    <3> QED  BY <3>1, <3>2, <3>3 DEF EngineTypes
  <2>2. bpc' \in [Boundaries -> BoundaryPcs] /\ OwnerCaptured'
    BY <1>9, ProceedTyped DEF LoadCommits, BoundaryPcs
  <2>3. loading' = FALSE /\ executorUp' = TRUE /\ buildGen' = buildGen + 1
    BY <1>9 DEF LoadCommits
  <2>4. /\ sessionGen' \in Nat /\ loadGen' \in Nat /\ buildGen' \in Nat
        /\ shuttingDown' \in BOOLEAN /\ detached' \in BOOLEAN
    BY <1>9, <2>3 DEF LoadCommits, EngineTypes
  <2>5. loading' \in BOOLEAN /\ executorUp' \in BOOLEAN
    BY <2>3
  <2>6. EngineTypes'
    BY <2>1, <2>4, <2>5 DEF EngineTypes
  <2> QED
    BY <1>9, <2>2, <2>6
       DEF LoadCommits, HandlerTypes, RunTypes, StopTypes, ScopeTypes, BoundaryTypes
<1>10. CASE BoundaryFinishes(b)
  <2>1. bpc' \in [Boundaries -> BoundaryPcs] /\ OwnerCaptured'
    BY <1>10, ProceedTyped DEF BoundaryFinishes, BoundaryPcs
  <2> QED
    BY <1>10, <2>1
       DEF BoundaryFinishes, EngineTypes, HandlerTypes, RunTypes, StopTypes, ScopeTypes, BoundaryTypes
<1>11. CASE ShutdownRaises(b)
  <2>1. bpc[b] # "new"
    BY <1>11 DEF ShutdownRaises
  <2>2. bpc' \in [Boundaries -> BoundaryPcs] /\ OwnerCaptured'
    BY <1>11, <2>1, ProceedTyped DEF ShutdownRaises, BoundaryPcs
  <2> QED
    BY <1>11, <2>2
       DEF ShutdownRaises, EngineTypes, HandlerTypes, RunTypes, StopTypes, ScopeTypes, BoundaryTypes
<1> QED
  BY <1>1, <1>2, <1>3, <1>4, <1>5, <1>6, <1>7, <1>8, <1>9, <1>10, <1>11

LEMMA TypedNext == Typed /\ [Next]_vars => Typed'
<1> SUFFICES ASSUME Typed, [Next]_vars PROVE Typed'
  OBVIOUS
<1>1. ASSUME NEW h \in Handlers, HandlerStep(h) \/ HandlerChoice(h) PROVE Typed'
  <2>1. CASE \/ NotReady(h) \/ FenceOpened(h) \/ AdmissionsIdle(h) \/ WaitFails(h) \/ Submit(h)
    BY <2>1, TypedHandler
  <2>2. CASE h \in Messages /\ (PromptStep(h) \/ MessageRejected(h))
    BY <2>2, TypedPrompt
  <2>3. CASE h \in Retries /\ (RetryStep(h) \/ RetryRefused(h))
    BY <2>3, TypedRetry
  <2> QED  BY <1>1, <2>1, <2>2, <2>3 DEF HandlerStep, HandlerChoice
<1>2. ASSUME NEW t \in Tasks, RunStep(t) \/ RunRaises(t) PROVE Typed'
  BY <1>2, TypedRun
<1>3. CASE (\E a \in SubAgents : SubAgentPauses(a) \/ SubAgentResolves(a)) \/ StopRequested \/ StopLands
  BY <1>3, TypedStop
<1>4. ASSUME NEW b \in Boundaries, BoundaryRequested(b) \/ BoundaryStep(b) PROVE Typed'
  BY <1>4, TypedBoundaryBegins, TypedBoundaryEnds DEF BoundaryStep
<1>5. CASE UNCHANGED vars
  BY <1>5 DEF vars, engineVars, clockVars, admissionVars, runVars, executorVars, scopeVars, retryVars,
          handlerVars, boundaryVars, stopVars, Typed, TypeOK, EngineTypes, HandlerTypes, RunTypes,
          StopTypes, ScopeTypes, BoundaryTypes, TokenKept, OwnerCaptured
<1> QED  BY <1>1, <1>2, <1>3, <1>4, <1>5 DEF Next, Rest

\* Every variable keeps the kind of value its attribute holds in the code.
THEOREM TypeCorrect == Spec => []TypeOK
<1>1. Init => Typed
  BY TypedInit, ConstantsAssumption
<1>2. Typed /\ [Next]_vars => Typed'
  BY TypedNext
<1>3. Typed => TypeOK
  BY DEF Typed
<1> QED  BY <1>1, <1>2, <1>3, PTL DEF Spec

-----------------------------------------------------------------------------
(* The run-task slot.  SingleLiveRun is inductive with the types: only a    *)
(* promotion, a run's own step and a shutdown touch the slot, and each has  *)
(* looked at it in the same stretch.                                        *)

SlotUntouched == UNCHANGED <<runTask, phase, tscope, lastTask>>

\* A promotion: the slot's task is looked at and replaced without an await.
SlotTaken == ~Live(runTask) /\ \E sc : Install(sc)

LEMMA HandlerSlot ==
  ASSUME NEW h \in Handlers, HandlerStep(h) \/ HandlerChoice(h)
  PROVE  SlotUntouched \/ SlotTaken
<1> USE DEF SlotUntouched, runVars
<1>1. CASE NotReady(h) \/ FenceOpened(h) \/ AdmissionsIdle(h) \/ WaitFails(h) \/ Submit(h)
  BY <1>1 DEF NotReady, FenceOpened, AdmissionsIdle, WaitFails, Submit
<1>2. CASE \/ MessageFenced(h) \/ MessageForActiveRun(h) \/ MessageWaitsForRun(h)
           \/ MessageReserves(h) \/ RunWaited(h)
  BY <1>2 DEF MessageFenced, MessageForActiveRun, MessageWaitsForRun, MessageReserves, RunWaited
<1>3. CASE \/ MessageStale(h) \/ MessageConflict(h) \/ MessageRejected(h)
           \/ InjectionCommits(h) \/ InjectionAbandoned(h) \/ InjectionPublished(h)
  BY <1>3 DEF MessageStale, MessageConflict, MessageRejected,
              InjectionCommits, InjectionAbandoned, InjectionPublished
<1>4. CASE MessageStarts(h)
  BY <1>4 DEF MessageStarts, FreshConflict, SlotTaken
<1>5. CASE \/ RetryFenced(h) \/ RetryWaitsForPrompt(h) \/ RetryRefused(h) \/ RetryRouted(h)
           \/ RetryNotStarted(h)
  BY <1>5 DEF RetryFenced, RetryWaitsForPrompt, RetryRefused, RetryRouted, RetryNotStarted
<1>6. CASE NoteReserves(h) \/ NoteRefused(h) \/ NoteCommits(h) \/ NoteRouted(h)
  BY <1>6 DEF NoteReserves, NoteRefused, NoteCommits, NoteRouted
<1>7. CASE RetryStarts(h)
  <2>1. CASE h \in active
    BY <1>7, <2>1 DEF RetryStarts, SlotTaken
  <2>2. CASE h \notin active
    BY <1>7, <2>2 DEF RetryStarts
  <2> QED  BY <2>1, <2>2
<1> QED
  BY <1>1, <1>2, <1>3, <1>4, <1>5, <1>6, <1>7 DEF HandlerStep, HandlerChoice, PromptStep, RetryStep

LEMMA BoundarySlot ==
  ASSUME NEW b \in Boundaries, BoundaryRequested(b) \/ BoundaryStep(b)
  PROVE  SlotUntouched \/ ShutdownTimesOut(b) \/ ShutdownObservesRun(b)
<1> USE DEF SlotUntouched, runVars
<1>1. CASE \/ BoundaryRequested(b) \/ BoundaryAcquires(b) \/ AdmissionsDrained(b)
           \/ TransitionCommits(b) \/ TransitionPrepares(b) \/ ClearDetaches(b) \/ TransitionFails(b)
  BY <1>1 DEF BoundaryRequested, BoundaryAcquires, AdmissionsDrained,
              TransitionCommits, TransitionPrepares, ClearDetaches, TransitionFails
<1>2. CASE \/ RollbackCapturesRun(b) \/ RollbackDecides(b) \/ RollbackFails(b) \/ RollbackShutsDown(b)
           \/ EngineTornDown(b) \/ RebuildCommitsIdle(b) \/ RebuildRunDrained(b) \/ RebuildValidates(b)
  BY <1>2 DEF RollbackCapturesRun, RollbackDecides, RollbackFails, RollbackShutsDown,
              EngineTornDown, RebuildCommitsIdle, RebuildRunDrained, RebuildValidates
<1>3. CASE LoadBegins(b) \/ LoadFails(b) \/ LoadCommits(b) \/ BoundaryFinishes(b)
  BY <1>3 DEF LoadBegins, LoadFails, LoadCommits, BoundaryFinishes
<1>4. CASE ShutdownRaises(b)
  BY <1>4 DEF ShutdownRaises
<1> QED  BY <1>1, <1>2, <1>3, <1>4 DEF BoundaryStep

\* Everything a step may do to the slot.
LEMMA SlotStep ==
  ASSUME [Next]_vars
  PROVE  \/ SlotUntouched
         \/ SlotTaken
         \/ \E t \in Tasks : RunStep(t) \/ RunRaises(t)
         \/ \E b \in Boundaries : ShutdownTimesOut(b) \/ ShutdownObservesRun(b)
<1>1. ASSUME NEW a \in SubAgents, SubAgentPauses(a) \/ SubAgentResolves(a) PROVE SlotUntouched
  BY <1>1 DEF SubAgentPauses, SubAgentResolves, SlotUntouched, runVars
<1>2. CASE StopRequested \/ StopLands
  BY <1>2 DEF StopRequested, StopLands, SlotUntouched, runVars
<1>3. CASE UNCHANGED vars
  BY <1>3 DEF vars, SlotUntouched, runVars
<1> QED  BY <1>1, <1>2, <1>3, HandlerSlot, BoundarySlot DEF Next, Rest

LEMMA SingleNext == Typed /\ SingleLiveRun /\ [Next]_vars => SingleLiveRun'
<1> SUFFICES ASSUME Typed, SingleLiveRun, [Next]_vars, NEW u \in Tasks, Live(u)'
             PROVE  u = runTask'
  BY DEF SingleLiveRun
<1> USE DEF Live, SingleLiveRun, Typed, TypeOK, RunTypes
<1>0. u # 0
  BY DEF Tasks
<1>1. CASE SlotUntouched
  BY <1>1 DEF SlotUntouched
<1>2. CASE SlotTaken
  <2>1. \A t \in Tasks : ~Live(t)
    BY <1>2 DEF SlotTaken
  <2>2. CASE u = lastTask + 1
    BY <1>2, <2>2 DEF SlotTaken, Install
  <2>3. CASE u # lastTask + 1
    BY <1>0, <1>2, <2>1, <2>3 DEF SlotTaken, Install
  <2> QED  BY <2>2, <2>3
<1>3. ASSUME NEW t \in Tasks, RunStep(t) PROVE u = runTask'
  <2>1. CASE RunEntersExecutor(t)
    BY <1>0, <2>1 DEF RunEntersExecutor, LivePhases
  <2>2. CASE ExecutorReturns(t)
    BY <1>0, <2>2 DEF ExecutorReturns, LivePhases
  <2>3. CASE RunReachesTerminal(t)
    BY <1>0, <2>3 DEF RunReachesTerminal, LivePhases
  <2>4. CASE RunDispatchesRetry(t)
    <3>1. t = runTask
      BY <2>4 DEF RunDispatchesRetry, Tasks, LivePhases
    <3>2. CASE u = lastTask + 1
      BY <2>4, <3>2 DEF RunDispatchesRetry
    <3>3. CASE u # lastTask + 1
      <4>1. phase'[u] = IF u = t THEN "done" ELSE phase[u]
        BY <2>4, <3>3 DEF RunDispatchesRetry
      <4>2. u # t
        BY <4>1 DEF LivePhases
      <4> QED  BY <1>0, <3>1, <4>1, <4>2
    <3> QED  BY <3>2, <3>3
  <2>5. CASE RunEnds(t)
    BY <1>0, <2>5 DEF RunEnds, LivePhases
  <2> QED  BY <1>3, <2>1, <2>2, <2>3, <2>4, <2>5 DEF RunStep
<1>4. ASSUME NEW b \in Boundaries, ShutdownTimesOut(b) PROVE u = runTask'
  BY <1>0, <1>4 DEF ShutdownTimesOut, LivePhases
<1>5. ASSUME NEW b \in Boundaries, ShutdownObservesRun(b) PROVE u = runTask'
  BY <1>0, <1>5 DEF ShutdownObservesRun, RunIsQuiet
<1>6. ASSUME NEW t \in Tasks, RunRaises(t) PROVE u = runTask'
  BY <1>0, <1>6 DEF RunRaises, LivePhases
<1> QED  BY <1>1, <1>2, <1>3, <1>4, <1>5, <1>6, SlotStep

\* At most one run is alive, and it is the one in the slot, however many
\* prompts, retries and boundaries race for it.
THEOREM OneLiveRun == Spec => []SingleLiveRun
<1>1. Init => Typed /\ SingleLiveRun
  <2>1. Init => Typed
    BY TypedInit, ConstantsAssumption
  <2>2. Init => SingleLiveRun
    BY DEF Init, SingleLiveRun, Live, LivePhases
  <2> QED  BY <2>1, <2>2
<1>2. Typed /\ SingleLiveRun /\ [Next]_vars => (Typed /\ SingleLiveRun)'
  BY TypedNext, SingleNext
<1> QED  BY <1>1, <1>2, PTL DEF Spec

-----------------------------------------------------------------------------
(* The queued retry: whatever a step does to it, an update never goes back. *)

\* A queued retry is kept, dropped, disabled or updated by an admission.
PendingUpdated ==
  \/ pending' = pending
  \/ pending' = None
  \/ pending # None /\ pending' = [pending EXCEPT !.disabled = TRUE]
  \/ \E tok \in Token : pending' = Upsert(tok)

LEMMA RoutePending ==
  ASSUME NEW r \in Handlers, NEW tok \in Token, RouteRetry(r, tok) \/ Enqueue(r, tok)
  PROVE  PendingUpdated
BY DEF RouteRetry, Enqueue, PendingUpdated

LEMMA HandlerPending ==
  ASSUME Typed, NEW h \in Handlers, HandlerStep(h) \/ HandlerChoice(h)
  PROVE  PendingUpdated
<1> USE DEF retryVars
<1>1. CASE NotReady(h) \/ FenceOpened(h) \/ AdmissionsIdle(h) \/ WaitFails(h) \/ Submit(h)
  BY <1>1 DEF NotReady, FenceOpened, AdmissionsIdle, WaitFails, Submit, PendingUpdated
<1>2. CASE \/ MessageFenced(h) \/ MessageForActiveRun(h) \/ MessageWaitsForRun(h)
           \/ MessageReserves(h) \/ RunWaited(h)
  BY <1>2 DEF MessageFenced, MessageForActiveRun, MessageWaitsForRun, MessageReserves, RunWaited,
              PendingUpdated
<1>3. CASE \/ MessageStale(h) \/ MessageConflict(h) \/ MessageRejected(h) \/ MessageStarts(h)
           \/ InjectionCommits(h) \/ InjectionAbandoned(h) \/ InjectionPublished(h)
  BY <1>3 DEF MessageStale, MessageConflict, MessageRejected, MessageStarts,
              InjectionCommits, InjectionAbandoned, InjectionPublished, PendingUpdated
<1>4. CASE \/ RetryFenced(h) \/ RetryWaitsForPrompt(h) \/ RetryRefused(h) \/ RetryNotStarted(h)
           \/ RetryStarts(h) \/ NoteReserves(h) \/ NoteRefused(h)
  BY <1>4 DEF RetryFenced, RetryWaitsForPrompt, RetryRefused, RetryNotStarted, RetryStarts,
              NoteReserves, NoteRefused, PendingUpdated
<1>5. CASE RetryRouted(h)
  <2>1. NextToken \in Token
    BY DEF Typed, TypeOK, EngineTypes, HandlerTypes, NextToken, Token
  <2> QED  BY <1>5, <2>1, RoutePending DEF RetryRouted
<1>6. CASE NoteCommits(h)
  <2>1. token[h] \in Token
    BY <1>6 DEF Typed, TokenKept, NoteCommits
  <2> QED  BY <1>6, <2>1, RoutePending DEF NoteCommits, PendingUpdated
<1>7. CASE NoteRouted(h)
  <2>1. token[h] \in Token
    BY <1>7 DEF Typed, TokenKept, NoteRouted
  <2> QED  BY <1>7, <2>1, RoutePending DEF NoteRouted
<1> QED
  BY <1>1, <1>2, <1>3, <1>4, <1>5, <1>6, <1>7 DEF HandlerStep, HandlerChoice, PromptStep, RetryStep

LEMMA BoundaryPending ==
  ASSUME NEW b \in Boundaries, BoundaryRequested(b) \/ BoundaryStep(b)
  PROVE  PendingUpdated
<1> USE DEF retryVars
<1>1. CASE \/ BoundaryRequested(b) \/ BoundaryAcquires(b) \/ AdmissionsDrained(b)
           \/ TransitionPrepares(b) \/ ClearDetaches(b) \/ TransitionFails(b)
  BY <1>1 DEF BoundaryRequested, BoundaryAcquires, AdmissionsDrained,
              TransitionPrepares, ClearDetaches, TransitionFails, PendingUpdated
<1>2. CASE TransitionCommits(b) \/ RollbackDecides(b)
  BY <1>2 DEF TransitionCommits, RollbackDecides, CommitTransition, PendingUpdated
<1>3. CASE \/ RollbackCapturesRun(b) \/ RollbackFails(b) \/ RollbackShutsDown(b)
           \/ EngineTornDown(b) \/ RebuildCommitsIdle(b) \/ RebuildRunDrained(b) \/ RebuildValidates(b)
  BY <1>3 DEF RollbackCapturesRun, RollbackFails, RollbackShutsDown,
              EngineTornDown, RebuildCommitsIdle, RebuildRunDrained, RebuildValidates, PendingUpdated
<1>4. CASE \/ ShutdownTimesOut(b) \/ ShutdownObservesRun(b) \/ ShutdownRaises(b)
           \/ LoadBegins(b) \/ LoadFails(b) \/ LoadCommits(b) \/ BoundaryFinishes(b)
  BY <1>4 DEF ShutdownTimesOut, ShutdownObservesRun, ShutdownRaises, LoadBegins, LoadFails, LoadCommits,
              BoundaryFinishes, PendingUpdated
<1> QED  BY <1>1, <1>2, <1>3, <1>4 DEF BoundaryStep

LEMMA PendingStep ==
  ASSUME Typed, [Next]_vars
  PROVE  PendingUpdated
<1>1. ASSUME NEW t \in Tasks, RunStep(t) \/ RunRaises(t) PROVE PendingUpdated
  BY <1>1 DEF RunStep, RunEntersExecutor, ExecutorReturns, RunReachesTerminal, RunDispatchesRetry,
              RunEnds, RunRaises, DropQueuedRetry, PendingUpdated, retryVars
<1>2. ASSUME NEW a \in SubAgents, SubAgentPauses(a) \/ SubAgentResolves(a) PROVE PendingUpdated
  BY <1>2 DEF SubAgentPauses, SubAgentResolves, PendingUpdated, retryVars
<1>3. CASE StopRequested \/ StopLands
  BY <1>3 DEF StopRequested, StopLands, PendingUpdated, retryVars
<1>4. CASE UNCHANGED vars
  BY <1>4 DEF vars, PendingUpdated, retryVars
<1> QED  BY <1>1, <1>2, <1>3, <1>4, HandlerPending, BoundaryPending DEF Next, Rest

\* A queued retry is only ever replaced by a later one for the same run.
THEOREM NewestRetry == Spec => NewestRetryWins
<1>1. Init => Typed
  BY TypedInit, ConstantsAssumption
<1>2. Typed /\ [Next]_vars => Typed'
  BY TypedNext
<1>3. ASSUME Typed, [Next]_vars, pending # None, pending' # None,
             pending'.sgen = pending.sgen, pending'.run = pending.run
      PROVE  pending'.updatedBy >= pending.updatedBy
  <2>1. pending \in Queued /\ pending.updatedBy \in Nat
    BY <1>3 DEF Typed, TypeOK, ScopeTypes, Queued
  <2>2. CASE pending' = pending
    BY <2>1, <2>2
  <2>3. CASE pending' = [pending EXCEPT !.disabled = TRUE]
    BY <2>1, <2>3 DEF Queued
  <2>4. ASSUME NEW tok \in Token, pending' = Upsert(tok) PROVE pending'.updatedBy >= pending.updatedBy
    <3>1. CASE pending' = pending
      BY <2>1, <3>1
    <3>2. CASE pending' # pending
      <4>1. /\ pending' = QueuedBy(tok)
            /\ ~(pending.sgen = tok.sgen /\ pending.run = RunGeneration /\ tok.aid < pending.updatedBy)
        BY <1>3, <2>4, <3>2 DEF Upsert
      <4>2. pending'.sgen = tok.sgen /\ pending'.run = RunGeneration /\ pending'.updatedBy = tok.aid
        BY <4>1 DEF QueuedBy
      <4> QED  BY <1>3, <2>1, <4>1, <4>2 DEF Token
    <3> QED  BY <3>1, <3>2
  <2> QED  BY <1>3, <2>2, <2>3, <2>4, PendingStep DEF PendingUpdated
<1>4. Typed /\ [Next]_vars =>
        [/\ pending # None /\ pending' # None
         /\ pending'.sgen = pending.sgen /\ pending'.run = pending.run
         => pending'.updatedBy >= pending.updatedBy]_vars
  BY <1>3
<1> QED  BY <1>1, <1>2, <1>4, PTL DEF Spec, NewestRetryWins

-----------------------------------------------------------------------------
(* A bound stop.                                                           *)

StopObeyed ==
  \A t \in Tasks : t \in preInterrupt /\ phase[t] = "pre" /\ phase'[t] \notin {"pre", "cancelled", "raised"}
    => phase'[t] = "post" /\ result' = "interrupted"

\* A stop that found the run before its executor ends it interrupted, unless the
\* pre-run is cancelled or raises.
THEOREM BoundStop == Spec => BoundStopIsObeyed
<1>1. Init => Typed
  BY TypedInit, ConstantsAssumption
<1>2. Typed /\ [Next]_vars => Typed'
  BY TypedNext
<1>3. Typed /\ [Next]_vars => [StopObeyed]_vars
  <2> SUFFICES ASSUME Typed, [Next]_vars,
                      NEW u \in Tasks, u \in preInterrupt, phase[u] = "pre",
                      phase'[u] \notin {"pre", "cancelled", "raised"}
               PROVE  phase'[u] = "post" /\ result' = "interrupted"
    BY DEF StopObeyed
  <2> USE DEF Typed, TypeOK, RunTypes
  <2>1. ~SlotUntouched
    BY DEF SlotUntouched
  <2>2. ~SlotTaken
    BY DEF SlotTaken, Install
  <2>3. ASSUME NEW t \in Tasks, RunStep(t) PROVE RunEntersExecutor(t)
    BY <2>3 DEF RunStep, ExecutorReturns, RunReachesTerminal, RunDispatchesRetry, RunEnds
  <2>4. ASSUME NEW t \in Tasks, RunEntersExecutor(t)
        PROVE  phase'[u] = "post" /\ result' = "interrupted"
    <3>1. t = u
      BY <2>4 DEF RunEntersExecutor
    <3> QED  BY <2>4, <3>1 DEF RunEntersExecutor, StoppedBeforeStart
  <2>5. ASSUME NEW b \in Boundaries PROVE ~ShutdownTimesOut(b) /\ ~ShutdownObservesRun(b)
    <3>1. ~ShutdownTimesOut(b)
      BY DEF ShutdownTimesOut
    <3>2. ~ShutdownObservesRun(b)
      BY DEF ShutdownObservesRun
    <3> QED  BY <3>1, <3>2
  <2>6. ASSUME NEW t \in Tasks PROVE ~RunRaises(t)
    BY DEF RunRaises
  <2> QED  BY <2>1, <2>2, <2>3, <2>4, <2>5, <2>6, SlotStep
<1> QED  BY <1>1, <1>2, <1>3, PTL DEF Spec, BoundStopIsObeyed, StopObeyed

=============================================================================
