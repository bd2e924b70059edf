# Verification of the chrys agent engine

chrys is a terminal coding agent. Its core is the **engine**
(`src/src/chrys/orchestration/engine/`): it turns user events into agent runs,
queues retries, injects text into a run in flight, stops runs, and replaces
session or runtime under all of that. It is asyncio code: one thread, many
handlers, and every `await` is a place where another handler may change what
the first one has just looked at. Around it are the parts that keep its promises
when something goes wrong: sub-agents that pause and are torn down, recovery
checkpoints, a cache of shared connections, an outbox of hooks on disk. This
directory models them in TLA+, checks them with TLC and proves what matters
most with TLAPS.

Paths below are relative to `src/src/chrys/`; `engine/` stands for
`orchestration/engine/`.

## 1. Inventory

| component | state | operations | hard behaviour |
|---|---|---|---|
| state machine `engine/state/machine.py` | one state of eight | `try_transition`, `is_running`, `restore_terminal_state` | it is advanced by six other components, and a missing entry is a silent no-op |
| prompt admission `engine/run/coordinator.py`, `turn_state.py` | admission records, the fence, the run-task slot | reserve, release, promote; close, reopen; wait for idle | every record is taken before hooks and used after them |
| retry `engine/run/retry.py` | one queued retry, one disabled generation | route, queue, claim, dispatch at a run's end | queueing while the run ends; two notes finishing out of order |
| run `engine/run/runner.py`, `finalizer.py`, `engine/executor.py` | a task, the pass's interrupt flag, pre-executor interrupts | pre-run, pass, terminal state, final save, hand-over | a stop before the executor; the window between the terminal state and the task's end; an exception that ends the task without them |
| injection `engine/run/active_injection.py`, `service/agent_middleware/injection.py` | captured targets, commit counter, window, the queue behind the executor | capture, commit, consume, replay, cancel, drain | the target may be gone after the hooks; a commit must not straddle a boundary |
| pause mirror `engine/run/sub_agent_coordination.py` | the paused set | pause, resolve, cascade | several at once; a cascade during a stop |
| session transitions `engine/engine.py`, `service/session/lifecycle.py` | gate, session generation, detached flag | new, clear, restore: fence, commit, shutdown, load | awaited preparation between fence and commit; shutdown timeout |
| rollback `engine/rollback.py` | captured owner and run task | prepare, refuse, project, commit, restore | failure after the commit |
| rebuild `engine/engine.py`, `engine/build/construction.py` | captured owner clocks, build and load generations | permit, validate, load, release | everything it validated must still hold when it loads |
| sub-agent controllers `orchestration/sub_agents/` | status, attempts, decision future, finalize lock; counters; pause records on disk | invoke, attempt, pause, click, cascade, cancel, finalize, restore | a cascade or a cancellation at any await of a run that finalizes too; two files per pause |
| recovery checkpoint `engine/engine.py`, `service/state/store.py` | pending snapshot, sequence numbers, writer task; primary file and sidecar | queue, drain, strict write, flush, save, restore | newest wins among concurrent writers; survives cancellation, shutdown and crash |
| MCP cache `service/mcp/cache.py`, `adapter.py` | entries with reference counts, connect tasks | acquire, release, collect, close | a stored connection is unowned until its acquirer has the lock again |
| event bus `foundation/events/bus.py` | handlers, streams | publish, subscribe | publishing awaits its handlers inline |
| hooks `service/hooks/` | outbox files, copies of them | dispatch, start, move, recover | crash between two files; processes and workers with copies of one job |
| trajectory `foundation/trajectory/`, `foundation/util/lock.py` | writer lease, segments | acquire, relocate, release | across threads and processes |
| mutations `service/mutations/` | registries of claims and windows | publish, reclassify, plan a rollback | peers' claims arrive late |
| approval `service/approval/` | blocked ids, a decision future | judge, block, decide | verdict races decision |
| kernel `kernel/`, LLM clients, tools, profiles, skills, configuration, front ends `app/` | - | - | clients of the engine, or the content of one pass |

The properties that make each component correct:

* **state machine**: it tells the truth. RUNNING has a live run, or one that an
  exception ended and that a retry may take up; AWAITING_SUB_AGENTS has a paused
  sub-agent, PENDING_RETRY a run to wait for.
* **admission, run**: one run at a time, and the slot holds it; a run belongs to
  the session and build it was admitted under; admissions are not leaked.
* **retry**: a queued retry is started or dropped with its own run; newest wins.
* **stop**: it hits the run it was meant for, and hits it.
* **injection**: no text enters a runtime that is being replaced; a consumed
  text stays on its way to the model and is delivered once, a text given back
  never; the author hears of every text exactly once.
* **boundaries**: a load finds the engine quiet; every boundary ends.
* **sub-agents**: counters are exact, a paused one can be found after a crash
  (if its record could be written), no call stays open, an interrupt ends every invocation and is announced once.
* **checkpoints**: what is on disk never goes back, and what was reported as
  persisted survives.
* **MCP cache**: a leased connection is open, counted and shared; a shutdown closes
  all of them.
* **outbox**: no job is lost, its directory tells the truth, it is settled.

`PROJECT.json` lists every component with its status, and under "hazards" each
hazard at the line where it bites, with the properties that cover it.

## 2. Plan

| order | module | composes | specification it implements | proved |
|---|---|---|---|---|
| done | `EngineStateMachine` | - | - | closure of the table |
| done | `TurnOrder` | - | is one | - |
| done | `TurnLifecycle` | `EngineStateMachine`, the handlers, the run, the boundaries | `TurnOrder` | every safety property, `LoadMeetsNoCommit` without clears and restores, and `Spec => Order!Spec` |
| done | `InjectionPromise` | - | is one | - |
| done | `InjectionDelivery` | the handlers, the queue, the tool loop's calls, the finalizer's drain | `InjectionPromise` | every safety property, and `Spec => Promise!Spec` |
| done | `SubAgentControl` | tool call, both controllers, interrupt, pause mirror, records, restore | - | every safety property |
| done | `RecoveryCheckpoint` | background writer, strict writer, savers, the state store, crash | - | every safety property |
| done | `McpConnections` | cache, connect tasks, adapters, close | - | every safety property |
| done | `HookOutbox` | processes, workers, recovery scans on one directory | - | every safety property |
| 1 | `WriterLease` | `lease.py`, `FileLock` | mutual exclusion | one writer |
| 2 | `ApprovalArbitration`, `MutationCoordination` | judge and user; registries of several processes | first refusal wins | - |

The order follows the distance from the user's text: first what decides
whether a turn runs at all, then what may lose or repeat a text, then what
survives a crash, then the rest.

## 3. Modules

**`EngineStateMachine`** - the transition table by trigger, `TryTransition`,
`IsRunning`, `AcceptsFreshPrompt`. No state of its own.

**`TurnLifecycle`** - one engine. An action is the code between two awaits, so
a handler is a small program counter (`pc`, `bpc`, `phase`) and everything it
carries across an await is a variable of its own (`token`, `target`,
`waitTask`, `captured`, `stopTask`): a stale capture can be expressed.

| part | variables | actions | code |
|---|---|---|---|
| engine | `fsm`, `sessionGen`, `buildGen`, `loadGen`, `loading`, `shuttingDown`, `executorUp`, `detached` | - | attributes of `AgentEngine` |
| admission | `closeOwner`, `active`, `token`, `nextAid` | shared `Reserve`, `Release`, `Leave` | `TurnRuntimeState` |
| prompt | `pc`, `target`, `waitTask` | `Submit`, `NotReady`, `Message*`, `RunWaited`, `WaitFails`, `Injection*` | `_admit_user_message`, `ActiveTurnInjector` |
| retry | `pending`, `disabledGen` | `Retry*`, `Note*` | `RetryCoordinator` |
| run | `runTask`, `phase`, `tscope`, `result`, `scope`, `nextRun`, `window`, `running` | `RunEntersExecutor`, `ExecutorReturns`, `RunReachesTerminal`, `RunDispatchesRetry`, `RunEnds`, `RunRaises` | `TurnRunner`, `TurnFinalizer` |
| stop | `stopFlag`, `preInterrupt`, `stopTask`, `stops` | `StopRequested`, `StopLands` | `on_user_interrupt` |
| sub-agents | `paused` | `SubAgentPauses`, `SubAgentResolves` | `sub_agent_coordination.py` |
| boundaries | `gate`, `bpc`, `captured` | `Boundary*`, `Transition*`, `ClearDetaches`, `Rollback*`, `Rebuild*`, `Shutdown*`, `EngineTornDown`, `Load*` | `engine.py`, `lifecycle.py`, `rollback.py`, `construction.py` |

`asked` is the only variable the code does not have: the tasks a stop was ever
meant for, which no action reads.

A run task is named by the number of its installation, and goes through the
phases `pre` (up to the executor), `exec` (its pass), `post` (up to the
terminal state), `save` (final save and hooks) to `done`, `cancelled` or `raised`.
`RunRaises` is the task's end by an exception: of the pre-run or its rollback
snapshot (`runner.py:150-208`), before the `finally` that closes the window, or of
the finalization (`runner.py:329-335`), before or after the terminal state. What the
executor's pass raises the executor itself turns into a failed run. Nobody
finishes the turn for a task that raised: the state machine may stay RUNNING, the scope,
the window, a bound stop and a queued retry stay, and the task stays in the slot.
Whoever awaits it gets the exception: a prompt or a retry in its wait ends
(`WaitFails`), a rebuild is denied (`RebuildRunDrained`, `engine.py:878`), and a
shutdown breaks off with its transition, the engine shutting down still
(`ShutdownRaises`, `engine.py:1246`). A task that is done already when they
look is not awaited, and a retry then takes the turn up (`retry.py:612-618`,
`628-634`). From PENDING_RETRY or a broken-off shutdown only a session transition
leads on.
A commit of a transition (`CommitTransition`) and the start of the shutdown
(`BeginShutdown`) are one step for new, clear and restore, because no await
separates them, and two for a rollback, which swaps a snapshot in between.

Abstracted: the text of prompts; hooks, image and attachment checks (they may
accept or refuse); what a pass does (it returns ok, failed or interrupted);
pre-run preparation traces; file contents; event publication beyond the await
it is. A `UserInject` event takes the same path as a prompt that finds a run
(`MessageForActiveRun`), without the executor fallback, and has no handler of
its own in the model. A second stop while one is still cascading is left out
(`StopRequested` needs `stopTask = 0`). Switch-workspace and continue are
transitions like new and restore and are not separate. A promoted retry that is
discarded again (`retry.py:447-457`) is left out: its checks run in the same stretch as
the promotion, and pass whenever that did.

**`TurnOrder`** - what the engine promises about its turns in five actions:
runs are numbered, never overlap, never resume; a runtime is only replaced
between runs; nothing is started for a session that has been given up.
`OneTurnAtATime` is its specification under the mapping at the end of
`TurnLifecycle`: the run is the live task, the number of runs is `lastTask`,
a run is an orphan when its scope's session generation is not the engine's.

**`InjectionDelivery`** - one session, seen from the texts submitted while turns
run. `TurnLifecycle` says whether a prompt becomes a run; this module says what
becomes of the text. A text is a model value that stands for its words, its ids
and its hook reminder; `Work` stands for the assistant and tool messages of an
answered request, so that transcripts are sequences of texts and `Work`.

| part | variables | actions | code |
|---|---|---|---|
| handler of a text | `pc`, `target`, `marks`, `results` | `Submit`, `EnterRun`, `AwaitCleanup`, `Reserve`, `WaitForOtherAdmission`, `HooksDone`, `Commit`, `RefuseCommit`, `CommitPublished`, `RefuseTurn`, `OpenTurn` | `on_user_message`, `on_user_inject`, `ActiveTurnInjector` |
| cancel | `marks` | `Cancel` | `on_user_inject_cancel` |
| queue | `queue`, `replay`, `retried`, `mirror` | `Consume`, `Poll` | `InjectionMiddleware` (`_pending`, `_retry_replay`, `_retry_consumed`, `_consumed_injection_messages`) |
| record | `consumed`, `owed` | `CheckpointFlushed`, `Notify` | `_on_injection_batch_consumed` |
| call | `phase`, `tokenLive`, `kept`, `calls`, `fails` | `Announced`, `Answered`, `CallFails`, `Interrupted`, `Stop` | `kernel/loop.py`, `Executor` |
| end of a pass | `drained`, `history`, `again`, `outcome` | `PassReturns`, `ReturnDrained`, `PassSaves`, `RunEnds` | `TurnFinalizer`, `history.py`, `TurnRunner` |
| turn | `pass`, `opener`, `reminderState`, `reminders`, `judge` | `PassPrepares`, `RetryTurn` | `run_fresh`, `run_retry`, `SystemReminderMiddleware`, `TurnContextHolder` |

`accepted` and `opened` are history variables: the order of commits, and the
texts that opened a turn.

Abstracted: a call's retry inside the loop and the executor's outer retry, which
restores the history snapshot first, are the same `CallFails`; the anchor of a
batch is its place in the sequence; messages are told apart by text, as the
judge's context and the reminders do, and two texts never have the same words;
the checks between the hooks and the staging (`active_injection.py:335`) have
no await of their own effect and are one point with `HooksDone`; a retry's note
is not a text here. Left out: session boundaries and the shutdown (the drain
is silent then), the `executor_fallback` route, exceptions in the pre-run,
compaction, service-side storage of the transcript.

**`InjectionPromise`** - the fates of a text as its author can tell them: asked,
accepted, sent, saved; opened; returned or refused. Fates only move forward,
each text is answered at most once, FALSE only if it was and will be in no
request. `KeepsPromise` is this specification under `FateOf`, which the proof
(section 7) carries out step by step.

**`SubAgentControl`** - the invocations of sub-agents, from the tool call of the
parent to the record on disk. An invocation is one coroutine and `pc` is the
await it stands at; the set `Acp` tells the external controllers from the
program's own, which differ in where they look at the cascade flag again.

| part | variables | actions | code |
|---|---|---|---|
| tool call | `call`, `total`, `perAgent`, `answered` | `Invoke`, `Refuse`, `Return` | `sub_agents/tools.py` |
| loop of attempts | `pc`, `status`, `attempts` | `StartAttempt`, `AttemptEnds`, `BackoffEnds`, `Reply`, `Complete` | `run()` of `controller.py`, `acp_controller.py` |
| pause | `decision`, `paused`, `silenced` | `Pause`, `OpenDecision`, `Announced`, `Click`, `Decided`, `Resumed`, `SayAborted`, `Aborted` | `_pause_and_wait`, `sub_agent_coordination.py` |
| interrupt | `flag`, `cascade`, `interrupt`, `cancel`, `cascades` | `CascadeAll`, `Joined`, `AcpPublish`, `CancelParent`, `Shutdown`, `Cancelled` | `cascade_abort_all`, `cascade_abort`, `on_user_interrupt` |
| finalization | `finBy`, `finAt`, `finalized` | `TakeFinalize`, `StampFinalize`, `EndFinalize`, `AcpFinalize` | `finalize_cancellation` |
| parent and disk | `engine`, `saved`, `record`, `queued`, `consumed` | `ParentEnds`, `Checkpoint`, `Save`, `RemoveRecords`, `NextRun`, `Crash`, `Restore`, `RestoreSave`, `FinalizeRestored` | finalizer, `engine.py`, restore |

The finalization is entered by the run, by the tool call after it and by the
cascade, under one lock; a cancellation that arrives inside it tears it and frees the
lock. Abstracted: the permission broker, the update translator, logs, usage, and
what an attempt does. A call counts before its controller is registered, so
`CascadeAll` may miss one that is still being set up (`tools.py:1459-1819`). The
write of a pause record is best-effort (`controller.py:1170`, `acp_controller.py:1697`): for
the invocations in `MayFail` it may fail, or find no directory to write to; the
pause is announced all the same, and a record that an earlier pause wrote stays
(`RecordPause`). The record is then `failed`, which stands for no file together with
the fact that the write was tried. A failing write of the log, and
`SubAgentTools.cleanup`, which resets the counters with its session, are left
out.

`silenced` is a history variable: the invocations of which the last thing said is
their cascade.

**`RecoveryCheckpoint`** - two files and four writers. A file is a version (how
much of the conversation it holds) and the time its envelope claims; the file
lock is held by a saver from its write to its deletion of the sidecar. A turn's
progress is first `live` and only after the finalizer's merge `merged`.

| part | variables | actions | code |
|---|---|---|---|
| turn | `run`, `stopping`, `fallback`, `live`, `merged` | `StartTurn`, `Progress`, `EndTurn`, `Shutdown`, `CancelFinalizer` | `engine.py`, `finalizer.py` |
| snapshots | `seq`, `persisted`, `pending`, `draining`, `taken` | `Checkpoint`, `Pick`, `WriterSkips`, `WriterWrites`, `WriterFails` | `_save_recovery_checkpoint`, `_drain_recovery_checkpoints` |
| barrier | `barrier`, `attended`, `line` | `Barrier`, `BarrierWrites`, `BarrierFails` | `persist_recovery_barrier`, `persist_recovery_now` |
| saves | `saver` | `IdleSave`, `TrailingSave`, `Flushed`, `SavePrimary`, `SaveFails`, `DeleteSidecar` | `_flush_recovery_checkpoint`, saves of the session |
| disk | `primary`, `sidecar`, `now` | `Crash`, `Restore` | `state/store.py` |

`acked`, `crossed` and `saved` are history variables: what the loop was told is on
disk; an idle save crossed recovery writes; the turn's own save went through.
The wall clock is taken to be monotone, two reads may give the same time. A
primary keeps its old time when the number of visible messages is unchanged;
`PrimaryAt` lets it be unchanged at will. Left out: backups and their healing,
titles, rollback snapshots, migration.

**`McpConnections`** - one cache and its adapters. Every locked section is one
step; what may happen between two sections is what other tasks do. A connection
is named by its key and the number of the connect task that opens it.

| part | variables | actions | code |
|---|---|---|---|
| table | `entries` | `Hit`, `Join`, `Open` in `Acquire`, `AcquireSweeps`, `Swept`; `Resume` | `acquire` |
| lease | `pc`, `wait`, `sweep`, `lease` | `Cancel`, `Disconnect`, `Drop`, `Release`, `Leave` | `release`, `adapter.py` |
| connect task | `task`, `conn` | `Store`, `ConnectFails`, `ConnectCancelled`, `Closed` | `_connect_and_store`, `_close_untracked_tools` |
| idle, close | `closed`, `closing`, `doomed` | `Age`, `CloseAll`, `CloseTools`, `CloseAborted` | `_collect_idle_locked`, `close_all` |

The one assumption about time is in `Age`: the idle time to live, minutes, does
not pass between the store of a connection and the moment the task that awaits
it runs. `prune_idle` with the time to live is a sweep like any consumer's. Left out:
`prune_idle(max_idle_seconds=0)`, which an adapter with a cache of its own calls after
a release (`adapter.py:2411`, `2655`). To it every unleased connection is old, also one
just stored for a waiter of another server of the same adapter, so
`NoLostRegistration` is a statement about shared caches. Also left out: the owner queue of
`owned.py`, transports, exposure of tools.

`Drop` is a `disconnect_all` that is itself cancelled while it waits for the connects
it has cancelled (`adapter.py:2684`): the leases it has popped are never
released. Their references stay counted (`CountIsHolders`) and keep the
connection open (`LeaseIsOpen`) until the cache is closed. The model lets the lease of
any consumer be dropped while another one is connecting, whether or not they are servers of one adapter.

**`HookOutbox`** - the files of durable jobs and everyone who has a copy of one: a
process's task, the worker it detached, a recovery scan.

| part | variables | actions | code |
|---|---|---|---|
| job | `pending`, `copy` | `Dispatch`, `Start`, `StampFails`, `Exit` | `manager.py`, `detached_worker.py` |
| move | `done`, `failed` | `WriteResult`, `Unlink`, `MoveFails` | `mark_done`, `mark_failed` of `outbox.py` |
| recovery | `scan`, `up` | `Age`, `Startup`, `Recover` | `recover_outbox` |
| end | `spent` | `Shutdown`, `Crash`, `WorkerDies` | `manager.py` |

`created`, `starts`, `passed`, `rejected` and `unknown` are history variables. A
process has one worker per job at a time (the guard of `Start`): a second start
of a job by the same process while its first worker still runs would need two
recoveries within one hook. Copies of two processes may overwrite each other and a
job may end in both `done/` and `failed/`; the properties allow that, the code
has no lock against it. Left out: blocking hooks and their results.

**`MC...`** - names for the model values, functions of them and symmetries.

**`...Proofs`** - the theorems, section 7.

## 4. Runs

| run | instance | distinct states | checks |
|---|---|---|---|
| `turns` | prompts m1, m2 (symmetric), retry note r1, plain retry r2, sub-agents a1, a2, 4 tasks, 1 stop, 1 raise | 720,775 | SingleLiveRun, StateMirrorsTurn, StopHitsItsRun, BoundStopIsObeyed, NewestRetryWins |
| `transitions` | m1, plain retry r1, clear c1, restore s1, rebuild b1, 3 tasks, 1 raise | 1,305,937 | TypeOK, OwnersAgree, LoadIsQuiet, OneTurnAtATime |
| `progress` | m1, note r1, new n1, rollback k1, sub-agent a1, 2 tasks, 1 raise, fairness | 67,304 | LoadMeetsNoCommit, EventsSettle |
| `injections` | prompts m1, m2 (symmetric, both may be withdrawn), 3 passes, 2 answered calls each, 2 failures, 1 stop | 443,199 | EveryTextHasItsPlace, MarksAreObservable, OnlyOrphansAreDropped, KeepsPromise, CancelBeatsAdmission |
| `injections_live` | m1, m2, m3, of which m3 may be withdrawn, 1 pass, 1 call, 1 failure, fairness | 138,487 | OrderOfCommit, EveryTextIsSettled |
| `delegation` | kernel i1 and external i2 of one tool, limits 2, 2 attempts and 1, i1's record may fail, 1 crash | 2,448,139 | PausedIsOnDisk, CountsExact, OneCascadeWord, NoOpenCallAtRest, CascadeFreesAcp, RecordOutlivesItsCall, CascadeIsLastWord |
| `delegation_live` | the same with a limit of 1, no failing record, no crash, fairness | 321,322 | InterruptEndsAll |
| `recovery` | 2 turns, progress 2, 2 snapshots, 1 tick, 1 idle save, 1 failure, 1 crash, fairness | 503,307 | AckedSurvives, BarrierIsNewest, NoStaleSidecar, RestartNeverGoesBack, TurnIsSettled |
| `mcp` | a1, a2 share k1, a3 uses k2, 3 connect tasks per key, 2, 1 and 1 acquires, fairness | 116,612 | LeaseIsOpen, CountIsHolders, OneConnectionPerKey, NoLostRegistration, ShutdownClosesAll, AcquireSettles |
| `outbox` | p1, p2 (p2 runs the hook detached), 1 job, 2 retries, 2 crashes, 1 failed move or stamp, fairness | 88,341 | NoJobLost, OutcomeIsTrue, EveryJobSettles |
| `stuck_pending` | m1, a plain retry and a note | - | PendingRetryIsFinishing is violated |
| `delegation_cascade` | one kernel invocation | - | CascadeFreesPaused is violated |

Three properties have named parts: `StateMirrorsTurn` is RunningStateHasItsRun,
PausedMirrorsState, WindowIsTheRuns and QueuedRetryHasItsRun; `OwnersAgree` is
RunBelongsToOwner and RegisteredAdmissionIsCurrent; `EventsSettle` is
EveryHandlerSettles and EveryBoundaryFinishes; `EveryTextHasItsPlace` is the type
invariant of `InjectionDelivery`, ReturnedIsNeverSent, ConsumedStaysInReach,
NoTextTwice and ReminderHasItsText.

**Bounds.** In `TurnLifecycle`, `MaxTasks` is one task per prompt or retry, the
most the code can install, so it never cuts a behaviour off; `MaxStops` bounds the stop
events, `MaxRaises` the runs that end by an exception: one is enough for every later
prompt, retry and boundary to meet it. It is 0 in `stuck_pending`, which is about
another way into the same state. Generations and admission numbers are only advanced by the finitely many
events and need no bound. Each event happens at most once per name: two prompts
and two retries are enough for every pairwise race and for the three-way races
of a run, its queued retry and a newcomer; two sub-agents are enough for "the
first" and "the last" to differ. Boundaries are serialized by the gate, so two
of them show everything one leaves behind for the next. Deadlock is checked
in these runs: `Rest` lets the system stop only when every event has its outcome,
every boundary is done, and no task is alive (`Settled`).

In `InjectionDelivery` a text that opens a turn and a text injected into it are
the least; with three passes a failed turn is retried and then followed by a
prompt. `MaxCalls` 2 gives a call with tool work and a final one, `MaxFails` 2 a
call that fails again while it replays. Three prompts, in `injections_live`, are
what it takes for one to wait for the run's cleanup while another holds the
admission of the next turn. Injections without an id (`Injects`) are in no
instance; the theorems cover them.

In `SubAgentControl` two invocations, one of each kind, share both counters; two
attempts are the least with a retry, by backoff or by a click; one crash meets
every await of both and every file operation. A limit of 1 in `delegation_live` makes the second
call either refused or late, so that it starts after the cascade took its list.
`MayFail` names the invocations whose pause record may fail; one that may and one
that may not are the two cases there are. A crash before the first call would lead
back to the start and is left out (`Crash`).
In `RecoveryCheckpoint` two snapshots are the least for one to overtake the
other, two turns for a sidecar to be left from the turn before, one tick for two envelopes to
share a time or not; one failure can hit any write, and the crash any gap. In
`McpConnections` two consumers race for a key and a third sweeps it from another
one; the third connect task of a key is there to show that the table lets go of
the first two. In `HookOutbox` a second job would only be a second copy of the
same protocol: jobs share nothing but the process that dies. Except for
`TurnLifecycle`, what the instances do is used up, so these runs end and do not check
deadlock; their liveness properties say that nothing is left waiting.

**What the runs show.** Within one session (`turns`) the engine keeps one run at
a time under every order of two prompts, two retries, pauses and a stop, and
the queued retry and the stop reach their own run. Where a run raises, RUNNING stays
with no live run, but always so that the next retry can take the turn up. Across a clear, a restore and
a rebuild (`transitions`) nothing of the old owner reaches the new one, although a
clear and a restore commit late, and turns refine `TurnOrder`. Under a rollback
and a new session (`progress`) everyone gets an answer, and no load meets an
injection's commit.

A text submitted during a run (`injections`) is sent once or given back, under
every order of hooks, skill staging, cancels, failed and polled calls, a stop,
the drain and a retry; the loop never loses what it took, and what it took is
saved once. The model keeps the promise its author relies on, reads texts in
the order of their commits, and forgets nobody (`injections_live`), as long as no
pre-run and no finalization raises: that is in `TurnLifecycle` only.

Sub-agents (`delegation`) may be retried, paused, clicked, cascaded and cancelled
at any await: the counters stay exact; a pause that is shown has its record on
disk, from before it is announced until it is over, unless the best-effort write
of that record failed; and an interrupt ends all of them (`delegation_live`). The checkpoint protocol
(`recovery`) never takes progress away that a restart would have found, with one
exception described below. The cache (`mcp`) never closes a leased connection
and never opens two, and the outbox (`outbox`) loses no job, although no
one locks its files.

`LoadMeetsNoCommit` is *not* true with a clear or a restore and is therefore
checked, and proved, for the other boundaries only: both wait for injection commits before
their own awaited preparation (hooks, deletion, settings) and not after it
(`engine.py:765`), so an injection may commit in between, and the reset zeroes its
count while it is held (`turn_state.py:638`). The floor in
`finish_active_injection_commit` keeps the counter natural (`TypeOK`). The text
belongs to a session that is about to be shut down, so we note it as a hazard.

## 5. Findings

* **`stuck_pending`** - a note that queues itself in the last stretch of a run
  (after its terminal state, before the task ends) moves RUNNING back to
  PENDING_RETRY, and the dispatch at the task's end, which requires RUNNING,
  drops the retry. PENDING_RETRY stays with no run: prompts are taken for
  injections and abandoned until the session changes. It needs an
  earlier queued retry: only from PENDING_RETRY does a completed run leave RUNNING.
* **`delegation_cascade`** - a kernel controller that is about to pause creates its
  decision future only after an awaited log write. An interrupt's cascade in
  that gap finds neither a future nor a child task, announces the invocation as
  torn down and is over; the run then announces a pause and waits for a click.
  The parent's cancellation, which follows the whole cascade, ends it in the end
  (`InterruptEndsAll`). The external controller looks again
  (`CascadeFreesAcp`, proved).

`PROJECT.json` quotes the lines. Other disagreements that the models show, each
stated as a definition that no configuration checks; the instance that shows
it is in parentheses:

* `TurnLifecycle.QueuedRetryStarts` (m1, a plain retry, one sub-agent) - the
  comment at `state/machine.py:64` against `retry.py:473`: a sub-agent pausing and
  resolving while a retry is queued leaves RUNNING instead of PENDING_RETRY, the
  run completes to IDLE, and the retry is dropped.
* `TurnLifecycle.ShutdownAfterCascade` (m1, a new session, one sub-agent) - the
  comment at `state/machine.py:95` against `engine.py:1241`: SHUTDOWN is fired before
  the pass is interrupted and with sub-agents still paused. Nothing checked here
  depends on the order; the comment is what is wrong.
* `InjectionDelivery.JudgeSeesSent` (two prompts, one pass, one call) - the docstring
  at `approval.py:259` against `runner.py:197`: a text accepted between the opening of the window
  and the end of the pre-run is wiped from the judge's context and still sent.
* `InjectionDelivery.OutputKeepsTheMessage` (three prompts, two passes, one stop) -
  `history.py:545` against 554: the next prompt after a failed turn removes a last
  user message as unanswered, also one that a failed call had consumed and its
  author was told of.
* `McpConnections.CloseAllClosesAll` (`mcp.cfg`) - the docstring at `cache.py:319`
  against a caller cancelled in the gather at 331: the tools it took out of the
  table stay open. `ShutdownClosesAll` allows just that.
* `RecoveryCheckpoint.SidecarSurvivesTurn` (`recovery.cfg`) - the comment at
  `engine.py:1416` against the check at 1423, made before the awaited save: a turn
  that starts in between loses the sidecar which alone holds its progress.
  `AckedSurvives` sets such saves aside (`crossed`).
* `HookOutbox.TriedBeforeGivenUp` (`outbox.cfg` with a process that knows no job) -
  at-least-once of `outbox.py:21` against `recover_outbox`, which fails a job whose
  hook this process does not have, another process's among them.

One more without a definition: a kernel controller that is cancelled while paused
and without a cascade is stamped ABORTED and its record is queued for removal, although
`controller.py:463` says that it is preserved; the session that is saved
answers the call by then (`RecordOutlivesItsCall`), so nothing is lost.

## 6. Fairness

`TurnLifecycle`: weak fairness of every handler, run, boundary and stop: asyncio
runs every ready task, and an action enabled here is a task that is ready. Submitting an
event, a refusal by a hook, and a pause are never forced. `ExecutorReturns` has
strong fairness: a pass ends (the model call has timeouts and a turn limit) even
if sub-agents pause and resolve on the way, which disables and enables it.
`SubAgentResolves` is weakly fair because a paused sub-agent waits for a decision of the
user: the liveness properties are about a user who eventually answers.
`EveryHandlerSettles` says each prompt or retry leaves with an outcome; one of
the outcomes is `lost`, a handler that ends with the cancellation of the run it
awaited (`coordinator.py:717` under the shutdown's timeout) or with its exception.
No run is ever forced to raise.

`InjectionDelivery`: weak fairness of each text's handler and notice and of the
run's own steps. `CallEnds` has strong fairness: a provider call is answered,
fails, or the stall watchdog fails it, but polls of a background response
go on in between and disable it for a moment. An announced response, a cancel,
a stop and a retry are never forced.

`SubAgentControl`: weak fairness of each coroutine and of each holder of the
finalize lock. An attempt must end only when it was cancelled, nobody has to
click, and no interrupt is forced: `InterruptEndsAll` is about one that came.

`RecoveryCheckpoint`: the writers and the savers go on when they hold what they
wait for (threads run, the file lock is released by who has it). Turns, idle
saves, shutdown and crash are never forced.

`McpConnections`: tasks that can run do; a connect attempt succeeds or fails,
because every request has a timeout; a transport that is being closed is gone in
the end. Acquires, disconnects, cancels and the shutdown are never forced.

`HookOutbox`: hooks exit (they have a timeout) and moves go on. Two assumptions
are about the user and not the code: chrys is closed and started again, and a
process that comes to recover or start a job again and again does so
(strong fairness), because a job may be left for the next startup each time.
Without a next startup a job that failed to move stays pending: that is its design.

## 7. Proofs

Each proof module extends the module it is about and proves from that module's
named assumptions alone, for any sets and bounds.

**`TurnLifecycleProofs`**, from `ConstantsAssumption` (the event sets are disjoint
where the code dispatches on an event's class, and `None` is no event):

* `TypeCorrect == Spec => []TypeOK`. `TypeOK` is not inductive: a handler that
  continues with its token and a boundary that continues with its captured
  owner must have one. `Typed` adds `TokenKept` and `OwnerCaptured`, and has one
  step per action.
* `OneLiveRun == Spec => []SingleLiveRun`. Inductive together with `Typed`.
  The argument is `SlotStep`: a step leaves the slot alone, or promotes
  (having looked at the slot in the same stretch), or is a step of a run, or the
  shutdown's.
* `NewestRetry == Spec => NewestRetryWins`. `PendingStep` lists what a step
  may do to the queued retry; only `Upsert` replaces it, and refuses to go back.
* `BoundStop == Spec => BoundStopIsObeyed`, from `SlotStep` again.

**`TurnStateProofs`**, on top of it and with `NoneAssumption` (Python's `None` is no
number and no record): `StateMirrorsTurn`, `StopHitsItsRun`, `OwnersAgree`,
`LoadIsQuiet`, and `Spec => OneTurnAtATime`, the refinement of `TurnOrder`. None of
them is inductive; `TurnInv` is. Its parts, each needing the others:

* `FenceInv`: the boundary inside the gate is the one that closed admission, and
  only it shuts the engine down or loads.
* `QuietInv`: once a boundary has waited for the admissions (or dropped them) none
  is left, and where it has waited for the run, none is alive and none queued. It
  stands because the fence is closed: `OwnAdmission` says that a handler registers
  an admission only with the fence open, and a run starts only from one.
* `AdmissionInv`: a registered admission is current, and a handler that still holds
  a current token is registered. So a session or build number that goes on
  (`ClocksGoOn`) retires every token at once.
* `RunInv`, `StateInv`: the live run has the current scope, the executor and the
  window; a state that claims a run has one, live or raised; and past its terminal state a run is
  only shown as RUNNING, or has PENDING_RETRY, with a retry that is wanted - this is
  what keeps `RunEnds` from leaving RUNNING behind.
* `RetryInv`: a queued retry is the live run's, or was left behind by one of its
  logical run that raised, and only one of an older session is disabled, which is why an
  enqueued retry is always due.
* `BirthInv`: tasks beyond the last one installed are unborn, so a new run is never one that
  raised before.
* `StopInv`: a bound stop or a flag is on the run that was asked to stop.

A handler's step does to the turn only what `TurnStep` lists: nothing, start a
run, queue a retry, or let the last scope go. For the refinement `TurnViewStep`
says the same in the terms of `TurnOrder`: a promotion is `Begin`, a dispatched
retry `Continue` (never after a commit, as the shutdown flag is up by then), the end
or the shutdown's cancellation `End`, a commit `Switch`, a load `Rebuild`.

`LoadsMeetNoCommit` has the hypothesis that no clear and no restore is among the
boundaries, without which it is false (section 4); new sessions, rollbacks and
rebuilds remain, in any number. `CommitInv` says that the counter is the number of
prompts being published - the reset of a teardown never meets one - and that
there is none past a boundary's last wait for them. That it stays so is
`NothingToInject`: from there on a captured target is not current any more, since
its run is over, or its window closed, or the state terminal and no pass going on.

**`InjectionDeliveryProofs`**, from no assumption:

* `MarksObservable == Spec => []MarksAreObservable`. Inductive once the handlers
  are known to be a function of the texts (`MarksInv`); the one idea is
  `HandlerMovesOrLeaves`: whatever a handler does, it stays in flight or drops
  its mark.
* `CancelWins == Spec => CancelBeatsAdmission`. `Admissions` lists where texts can
  come from; only `Commit` and `OpenTurn` add one, both after a last look at the
  mark. It needs that the queue is a sequence of texts, and the lemmas about
  `RemoveAt` and `Append`.

**`InjectionPlaceProofs`**, on top of it, from `InjectionAssumption` (`None` and the
assistant's message are no texts): `EveryTextHasItsPlace`, `OrderOfCommit`,
`OnlyOrphansAreDropped` and `KeepsPromise`. The same texts are recorded in the queue,
the middleware's lists, the loop's messages, the history and the answers, and no
single property says how the records depend on each other, so none is inductive.
`IInv` does:

* `LoopInv`: what the run's phase says of the sequences - nothing to replay outside a
  call, nothing kept between runs, a queue only while the window is open, the opener's
  message not in the history before its pass has started.
* `PlaceInv`: which records of a text exclude which. A text that waits is on record
  nowhere else; whatever is on record was accepted or opened a turn, never both; what is
  to be replayed has been consumed, and what was consumed is in reach.
* `TextInv`: what its handler and its answer say of a text. An undecided one is
  nowhere; one that waits, is owed its answer or opened a turn has none yet; TRUE only
  goes to an accepted text and FALSE never to one on record.
* `OrderInv`: every sequence is in the order of commits and comes before all later
  ones, in the order in which the model reads them (`Line`). It has one conjunct that
  `OrderOfCommit` does not need but its step does: a consumed text which the
  transcript has lost track of comes after everything the transcript has, so that the
  replay of a failed call can put it back at the end.

The lemmas before it say what concatenation, `Append`, `RemoveAt` and `Without` do to
the elements of a sequence and to their order (`Ordered`, `Thins`). For
`OnlyOrphansAreDropped`, `OthersDropNothing` goes through the actions: each that
clears a sequence has copied it elsewhere. For the refinement, `Standing` reads a
text's fate off the records the invariant relates, `StandingIsFate` shows that it is
the `FateOf` of the mapping, and each action is then one `Promise` action, which moves
all the texts it moves at once, or a stutter.

**`SubAgentControlProofs`** (finitely many invocations): all seven safety
properties of `delegation`. `ControlInv` is one conjunct per concern.
`CountInv` says that the counters are the live invocations and that only a run
has any; it needs cardinalities (one more when an invocation starts, one less
when it returns) and gives the types of the counters, which never go below zero.
`CallInv` ties an open call to its invocation, so that at rest, where nobody is
live, no call is open; saves at rest therefore have none either, which is why
`RemoveRecords` and `FinalizeRestored` may take records. `PauseInv` carries the record from
`Pause` to the announcement, as `present` or `failed`; no other step takes it from a
paused invocation. `KernelInv`: who holds the finalize lock is not
final yet, so the announcement made under it is the first. `AcpInv`: an external
controller announces its cascade before it can be announced again, its flag is
up from then on, and each place that could still speak looks at the flag. Most
conjuncts are disturbed by few steps: `StepMoves` and `StepRecords` say once what
a controller's step may do to the coroutine and to the records.

**`RecoveryCheckpointProofs`**: `BarrierIsNewest`, `AckedSurvives`, `NoStaleSidecar`,
`RestartNeverGoesBack`. In `RecoveryInv`, `LineInv` says that the lock's queue
is the writer and the barrier, once each; `BehindInv` and `FreshInv` that every snapshot
which is taken, pending or in the line is no newer in content than `live` and ordered by
its number; `OrderInv` that a higher number holds no less; `TurnInv` relates what
a save holds to what was merged; `DiskInv` says that what the disk's effective
file holds is at least what was acknowledged and at most what the turn has;
`CleanInv` that after a turn's own save the primary wins over its sidecar. The idle save that
crosses a turn is the exception the invariant carries as `crossed`.

**`McpConnectionsProofs`** (finitely many consumers): `CountIsHolders`,
`LeaseIsOpen`, `OneConnectionPerKey`, `NoLostRegistration`. `McpInv` pairs each
connection with its connect task (`PairedInv`), says that an entry is opening or
open (`EntryInv`) and that nothing is opening or open outside the table (`TrackedInv`); that
the connection somebody waits for is, once it is done, registered and young
(`WaitInv`, which rests on the assumption about time in `Age`); that a lease is on
what the table has, and that the count is the number of holders, dropped leases
included. Everything but
the pairing is conditional on the cache being open: `close_all` gives it up.

**`HookOutboxProofs`**: `NoJobLost` and `OutcomeIsTrue`. The point of the invariant is
what a copy knows: a copy that is about to be moved carries the reason why, and a copy's number of
retries never exceeds the times the hook was really started, although copies of
several processes overwrite each other's files.

Model-checked only: the liveness properties (`EventsSettle`, `EveryTextIsSettled`,
`InterruptEndsAll`, `TurnIsSettled`, `ShutdownClosesAll`, `AcquireSettles`,
`EveryJobSettles`), which are out of the prover's reach, as is ENABLED. Every invariant and
every action property of a passing run is proved. The two findings are
counterexamples of TLC's, which no theorem states.

## 8. Not modelled

The front ends (`app/`) are sources of events: the model lets every event arrive
at any time, which is more than they do. In particular the interface clears
only an idle session, while the model clears any. Of the kernel's tool loop only
the calls and the texts they take are modelled; tool dispatch, compaction, the
LLM clients and the tools are the content of one pass. Configuration, platform code,
text handling, profiles, skills and analytics have no concurrent state; by lines
they are most of the repository. The remaining concurrent parts are on the plan of
section 2 (the writer lease and the file lock, approval, mutation registries) or
small (the event bus, whose effect on the engine is that every publish is an
await).
