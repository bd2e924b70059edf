-------------------------- MODULE InjectionDelivery --------------------------
(***************************************************************************)
(* What becomes of a text submitted while a turn runs: admission, queue,   *)
(* delivery to the model, notification, history.  One session and one      *)
(* executor; session boundaries and rebuilds are TurnLifecycle's subject.  *)
(* An action is the code between two awaits.                               *)
(*                                                                         *)
(*   handler  coordinator.on_user_message / on_user_inject, ActiveTurn-    *)
(*            Injector: gate, prompt hooks, skill staging, commit          *)
(*   cancel   coordinator.on_user_inject_cancel                            *)
(*   run      TurnRunner.run_fresh / run_retry up to the executor, the     *)
(*            kernel's tool loop through InjectionMiddleware, TurnFinalizer*)
(*   notice   the detached consumed=True notification                      *)
(*                                                                         *)
(* A text is a model value: the text, its ids, its hook reminder.  Work is *)
(* what an answered request leaves in the transcript.                      *)
(***************************************************************************)
EXTENDS Integers, FiniteSets, SequencesExt

CONSTANTS
  Messages,   \* UserMessage events: their injection_id can be cancelled
  Injects,    \* UserInject events without an id (the ACP front end)
  Withdrawn,  \* the prompts their author may come to cancel
  Work,       \* an answered request's assistant and tool messages
  None,       \* Python's None
  MaxPasses,  \* bound: run tasks (fresh turns and retries)
  MaxCalls,   \* bound: answered requests of a pass
  MaxFails,   \* bound: retried provider failures
  MaxStops    \* bound: UserInterrupt events

Texts == Messages \cup Injects
Items == Texts \cup {Work}

ASSUME InjectionAssumption ==
  /\ Messages \cap Injects = {} /\ Withdrawn \subseteq Messages
  /\ Work \notin Texts /\ None \notin Texts
  /\ {MaxPasses, MaxCalls, MaxFails, MaxStops} \subseteq Nat

VARIABLES
  \* each handler's place, the pass and reminder state it captured; cancel marks
  pc, target, marks,
  \* the UserInjectResults published, and the texts whose notice is on its way
  results, owed,
  \* InjectionMiddleware: pending, replay, this call's batches, their wire copies
  queue, replay, retried, mirror,
  \* engine._consumed_injections, and the texts drained but not yet returned
  consumed, drained,
  \* the pass's own messages since its start; the session's history
  kept, history,
  \* the run: its phase, number, opening prompt, how it ended, a retry queued,
  \* a stop flagged, a live continuation token
  phase, pass, opener, outcome, again, stopping, tokenLive,
  \* the prepared turn's reminder state, the reminders riding on it, the
  \* approval judge's user messages
  reminderState, reminders, judge,
  \* bounds, and history variables: commit order, texts that opened a turn
  calls, fails, stops, accepted, opened

handlerVars == <<pc, target, marks>>
toldVars    == <<results, owed>>
queueVars   == <<queue, replay, retried, mirror>>
recordVars  == <<consumed, drained, kept, history>>
runVars     == <<phase, pass, opener, outcome, again, stopping, tokenLive>>
turnVars    == <<reminderState, reminders, judge>>
countVars   == <<calls, fails, stops>>
ghostVars   == <<accepted, opened>>
vars == <<handlerVars, toldVars, queueVars, recordVars, runVars, turnVars, countVars, ghostVars>>

-----------------------------------------------------------------------------
EndsWith(s, S) == s # <<>> /\ s[Len(s)] \in S

\* The elements of s that are not in S, in their order: the n-th of them is the one
\* with n such elements up to and including its place.
Without(s, S) ==
  LET Stays    == {k \in DOMAIN s : s[k] \notin S}
      place(k) == Cardinality({j \in Stays : j <= k})
  IN  [n \in 1..Cardinality(Stays) |-> s[CHOOSE k \in Stays : place(k) = n]]

\* new | waiting for the load gate | prompt hooks | skills staging | committed |
\* waiting for a finished run's cleanup | opening a turn of its own | returned
HandlerPcs == {"new", "gate", "hooks", "staging", "publishing", "waitRun", "starting", "out"}

\* No run | before the executor | tool loop between calls | consuming, awaiting
\* the checkpoint | provider call | executor returned | drained | saving
Phases == {"none", "pre", "ready", "consuming", "wire", "returning", "drain", "save"}

WindowPhases == {"pre", "ready", "consuming", "wire", "returning"}
WindowOpen   == phase \in WindowPhases

\* EngineStateMachine.is_running: to the terminal transition, or kept by a queued retry
Running == WindowOpen \/ phase = "drain" \/ (phase = "save" /\ again)

Inflight == {i \in Texts : pc[i] \notin {"new", "out"}}
Marked(i) == i \in marks

TargetCurrent(i) == WindowOpen /\ target[i].pass = pass

\* A target captured before prepare_turn is good for the scope's life; a prepared
\* one only for that turn state.
ReminderTargetValid(i) == target[i].state \in {0, reminderState}

Init ==
  /\ pc = [i \in Texts |-> "new"]
  /\ target = [i \in Texts |-> [pass |-> 0, state |-> 0]]
  /\ marks = {} /\ owed = {}
  /\ results = [i \in Texts |-> <<>>]
  /\ queue = <<>> /\ replay = <<>> /\ retried = <<>> /\ mirror = <<>>
  /\ consumed = <<>> /\ drained = <<>> /\ kept = <<>> /\ history = <<>>
  /\ phase = "none" /\ pass = 0 /\ opener = None /\ outcome = "ok"
  /\ again = FALSE /\ stopping = FALSE /\ tokenLive = FALSE
  /\ reminderState = 0 /\ reminders = {} /\ judge = {}
  /\ calls = 0 /\ fails = 0 /\ stops = 0
  /\ accepted = <<>> /\ opened = {}

-----------------------------------------------------------------------------
(* The handlers.                                                           *)

\* Mutant of Leave: the cancel mark outlives its handler.
LeaveKeepsMark(i) == pc' = [pc EXCEPT ![i] = "out"] /\ marks' = marks

\* A handler returns: finish_inflight_injection drops a mark it did not observe.
Leave(i) == pc' = [pc EXCEPT ![i] = "out"] /\ marks' = marks \ {i}

\* UserInjectResult(consumed=False): the user gets the text back.
Publish(i, sent) == results' = [results EXCEPT ![i] = Append(@, sent)]

Abandon(i) == Leave(i) /\ Publish(i, FALSE) /\ UNCHANGED <<target, owed>>

MoveTo(i, place) == pc' = [pc EXCEPT ![i] = place] /\ UNCHANGED <<marks, results, owed>>

NoOtherOpens(i) == \A j \in Texts \ {i} : pc[j] # "starting"

Submit(i) ==
  /\ pc[i] = "new" /\ MoveTo(i, "gate")
  /\ UNCHANGED <<target, queueVars, recordVars, runVars, turnVars, countVars, ghostVars>>

\* During a run: capture the open window before the hooks, or give the text back.
EnterRun(i) ==
  /\ pc[i] = "gate" /\ (Running \/ i \in Injects)
  /\ \/ /\ WindowOpen
        /\ target' = [target EXCEPT ![i] = [pass |-> pass, state |-> reminderState]]
        /\ MoveTo(i, "hooks")
     \/ ~WindowOpen /\ Abandon(i)
  /\ UNCHANGED <<queueVars, recordVars, runVars, turnVars, countVars, ghostVars>>

\* The run ended but its task still saves: wait for that task.
AwaitCleanup(i) ==
  /\ pc[i] = "gate" /\ i \in Messages /\ phase = "save" /\ ~again
  /\ target' = [target EXCEPT ![i] = [pass |-> pass, state |-> 0]]
  /\ MoveTo(i, "waitRun")
  /\ UNCHANGED <<queueVars, recordVars, runVars, turnVars, countVars, ghostVars>>

CleanedUp(i) == pc[i] = "waitRun" /\ (phase = "none" \/ pass # target[i].pass)

\* Reserve the admission of a fresh turn; a prompt withdrawn meanwhile stops here.
Reserve(i) ==
  /\ i \in Messages /\ NoOtherOpens(i)
  /\ (pc[i] = "gate" /\ phase = "none") \/ CleanedUp(i)
  /\ \/ Marked(i) /\ Abandon(i)
     \/ ~Marked(i) /\ MoveTo(i, "starting") /\ UNCHANGED target
  /\ UNCHANGED <<queueVars, recordVars, runVars, turnVars, countVars, ghostVars>>

\* Another prompt holds an admission: decide again when it is idle.
WaitForOtherAdmission(i) ==
  /\ CleanedUp(i) /\ ~NoOtherOpens(i)
  /\ MoveTo(i, "gate")
  /\ UNCHANGED <<target, queueVars, recordVars, runVars, turnVars, countVars, ghostVars>>

\* The hooks are done: withdrawn or too late, rejected, or on to the skills.
HooksDone(i) ==
  /\ pc[i] = "hooks"
  /\ \/ (Marked(i) \/ ~TargetCurrent(i)) /\ Abandon(i)
     \/ /\ ~Marked(i) /\ TargetCurrent(i)
        /\ \/ Leave(i) /\ UNCHANGED <<target, toldVars>>
           \/ MoveTo(i, "staging") /\ UNCHANGED target
  /\ UNCHANGED <<queueVars, recordVars, runVars, turnVars, countVars, ghostVars>>

\* Mutant of MayCommit: the mark is not looked at again after the skills.
MayCommitUnmarked(i) == TargetCurrent(i) /\ ReminderTargetValid(i)

MayCommit(i) == ~Marked(i) /\ TargetCurrent(i) /\ ReminderTargetValid(i)

\* Check and commit without an await: reminders, queue and judge context.
Commit(i) ==
  /\ pc[i] = "staging" /\ MayCommit(i)
  /\ reminders' = reminders \cup {i}
  /\ queue' = Append(queue, i)
  /\ judge' = judge \cup {i}
  /\ accepted' = Append(accepted, i)
  /\ MoveTo(i, "publishing")
  /\ UNCHANGED <<target, replay, retried, mirror, recordVars, runVars, reminderState, countVars, opened>>

RefuseCommit(i) ==
  /\ pc[i] = "staging" /\ ~MayCommit(i)
  /\ Abandon(i)
  /\ UNCHANGED <<queueVars, recordVars, runVars, turnVars, countVars, ghostVars>>

\* The skill refresh that follows the commit has been published.
CommitPublished(i) ==
  /\ pc[i] = "publishing" /\ Leave(i)
  /\ UNCHANGED <<target, toldVars, queueVars, recordVars, runVars, turnVars, countVars, ghostVars>>

\* A fresh turn is refused: withdrawn, rejected by a hook, or a run got there first.
RefuseTurn(i) ==
  /\ pc[i] = "starting"
  /\ \/ Marked(i) /\ Abandon(i)
     \/ ~Marked(i) /\ Leave(i) /\ UNCHANGED <<target, toldVars>>
  /\ UNCHANGED <<queueVars, recordVars, runVars, turnVars, countVars, ghostVars>>

\* remove_orphaned_user_message: after a failed turn, a last message of the user's goes.
WithoutOrphan == IF outcome # "ok" /\ EndsWith(history, Texts) THEN Front(history) ELSE history

\* The last checks before the task is created: not withdrawn, and no run.
MayOpen(i) == ~Marked(i) /\ phase = "none"

\* The prompt opens a turn; the last turn's reminder scope expires with it.
OpenTurn(i) ==
  /\ pc[i] = "starting" /\ MayOpen(i) /\ pass < MaxPasses
  /\ Leave(i)
  /\ history' = WithoutOrphan
  /\ phase' = "pre" /\ pass' = pass + 1 /\ opener' = i /\ outcome' = "ok"
  /\ reminderState' = 0 /\ reminders' = {}
  /\ opened' = opened \cup {i}
  /\ UNCHANGED <<target, toldVars, queueVars, consumed, drained, kept, again, stopping, tokenLive,
                 judge, countVars, accepted>>

\* on_user_inject_cancel: take the text off the queue, or mark its admission.
Cancel(i) ==
  /\ i \in Withdrawn
  /\ \/ /\ \E k \in DOMAIN queue : queue[k] = i /\ queue' = RemoveAt(queue, k)
        /\ judge' = judge \ {i} /\ reminders' = reminders \ {i}
        /\ Publish(i, FALSE) /\ UNCHANGED marks
     \/ /\ i \notin ToSet(queue) /\ i \in Inflight
        /\ marks' = marks \cup {i}
        /\ UNCHANGED <<queue, judge, reminders, results>>
  /\ UNCHANGED <<pc, target, owed, replay, retried, mirror, recordVars, runVars, reminderState,
                 countVars, ghostVars>>

-----------------------------------------------------------------------------
(* The run.                                                                *)

\* The transcript of the current turn: from the last prompt that opened one.
ThisTurn == {k \in DOMAIN history : \A n \in DOMAIN history : n > k => history[n] \notin opened}

\* The user's texts of the current turn, which a retry shows the judge again.
OfThisTurn == {history[k] : k \in ThisTurn} \cap Texts

\* What a pass sends of its own: a fresh prompt; on a retry the last message of
\* the user's if the model never worked on it and has no response under way.
Replayed == IF ~tokenLive /\ EndsWith(history, Texts) THEN <<history[Len(history)]>> ELSE <<>>

\* prepare_turn, the judge's context and Executor.run / resume up to the tool loop.
PassPrepares ==
  /\ phase = "pre" /\ phase' = "ready"
  /\ reminderState' = pass /\ calls' = 0
  /\ replay' = <<>> /\ retried' = <<>> /\ mirror' = <<>>
  /\ \/ /\ opener # None
        /\ judge' = {opener} /\ kept' = <<opener>> /\ tokenLive' = FALSE /\ UNCHANGED history
     \/ /\ opener = None
        /\ judge' = OfThisTurn /\ kept' = Replayed /\ UNCHANGED tokenLive
        /\ history' = IF Replayed = <<>> THEN history ELSE Front(history)
  /\ UNCHANGED <<handlerVars, toldVars, queue, consumed, drained, pass, opener, outcome, again,
                 stopping, reminders, fails, stops, ghostVars>>

\* Mutant of Batch: new texts overtake the ones a failed call already took.
BatchNewFirst == queue \o replay

\* What the next request takes along: what a failed call took, then what is new.
Batch == replay \o queue

\* By consumption id: a retry takes the same texts, and is not announced again.
NewlyConsumed == Without(Batch, ToSet(consumed))

\* InjectionMiddleware.process on a request that creates a response.
Consume ==
  /\ phase = "ready" /\ ~stopping /\ ~tokenLive
  /\ consumed' = consumed \o NewlyConsumed
  /\ owed' = owed \cup ToSet(NewlyConsumed)
  /\ mirror' = mirror \o Batch /\ retried' = retried \o Batch
  /\ replay' = <<>> /\ queue' = <<>>
  /\ phase' = IF Batch = <<>> THEN "wire" ELSE "consuming"
  /\ UNCHANGED <<handlerVars, results, drained, kept, history, pass, opener, outcome, again, stopping,
                 tokenLive, turnVars, countVars, ghostVars>>

\* A poll for a response already created carries no message: nothing is consumed.
Poll ==
  /\ phase = "ready" /\ ~stopping /\ tokenLive
  /\ phase' = "wire"
  /\ UNCHANGED <<handlerVars, toldVars, queueVars, recordVars, pass, opener, outcome, again, stopping,
                 tokenLive, turnVars, countVars, ghostVars>>

\* The recovery checkpoint with the consumed texts is on disk.
CheckpointFlushed ==
  /\ phase = "consuming" /\ phase' = "wire"
  /\ UNCHANGED <<handlerVars, toldVars, queueVars, recordVars, pass, opener, outcome, again, stopping,
                 tokenLive, turnVars, countVars, ghostVars>>

\* The provider announces a background response, mid-stream or instead of an answer.
Announced ==
  /\ phase = "wire"
  /\ tokenLive' = TRUE /\ phase' \in {"wire", "ready"}
  /\ UNCHANGED <<handlerVars, toldVars, queueVars, recordVars, pass, opener, outcome, again, stopping,
                 turnVars, countVars, ghostVars>>

\* The call is answered: commit_logical_call, and the loop keeps the texts it took.
\* Tool calls lead to another call; a stop that came first still ends the pass, and
\* takes a final text out of the history.
Answered ==
  /\ phase = "wire"
  /\ tokenLive' = FALSE /\ replay' = <<>> /\ retried' = <<>> /\ mirror' = <<>>
  /\ calls' = calls + 1
  /\ \/ /\ calls + 1 < MaxCalls
        /\ kept' = kept \o mirror \o <<Work>>
        /\ phase' = "ready" /\ UNCHANGED outcome
     \/ /\ ~stopping
        /\ kept' = kept \o mirror \o <<Work>>
        /\ phase' = "returning" /\ outcome' = "ok"
     \/ /\ stopping
        /\ kept' \in {kept \o mirror, kept \o mirror \o <<Work>>}
        /\ phase' = "returning" /\ outcome' = "interrupted"
  /\ UNCHANGED <<handlerVars, toldVars, queue, consumed, drained, history, pass, opener, again, stopping,
                 turnVars, fails, stops, ghostVars>>

\* end_retry: the retry state goes when the executor's run ends, however it ends.
EndRetry == replay' = <<>> /\ retried' = <<>> /\ mirror' = <<>>

\* Mutant of RestoreForRetry: also when the provider still holds what it was sent.
RestoreAlways ==
  /\ replay' = IF retried # <<>> THEN retried ELSE replay
  /\ retried' = <<>> /\ mirror' = <<>>

\* Before a retry, synchronously: what the failed call took is taken again, unless
\* a live token says that the provider has it.
RestoreForRetry ==
  \/ tokenLive' /\ UNCHANGED <<replay, retried, mirror>>
  \/ /\ ~tokenLive'
     /\ replay' = IF retried # <<>> THEN retried ELSE replay
     /\ retried' = <<>> /\ mirror' = <<>>

\* A provider failure, or one before the middleware runs; it may end a background
\* response.  Retried within the budget, else the pass has failed.
CallFails ==
  /\ phase = "wire" \/ (phase = "ready" /\ ~stopping)
  /\ tokenLive' \in {tokenLive, FALSE}
  /\ \/ /\ fails < MaxFails /\ fails' = fails + 1
        /\ RestoreForRetry
        /\ phase' = "ready" /\ UNCHANGED outcome
     \/ /\ EndRetry
        /\ phase' = "returning" /\ outcome' = (IF stopping THEN "interrupted" ELSE "failed")
        /\ UNCHANGED fails
  /\ UNCHANGED <<handlerVars, toldVars, queue, recordVars, pass, opener, again, stopping, turnVars,
                 calls, stops, ghostVars>>

Stop ==
  /\ phase \in {"pre", "ready", "consuming", "wire"} /\ ~stopping /\ stops < MaxStops
  /\ stopping' = TRUE /\ stops' = stops + 1
  /\ UNCHANGED <<handlerVars, toldVars, queueVars, recordVars, phase, pass, opener, outcome, again,
                 tokenLive, turnVars, calls, fails, ghostVars>>

\* The cancelled agent call ends the pass.  Tool calls under way are unanswered: the
\* history is trimmed to the last complete exchange.
Interrupted ==
  /\ stopping /\ phase \in {"ready", "consuming", "wire"}
  /\ EndRetry
  /\ \/ UNCHANGED kept
     \/ phase = "ready" /\ EndsWith(kept, {Work}) /\ kept' = Front(kept)
  /\ phase' = "returning" /\ outcome' = "interrupted"
  /\ UNCHANGED <<handlerVars, toldVars, queue, consumed, drained, history, pass, opener, again, stopping,
                 tokenLive, turnVars, countVars, ghostVars>>

-----------------------------------------------------------------------------
(* The finalizer.                                                          *)

WithdrawDrained == reminders' = reminders \ ToSet(queue)

\* Mutant of DrainPending: the drained texts stay on the queue too.
DrainKeepsQueue == drained' = queue /\ UNCHANGED queue

\* Mutant of DrainPending: the queue is cleared and nobody told.
DrainForgets == drained' = <<>> /\ queue' = <<>>

DrainPending == drained' = queue /\ queue' = <<>>

\* The window closes and the queue is drained without an await between them.
PassReturns ==
  /\ phase = "returning" /\ phase' = "drain"
  /\ DrainPending /\ WithdrawDrained
  /\ stopping' = FALSE
  /\ UNCHANGED <<handlerVars, toldVars, replay, retried, mirror, consumed, kept, history, pass, opener,
                 outcome, again, tokenLive, reminderState, judge, countVars, ghostVars>>

\* One drained text given back; the next one waits for the bus.
ReturnDrained ==
  /\ phase = "drain" /\ drained # <<>>
  /\ Publish(Head(drained), FALSE)
  /\ drained' = Tail(drained)
  /\ UNCHANGED <<handlerVars, owed, queueVars, consumed, kept, history, runVars, turnVars, countVars, ghostVars>>

\* Mutant of Persisted: the texts of a failed call are not looked for.
PersistedKeptOnly == history \o kept

\* The pass's own messages, then each consumed text not among them.
Persisted == history \o kept \o Without(consumed, ToSet(history \o kept))

\* The sync end of finalization; a queued retry keeps the engine running.
PassSaves ==
  /\ phase = "drain" /\ drained = <<>> /\ phase' = "save"
  /\ history' = Persisted
  /\ kept' = <<>> /\ consumed' = <<>> /\ opener' = None
  /\ again' \in {FALSE, pass < MaxPasses}
  /\ UNCHANGED <<handlerVars, toldVars, queueVars, drained, pass, outcome, stopping, tokenLive, turnVars,
                 countVars, ghostVars>>

\* The task ends: the queued retry starts on the same reminder scope, or the scope
\* of a turn that ended well expires.
RunEnds ==
  /\ phase = "save" /\ again' = FALSE
  /\ \/ again /\ phase' = "pre" /\ pass' = pass + 1 /\ UNCHANGED <<reminders, reminderState>>
     \/ /\ ~again /\ phase' = "none" /\ UNCHANGED pass
        /\ reminders' = IF outcome = "ok" THEN {} ELSE reminders
        /\ reminderState' = IF outcome = "ok" THEN 0 ELSE reminderState
  /\ UNCHANGED <<handlerVars, toldVars, queueVars, recordVars, opener, outcome, stopping, tokenLive, judge,
                 countVars, ghostVars>>

\* A plain retry of a failed or interrupted turn; it waits for a prompt's admission.
RetryTurn ==
  /\ phase = "none" /\ outcome # "ok" /\ pass < MaxPasses
  /\ \A i \in Texts : pc[i] # "starting"
  /\ OfThisTurn # {}
  /\ phase' = "pre" /\ pass' = pass + 1
  /\ UNCHANGED <<handlerVars, toldVars, queueVars, recordVars, opener, outcome, again, stopping, tokenLive,
                 turnVars, countVars, ghostVars>>

\* The detached notification reaches the bus.
Notify(i) ==
  /\ i \in owed /\ owed' = owed \ {i}
  /\ Publish(i, TRUE)
  /\ UNCHANGED <<handlerVars, queueVars, recordVars, runVars, turnVars, countVars, ghostVars>>

-----------------------------------------------------------------------------
HandlerStep(i) ==
  \/ EnterRun(i) \/ AwaitCleanup(i) \/ Reserve(i) \/ WaitForOtherAdmission(i) \/ HooksDone(i)
  \/ Commit(i) \/ RefuseCommit(i) \/ CommitPublished(i) \/ RefuseTurn(i) \/ OpenTurn(i)

CallEnds == Answered \/ CallFails \/ Interrupted

RunStep ==
  \/ PassPrepares \/ Consume \/ Poll \/ CheckpointFlushed
  \/ PassReturns \/ ReturnDrained \/ PassSaves \/ RunEnds

Next ==
  \/ \E i \in Texts : Submit(i) \/ HandlerStep(i) \/ Cancel(i) \/ Notify(i)
  \/ RunStep \/ CallEnds \/ Announced \/ Stop \/ RetryTurn

Spec == Init /\ [][Next]_vars

\* Handlers, the run and the notifier are asyncio tasks: each goes on when it can.
\* A provider call ends: it is answered, fails, or the stall watchdog fails it.
Fairness ==
  /\ \A i \in Texts : WF_vars(HandlerStep(i)) /\ WF_vars(Notify(i))
  /\ WF_vars(RunStep) /\ SF_vars(CallEnds)

FairSpec == Spec /\ Fairness

-----------------------------------------------------------------------------
(* Types.                                                                  *)

\* Every variable stays in its range.
TypeOK ==
  /\ pc \in [Texts -> HandlerPcs]
  /\ target \in [Texts -> [pass : Nat, state : Nat]]
  /\ marks \subseteq Texts /\ owed \subseteq Texts
  /\ results \in [Texts -> Seq(BOOLEAN)]
  /\ {queue, replay, retried, mirror, consumed, drained, accepted} \subseteq Seq(Texts)
  /\ {kept, history} \subseteq Seq(Items)
  /\ phase \in Phases /\ pass \in Nat
  /\ opener \in Texts \cup {None} /\ outcome \in {"ok", "failed", "interrupted"}
  /\ {again, stopping, tokenLive} \subseteq BOOLEAN
  /\ reminderState \in Nat
  /\ reminders \subseteq Texts /\ judge \subseteq Texts /\ opened \subseteq Texts
  /\ {calls, fails, stops} \subseteq Nat

-----------------------------------------------------------------------------
(* Safety.                                                                 *)

\* What is on record as sent: consumed, in the loop, in the history, or opening a turn.
Held == ToSet(consumed) \cup ToSet(kept) \cup ToSet(history) \cup {opener}

\* A text is answered once, and one given back to its author, by a cancel, a closed
\* window or the drain at the end of the run, is in no request, queue or history: the
\* author may send it again without the model reading it twice.
ReturnedIsNeverSent == \A i \in Texts :
  /\ Len(results[i]) + (IF i \in owed THEN 1 ELSE 0) <= 1
  /\ results[i] = <<FALSE>> => i \notin Held \cup opened \cup ToSet(queue) \cup ToSet(replay) \cup ToSet(drained)

\* While the loop runs, every text it took is still on its way to the model: kept from
\* an answered call, part of this call, or replayed by the next (restore_for_retry,
\* commit_logical_call, the continuation token, the retained-message mirror).
ConsumedStaysInReach ==
  phase \in {"ready", "consuming", "wire"} =>
    ToSet(consumed) \subseteq ToSet(kept) \cup ToSet(mirror) \cup ToSet(replay)

\* What the model has read or is to read, in that order: the history, the loop's own
\* messages, this call's texts, those of the failed call, those that wait.
Line == history \o kept \o mirror \o replay \o queue

\* No request shows the model a text twice, however often calls fail and passes are
\* retried: history, the loop's own messages and this call's texts never overlap.
NoTextTwice == \A j, k \in DOMAIN Line : Line[j] \in Texts /\ Line[j] = Line[k] => j = k

\* The model reads injections in the order they were committed, across failed calls,
\* polls and retries, and the history keeps that order.
OrderOfCommit == \A j, k \in DOMAIN Line : \A m, n \in DOMAIN accepted :
  j < k /\ Line[j] = accepted[m] /\ Line[k] = accepted[n] => m < n

\* A cancel mark never outlives the admission that can observe it.
MarksAreObservable == marks \subseteq Inflight

\* A hook reminder rides on the turn only while the text it was queued with waits to be
\* sent or was sent: a text given back takes its reminder along, also into a retry.
ReminderHasItsText == reminders \subseteq ToSet(queue) \cup Held

\* At every moment a text is in exactly the places its answer and its record
\* allow, whatever failed, was polled, withdrawn, retried or saved before.
EveryTextHasItsPlace ==
  TypeOK /\ ReturnedIsNeverSent /\ ConsumedStaysInReach /\ NoTextTwice /\ ReminderHasItsText

\* A cancel that found the text still in admission wins over the admission: the text
\* is neither queued nor opens a turn, whatever the hooks and the skills awaited.
CancelBeatsAdmission ==
  [][\A i \in marks : i \in ToSet(queue') \cup opened' => i \in ToSet(queue) \cup opened]_vars

\* What is on record as sent leaves it only as the unanswered last message of a failed
\* turn when a new prompt opens; no failure, stop, retry or save loses a text.
OnlyOrphansAreDropped ==
  [][\A i \in Texts : i \in Held \ Held' =>
       phase = "none" /\ outcome # "ok" /\ EndsWith(history, {i})]_vars

\* Refuted.  service/agent_middleware/control/approval.py:259 appends an injection "for
\* later approval judge context".  A text accepted while the turn is still prepared is
\* wiped when the runner sets the turn's user messages, and sent to the model after.
JudgeSeesSent ==
  phase \in {"consuming", "wire"} /\ ~tokenLive => ToSet(mirror) \subseteq judge

\* Refuted.  service/session/history.py:540: a last message of the user's "means the
\* model produced nothing before failing", so that it may go when a new prompt opens.
\* A text injected after tool calls is last in the history as well, and goes.
OutputKeepsTheMessage ==
  [][(phase = "none" /\ history' # history) => \A k \in ThisTurn : history[k] # Work]_vars

-----------------------------------------------------------------------------
(* The promise.                                                            *)

\* Where a text stands, as its author can tell.
FateOf(i) ==
  IF pc[i] = "new" THEN "new"
  ELSE IF i = opener THEN "opened"
  ELSE IF i \in ToSet(consumed) THEN "sent"
  ELSE IF i \in ToSet(history) \cup ToSet(kept) THEN "saved"
  ELSE IF i \in ToSet(queue) \cup ToSet(drained) THEN "accepted"
  ELSE IF results[i] = <<FALSE>> THEN "returned"
  ELSE IF i \in opened \cup owed \/ results[i] = <<TRUE>> THEN "removed"
  ELSE IF pc[i] # "out" THEN "asked"
  ELSE IF i \notin ToSet(accepted) THEN "refused"
  ELSE "lost"

Promise == INSTANCE InjectionPromise WITH fate <- [i \in Texts |-> FateOf(i)], answer <- results

\* Every run of the code is one the promise allows.
KeepsPromise == Promise!Spec

\* A submitted text is settled: it is given back, its delivery is announced, it opens a
\* turn, or it is refused with an error.  Nothing waits for ever on a closed window, a
\* failed call or a stopped run.
EveryTextIsSettled == \A i \in Texts :
  pc[i] # "new" ~> (results[i] # <<>> \/ i \in opened \/ FateOf(i) = "refused")
=============================================================================
