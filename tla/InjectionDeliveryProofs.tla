----------------------- MODULE InjectionDeliveryProofs -----------------------
(***************************************************************************)
(* Theorems about InjectionDelivery, for any number of texts and any       *)
(* bounds: a cancel mark can always be observed, and a cancel that finds   *)
(* its text in admission wins over the admission.                          *)
(***************************************************************************)
EXTENDS InjectionDelivery, TLAPS

-----------------------------------------------------------------------------
(* Cancel marks.                                                           *)

\* MarksAreObservable with the places of the handlers: a step that moves a handler
\* only says where it goes if the handlers are a function of the texts.
MarksInv ==
  /\ pc \in [Texts -> HandlerPcs]
  /\ MarksAreObservable

\* A handler that goes on stays in flight.
LEMMA MoveKeepsMarks ==
  ASSUME MarksInv, NEW i \in Texts, NEW place \in HandlerPcs \ {"new", "out"}, MoveTo(i, place)
  PROVE  MarksInv'
BY DEF MarksInv, MarksAreObservable, Inflight, MoveTo, HandlerPcs

\* A handler that returns takes its mark along.
LEMMA LeaveDropsMark ==
  ASSUME MarksInv, NEW i \in Texts, Leave(i)
  PROVE  MarksInv'
BY DEF MarksInv, MarksAreObservable, Inflight, Leave, HandlerPcs

\* A step that touches neither handlers nor marks.
LEMMA MarksUntouched ==
  ASSUME MarksInv, UNCHANGED <<pc, marks>>
  PROVE  MarksInv'
BY DEF MarksInv, MarksAreObservable, Inflight

\* Each step of a handler moves it, or ends it.
LEMMA HandlerMovesOrLeaves ==
  ASSUME NEW i \in Texts, Submit(i) \/ HandlerStep(i)
  PROVE  \/ \E place \in HandlerPcs \ {"new", "out"} : MoveTo(i, place)
         \/ Leave(i)
<1>1. CASE Submit(i)          BY <1>1 DEF Submit, HandlerPcs
<1>2. CASE EnterRun(i)        BY <1>2 DEF EnterRun, Abandon, HandlerPcs
<1>3. CASE AwaitCleanup(i)    BY <1>3 DEF AwaitCleanup, HandlerPcs
<1>4. CASE Reserve(i)         BY <1>4 DEF Reserve, Abandon, HandlerPcs
<1>5. CASE WaitForOtherAdmission(i) BY <1>5 DEF WaitForOtherAdmission, HandlerPcs
<1>6. CASE HooksDone(i)       BY <1>6 DEF HooksDone, Abandon, HandlerPcs
<1>7. CASE Commit(i)          BY <1>7 DEF Commit, HandlerPcs
<1>8. CASE RefuseCommit(i)    BY <1>8 DEF RefuseCommit, Abandon
<1>9. CASE CommitPublished(i) BY <1>9 DEF CommitPublished
<1>10. CASE RefuseTurn(i)     BY <1>10 DEF RefuseTurn, Abandon
<1>11. CASE OpenTurn(i)       BY <1>11 DEF OpenTurn
<1> QED BY <1>1, <1>2, <1>3, <1>4, <1>5, <1>6, <1>7, <1>8, <1>9, <1>10, <1>11 DEF HandlerStep

\* The run, the provider and the notifier leave handlers and marks alone.
LEMMA RunKeepsHandlers ==
  ASSUME RunStep \/ CallEnds \/ Announced \/ Stop \/ RetryTurn \/ \E i \in Texts : Notify(i)
  PROVE  UNCHANGED <<pc, marks>>
<1>1. CASE RunStep
  BY <1>1 DEF RunStep, PassPrepares, Consume, Poll, CheckpointFlushed, PassReturns, ReturnDrained,
              PassSaves, RunEnds, handlerVars
<1>2. CASE CallEnds \/ Announced
  BY <1>2 DEF CallEnds, Answered, CallFails, Interrupted, Announced, handlerVars
<1>3. CASE Stop \/ RetryTurn \/ \E i \in Texts : Notify(i)
  BY <1>3 DEF Stop, RetryTurn, Notify, handlerVars
<1> QED BY <1>1, <1>2, <1>3

LEMMA MarksInvHolds == Spec => []MarksInv
<1>1. Init => MarksInv
  BY DEF Init, MarksInv, MarksAreObservable, HandlerPcs
<1>2. MarksInv /\ [Next]_vars => MarksInv'
  <2> SUFFICES ASSUME MarksInv, [Next]_vars PROVE MarksInv'
    OBVIOUS
  <2>1. ASSUME NEW i \in Texts, Submit(i) \/ HandlerStep(i) PROVE MarksInv'
    BY <2>1, HandlerMovesOrLeaves, MoveKeepsMarks, LeaveDropsMark
  <2>2. ASSUME NEW i \in Texts, Cancel(i) PROVE MarksInv'
    BY <2>2 DEF Cancel, MarksInv, MarksAreObservable, Inflight
  <2>3. CASE RunStep \/ CallEnds \/ Announced \/ Stop \/ RetryTurn \/ \E i \in Texts : Notify(i)
    BY <2>3, RunKeepsHandlers, MarksUntouched
  <2>4. CASE UNCHANGED vars
    BY <2>4, MarksUntouched DEF vars, handlerVars
  <2> QED BY <2>1, <2>2, <2>3, <2>4 DEF Next
<1> QED BY <1>1, <1>2, PTL DEF Spec

\* A cancel mark never outlives the admission that can observe it, however handlers,
\* runs and cancels interleave: finish_inflight_injection on every way out.
THEOREM MarksObservable == Spec => []MarksAreObservable
<1>1. MarksInv => MarksAreObservable  BY DEF MarksInv
<1> QED BY <1>1, MarksInvHolds, PTL

-----------------------------------------------------------------------------
(* A cancel that finds its text in admission.                              *)

\* Taking one element out of a sequence leaves a sequence of the others.
LEMMA RemoveAtKeepsElements ==
  ASSUME NEW S, NEW s \in Seq(S), NEW k \in DOMAIN s
  PROVE  RemoveAt(s, k) \in Seq(S) /\ ToSet(RemoveAt(s, k)) \subseteq ToSet(s)
<1> DEFINE front == SubSeq(s, 1, k - 1)
           back  == SubSeq(s, k + 1, Len(s))
<1>1. k \in 1..Len(s) /\ Len(s) \in Nat
  OBVIOUS
<1>2. /\ front \in Seq(S) /\ Len(front) = k - 1
      /\ \A j \in 1..(k - 1) : front[j] = s[j]
  BY <1>1
<1>3. /\ back \in Seq(S) /\ Len(back) = Len(s) - k
      /\ \A j \in 1..(Len(s) - k) : back[j] = s[k + j]
  BY <1>1
<1>4. RemoveAt(s, k) = front \o back
  BY DEF RemoveAt
<1> HIDE DEF front, back
<1>5. front \o back \in Seq(S)
  BY <1>2, <1>3
<1>6. ASSUME NEW j \in DOMAIN (front \o back) PROVE \E n \in DOMAIN s : (front \o back)[j] = s[n]
  <2>1. j \in 1..(Len(s) - 1)
    BY <1>1, <1>2, <1>3
  <2>2. CASE j <= k - 1
    <3>1. (front \o back)[j] = s[j]
      BY <1>1, <1>2, <1>3, <2>1, <2>2
    <3> QED BY <1>1, <2>1, <3>1
  <2>3. CASE j > k - 1
    <3>1. j - (k - 1) \in 1..(Len(s) - k) /\ j + 1 \in DOMAIN s /\ k + (j - (k - 1)) = j + 1
      BY <1>1, <2>1, <2>3
    <3>2. (front \o back)[j] = back[j - (k - 1)]
      BY <1>1, <1>2, <1>3, <2>1, <2>3
    <3>3. back[j - (k - 1)] = s[j + 1]
      BY <1>3, <3>1
    <3> QED BY <3>1, <3>2, <3>3
  <2> QED BY <1>1, <2>1, <2>2, <2>3
<1> QED BY <1>4, <1>5, <1>6 DEF ToSet

\* What Append adds to a sequence is its last element and no other.
LEMMA AppendAddsOne ==
  ASSUME NEW S, NEW s \in Seq(S), NEW e \in S
  PROVE  Append(s, e) \in Seq(S) /\ ToSet(Append(s, e)) \subseteq ToSet(s) \cup {e}
<1>1. ASSUME NEW j \in DOMAIN Append(s, e), Append(s, e)[j] # e
      PROVE  \E n \in DOMAIN s : Append(s, e)[j] = s[n]
  <2>1. j \in DOMAIN s /\ Append(s, e)[j] = s[j]
    BY <1>1
  <2> QED BY <2>1
<1> QED BY <1>1 DEF ToSet

\* The queue holds texts.
QueueTyped == queue \in Seq(Texts)

\* Where texts come from: only a commit queues one and only OpenTurn opens a turn with
\* one, both for a text without a mark.
LEMMA Admissions ==
  ASSUME QueueTyped, [Next]_vars
  PROVE  /\ QueueTyped'
         /\ \A j \in ToSet(queue') \cup opened' : j \in marks => j \in ToSet(queue) \cup opened
<1> USE DEF QueueTyped
<1>1. ASSUME NEW i \in Texts, Commit(i)
      PROVE  QueueTyped' /\ ~Marked(i) /\ ToSet(queue') \subseteq ToSet(queue) \cup {i} /\ opened' = opened
  BY <1>1, AppendAddsOne DEF Commit, MayCommit
<1>2. ASSUME NEW i \in Texts, OpenTurn(i)
      PROVE  QueueTyped' /\ ~Marked(i) /\ queue' = queue /\ opened' = opened \cup {i}
  BY <1>2 DEF OpenTurn, MayOpen, queueVars
<1>3. ASSUME NEW i \in Texts, Cancel(i)
      PROVE  QueueTyped' /\ ToSet(queue') \subseteq ToSet(queue) /\ opened' = opened
  <2>1. opened' = opened
    BY <1>3 DEF Cancel, ghostVars
  <2>2. CASE queue' = queue
    BY <2>1, <2>2
  <2>3. CASE \E k \in DOMAIN queue : queue' = RemoveAt(queue, k)
    BY <2>1, <2>3, RemoveAtKeepsElements
  <2> QED BY <1>3, <2>2, <2>3 DEF Cancel
<1>4. CASE PassReturns \/ Consume
  <2>1. queue' = <<>> /\ opened' = opened
    BY <1>4 DEF PassReturns, DrainPending, Consume, ghostVars
  <2>2. ToSet(<<>>) = {}
    BY DEF ToSet
  <2> QED BY <2>1, <2>2
<1>5. ASSUME NEW i \in Texts, HandlerStep(i), ~Commit(i), ~OpenTurn(i) PROVE UNCHANGED <<queue, opened>>
  BY <1>5 DEF HandlerStep, EnterRun, AwaitCleanup, Reserve, WaitForOtherAdmission, HooksDone,
              RefuseCommit, CommitPublished, RefuseTurn, queueVars, ghostVars
<1>6. ASSUME NEW i \in Texts, Submit(i) \/ Notify(i) PROVE UNCHANGED <<queue, opened>>
  BY <1>6 DEF Submit, Notify, queueVars, ghostVars
<1>7. CASE RunStep /\ ~PassReturns /\ ~Consume
  <2>1. UNCHANGED <<queue, opened>>
    BY <1>7 DEF RunStep, PassPrepares, Poll, CheckpointFlushed, ReturnDrained, PassSaves, RunEnds,
                queueVars, ghostVars
  <2> QED BY <2>1
<1>8. CASE CallEnds \/ Announced \/ Stop \/ RetryTurn \/ UNCHANGED vars
  <2>1. UNCHANGED <<queue, opened>>
    BY <1>8 DEF CallEnds, Answered, CallFails, Interrupted, Announced, Stop, RetryTurn, vars,
                queueVars, ghostVars
  <2> QED BY <2>1
<1> QED BY <1>1, <1>2, <1>3, <1>4, <1>5, <1>6, <1>7, <1>8 DEF Next, Marked

LEMMA QueueIsTyped == Spec => []QueueTyped
<1>1. Init => QueueTyped  BY DEF Init, QueueTyped
<1>2. QueueTyped /\ [Next]_vars => QueueTyped'  BY Admissions
<1> QED BY <1>1, <1>2, PTL DEF Spec

\* A cancel that finds its text in admission wins: the text is neither queued nor does
\* it open a turn after the mark, whatever its hooks, skills and waits took.
THEOREM CancelWins == Spec => CancelBeatsAdmission
<1> DEFINE Wins == \A i \in marks : i \in ToSet(queue') \cup opened' => i \in ToSet(queue) \cup opened
<1>1. QueueTyped /\ [Next]_vars => [Wins]_vars
  BY Admissions
<1> QED BY <1>1, QueueIsTyped, PTL DEF Spec, CancelBeatsAdmission
=============================================================================
