------------------------ MODULE SubAgentControlProofs ------------------------
(***************************************************************************)
(* Theorems about SubAgentControl, for any invocations, tools, limits and  *)
(* bounds: the counters are exact, what is announced as paused is on disk  *)
(* unless its write failed, no call stays open, no record is taken before  *)
(* its call is answered, and a cascade is announced once and is an         *)
(* external agent's last word.                                             *)
(***************************************************************************)
EXTENDS SubAgentControl, FiniteSetTheorems, TLAPS

USE ControlAssumption DEF ControlAssumption

-----------------------------------------------------------------------------
(* The invariant.                                                          *)

\* The counters are the live invocations, and only a run has any.
CountInv ==
  /\ CountsExact
  /\ engine \notin {"running", "stopping"} => Live = {}

\* A call of the live history that is open has its invocation; what was saved
\* to be read again, or as the end of a run, has no open call.
CallInv ==
  /\ engine # "down" =>
       \A i \in Invocations : /\ call[i] = "none" => pc[i] = "none"
                              /\ call[i] = "dangling" => i \in Live
  /\ engine \in {"saved", "restored"} => \A i \in Invocations : saved[i] # "dangling"

\* A record is there from before the pause is announced to its end, or its
\* write has failed.
Written == {"present", "failed"}

PauseInv ==
  /\ PausedIsOnDisk
  /\ engine \notin {"running", "stopping"} => paused = {}
  /\ \A i \in Invocations : pc[i] = "pausing" => record[i] \in Written

\* A kernel controller announces its cascade under the lock, and is final then.
KernelInv ==
  \A i \in Invocations :
    /\ finBy[i] # None => i \in Kernel /\ ~finalized[i]
    /\ finBy[i] = "run" => pc[i] \in {"finalizing", "closing"}
    /\ i \in Kernel => /\ cascades[i] <= 1 /\ (cascades[i] > 0 => finalized[i])
                       /\ cascade[i] # "publish"

\* An external one announces it once, and its flag is up from then on.
AcpInv ==
  \A i \in Acp :
    /\ cascade[i] = "publish" => cascades[i] = 0 /\ pc[i] # "none"
    /\ cascades[i] <= 1
    /\ pc[i] = "none" => cascades[i] = 0
    /\ interrupt = "no" /\ i \in Live => cascades[i] = 0 /\ cascade[i] # "publish"
    /\ flag[i] => decision[i] # "open"
    /\ cascade[i] # "no" => flag[i]
    /\ i \in silenced => flag[i]
    /\ pc[i] # "aborting"

ControlInv ==
  TypeOK /\ CountInv /\ CallInv /\ PauseInv /\ KernelInv /\ AcpInv

-----------------------------------------------------------------------------
(* Live invocations and their number.                                      *)

OfAgent(a) == {i \in Live : AgentOf[i] = a}

\* The live invocations can be counted, those of one tool too.
LEMMA LiveFinite ==
  /\ IsFiniteSet(Live) /\ Cardinality(Live) \in Nat
  /\ \A a \in Invocations : IsFiniteSet(OfAgent(a)) /\ Cardinality(OfAgent(a)) \in Nat
<1>1. Live \subseteq Invocations /\ \A a \in Invocations : OfAgent(a) \subseteq Invocations
  BY DEF Live, OfAgent
<1>2. IsFiniteSet(Live) /\ \A a \in Invocations : IsFiniteSet(OfAgent(a))
  BY <1>1, FS_Subset
<1> QED BY <1>2, FS_CardinalityType

\* A coroutine that goes on stays live.
LEMMA LiveKept ==
  ASSUME TypeOK, NEW i \in Live, NEW place \in Pcs \ {"none", "gone"},
         pc' = [pc EXCEPT ![i] = place]
  PROVE  Live' = Live /\ \A a \in Invocations : OfAgent(a)' = OfAgent(a)
<1>1. Live' = Live
  BY DEF Live, TypeOK
<1> QED BY <1>1 DEF OfAgent

\* With the coroutines where they were, the same ones are live.
LEMMA LiveSame ==
  ASSUME pc' = pc
  PROVE  Live' = Live /\ \A a \in Invocations : OfAgent(a)' = OfAgent(a)
BY DEF Live, OfAgent

\* An invocation that starts is one more.
LEMMA LiveMore ==
  ASSUME TypeOK, NEW i \in Invocations \ Live, NEW place \in Pcs \ {"none", "gone"},
         pc' = [pc EXCEPT ![i] = place]
  PROVE  /\ Cardinality(Live') = Cardinality(Live) + 1
         /\ \A a \in Invocations :
              Cardinality(OfAgent(a)') = Cardinality(OfAgent(a)) + (IF a = AgentOf[i] THEN 1 ELSE 0)
<1>1. Live' = Live \cup {i}
  BY DEF Live, TypeOK
<1>2. ASSUME NEW a \in Invocations
      PROVE  Cardinality(OfAgent(a)') = Cardinality(OfAgent(a)) + (IF a = AgentOf[i] THEN 1 ELSE 0)
  <2>1. CASE a = AgentOf[i]
    <3>1. OfAgent(a)' = OfAgent(a) \cup {i} /\ i \notin OfAgent(a)
      BY <1>1, <2>1 DEF OfAgent
    <3> QED BY <2>1, <3>1, LiveFinite, FS_AddElement
  <2>2. CASE a # AgentOf[i]
    <3>1. OfAgent(a)' = OfAgent(a)
      BY <1>1, <2>2 DEF OfAgent
    <3> QED BY <2>2, <3>1, LiveFinite
  <2> QED BY <2>1, <2>2
<1> QED BY <1>1, <1>2, LiveFinite, FS_AddElement

\* One that returns is one less.
LEMMA LiveLess ==
  ASSUME TypeOK, NEW i \in Live, NEW place \in {"none", "gone"},
         pc' = [pc EXCEPT ![i] = place]
  PROVE  /\ Cardinality(Live') = Cardinality(Live) - 1 /\ Cardinality(Live) > 0
         /\ Cardinality(OfAgent(AgentOf[i])) > 0
         /\ \A a \in Invocations :
              Cardinality(OfAgent(a)') = Cardinality(OfAgent(a)) - (IF a = AgentOf[i] THEN 1 ELSE 0)
<1>0. i \in Invocations /\ AgentOf[i] \in Invocations
  BY DEF Live
<1>1. Live' = Live \ {i}
  BY DEF Live, TypeOK
<1>2. Cardinality(Live) > 0 /\ Cardinality(OfAgent(AgentOf[i])) > 0
  <2>1. i \in OfAgent(AgentOf[i])
    BY DEF OfAgent
  <2> QED BY <1>0, <2>1, LiveFinite, FS_EmptySet
<1>3. ASSUME NEW a \in Invocations
      PROVE  Cardinality(OfAgent(a)') = Cardinality(OfAgent(a)) - (IF a = AgentOf[i] THEN 1 ELSE 0)
  <2>1. CASE a = AgentOf[i]
    <3>1. OfAgent(a)' = OfAgent(a) \ {i} /\ i \in OfAgent(a)
      BY <1>1, <2>1 DEF OfAgent
    <3>2. Cardinality(OfAgent(a) \ {i}) = Cardinality(OfAgent(a)) - 1
      BY <3>1, LiveFinite, FS_RemoveElement
    <3> QED BY <2>1, <3>1, <3>2
  <2>2. CASE a # AgentOf[i]
    <3>1. OfAgent(a)' = OfAgent(a)
      BY <1>1, <2>2 DEF OfAgent
    <3> QED BY <2>2, <3>1, LiveFinite
  <2> QED BY <2>1, <2>2
<1>4. Cardinality(Live') = Cardinality(Live) - 1
  BY <1>1, LiveFinite, FS_RemoveElement
<1> QED BY <1>2, <1>3, <1>4

\* The two counters, by name.
LEMMA Counted ==
  CountsExact <=> /\ total = Cardinality(Live)
                  /\ \A a \in Invocations : perAgent[a] = Cardinality(OfAgent(a))
BY DEF CountsExact, OfAgent

-----------------------------------------------------------------------------
(* Types.                                                                  *)

\* An event leaves what it changes typed.
LEMMA SayTyped ==
  ASSUME TypeOK, NEW i \in Invocations, NEW word \in {"paused", "resumed", "aborted", "cascade"},
         Say(i, word)
  PROVE  /\ silenced' \subseteq Invocations
         /\ paused' \subseteq Invocations
         /\ cascades' \in [Invocations -> 0 .. 2]
BY DEF Say, TypeOK

\* What a finalization leaves to its caller is typed.
LEMMA LeaveTyped ==
  ASSUME TypeOK, NEW i \in Invocations, NEW who, NEW s, LeaveFinalize(i, who, s)
  PROVE  /\ pc' \in [Invocations -> Pcs]
         /\ queued' \subseteq Invocations
         /\ cascade' = cascade \/ cascade' = [cascade EXCEPT ![i] = "returned"]
BY DEF LeaveFinalize, Goto, QueueCleanup, TypeOK, Pcs

\* Every step keeps the types; the counters need to be exact to be returned.
LEMMA TypeStep == TypeOK /\ CountInv /\ [Next]_vars => TypeOK'
<1> SUFFICES ASSUME TypeOK, CountInv, [Next]_vars PROVE TypeOK'
  OBVIOUS
<1>1. ASSUME NEW i \in Invocations, Invoke(i) PROVE TypeOK'
  BY <1>1 DEF Invoke, Admitted, Goto, cascadeVars, eventVars, parentVars, diskVars, TypeOK, Pcs
<1>2. ASSUME NEW i \in Invocations, Refuse(i) PROVE TypeOK'
  BY <1>2 DEF Refuse, Goto, cascadeVars, countVars, eventVars, parentVars, diskVars, TypeOK, Pcs
<1>3. ASSUME NEW i \in Invocations, StartAttempt(i) PROVE TypeOK'
  BY SMTT(20), <1>3 DEF StartAttempt, Goto, Stamp, Unmoved, cascadeVars, countVars, eventVars, parentVars,
              TypeOK, Pcs
<1>4. ASSUME NEW i \in Invocations, AttemptEnds(i) PROVE TypeOK'
  BY <1>4 DEF AttemptEnds, Goto, Unmoved, cascadeVars, countVars, eventVars, parentVars, TypeOK, Pcs
<1>5. ASSUME NEW i \in Invocations, BackoffEnds(i) PROVE TypeOK'
  BY <1>5 DEF BackoffEnds, Goto, Unmoved, cascadeVars, countVars, eventVars, parentVars, TypeOK, Pcs
<1>6. ASSUME NEW i \in Invocations, Reply(i) PROVE TypeOK'
  BY SMTT(20), <1>6 DEF Reply, Goto, Stamp, Unmoved, cascadeVars, countVars, eventVars, parentVars, TypeOK,
              Pcs
<1>7. ASSUME NEW i \in Invocations, Complete(i) PROVE TypeOK'
  BY <1>7 DEF Complete, Goto, Unmoved, QueueCleanup, cascadeVars, countVars, eventVars, parentVars,
              TypeOK, Pcs
<1>8. ASSUME NEW i \in Invocations, Pause(i) PROVE TypeOK'
  BY <1>8 DEF Pause, RecordPause, Goto, Stamp, Unmoved, cascadeVars, countVars, eventVars,
              parentVars, TypeOK, Pcs
<1>9. ASSUME NEW i \in Invocations, OpenDecision(i) PROVE TypeOK'
  BY SMTT(20), <1>9 DEF OpenDecision, PauseIsTorn, Goto, Say, Unmoved, cascadeVars, countVars, eventVars,
              parentVars, TypeOK, Pcs
<1>10. ASSUME NEW i \in Invocations, Announced(i) PROVE TypeOK'
  BY <1>10 DEF Announced, Goto, Unmoved, cascadeVars, countVars, eventVars, parentVars, TypeOK, Pcs
<1>11. ASSUME NEW i \in Invocations, NEW choice \in {"retry", "abort"}, Click(i, choice) PROVE TypeOK'
  BY <1>11 DEF Click, Unmoved, cascadeVars, countVars, eventVars, parentVars, TypeOK, Pcs
<1>12. ASSUME NEW i \in Invocations, Decided(i) PROVE TypeOK'
  <2>1. decision' = [decision EXCEPT ![i] = "none"] /\ \E place \in Pcs : pc' = [pc EXCEPT ![i] = place]
    BY <1>12 DEF Decided, Goto, Pcs
  <2>2. decision' \in [Invocations -> {"none", "open", "retry", "abort", "cascade"}]
        /\ pc' \in [Invocations -> Pcs]
    BY <2>1 DEF TypeOK
  <2>3. \/ UNCHANGED <<status, eventVars>>
        \/ Say(i, "resumed") /\ UNCHANGED status
        \/ Stamp(i, "aborted") /\ (Say(i, "aborted") \/ UNCHANGED eventVars)
    BY <1>12 DEF Decided
  <2>4. status' \in [Invocations -> {"running", "paused", "completed", "aborted", "cascade_aborted"}]
    BY <2>3 DEF Stamp, TypeOK
  <2>5. /\ silenced' \subseteq Invocations
        /\ paused' \subseteq Invocations
        /\ cascades' \in [Invocations -> 0 .. 2]
    BY <2>3, SayTyped DEF eventVars, TypeOK
  <2>6. UNCHANGED <<attempts, record, queued>> /\ Unmoved
    BY <1>12 DEF Decided
  <2> QED BY <2>2, <2>4, <2>5, <2>6 DEF Unmoved, cascadeVars, countVars, parentVars, TypeOK
<1>13. ASSUME NEW i \in Invocations, Resumed(i) PROVE TypeOK'
  BY <1>13 DEF Resumed, Goto, Stamp, Unmoved, cascadeVars, countVars, eventVars, parentVars,
               TypeOK, Pcs
<1>14. ASSUME NEW i \in Invocations, SayAborted(i) PROVE TypeOK'
  BY <1>14 DEF SayAborted, Goto, Say, Unmoved, cascadeVars, countVars, parentVars, TypeOK, Pcs
<1>15. ASSUME NEW i \in Invocations, Aborted(i) PROVE TypeOK'
  BY <1>15 DEF Aborted, Goto, Unmoved, QueueCleanup, cascadeVars, countVars, eventVars, parentVars,
               TypeOK, Pcs
<1>16. ASSUME NEW i \in Invocations, Joined(i) PROVE TypeOK'
  BY <1>16 DEF Joined, runVars, countVars, eventVars, parentVars, diskVars, TypeOK, Pcs
<1>17. ASSUME NEW i \in Invocations, AcpPublish(i) PROVE TypeOK'
  BY <1>17 DEF AcpPublish, Stamp, Say, countVars, parentVars, diskVars, TypeOK, Pcs
<1>18. ASSUME NEW i \in Invocations, Cancelled(i) PROVE TypeOK'
  <2>1. /\ \E place \in Pcs : pc' = [pc EXCEPT ![i] = place]
        /\ decision' = decision \/ decision' = [decision EXCEPT ![i] = "none"]
        /\ cancel' = [cancel EXCEPT ![i] = "taken"] \/ cancel' = [cancel EXCEPT ![i] = "late"]
        /\ \E holder \in {None, "run", "cascade"} : finBy' = [finBy EXCEPT ![i] = holder]
        /\ \E at \in {"reject", "announce", "log"} : finAt' = [finAt EXCEPT ![i] = at]
        /\ queued' \subseteq Invocations
    <3>1. pc[i] \in Pcs /\ finBy[i] \in {None, "run", "cascade"} /\ finAt[i] \in {"reject", "announce", "log"}
          /\ pc = [pc EXCEPT ![i] = pc[i]] /\ finBy = [finBy EXCEPT ![i] = finBy[i]]
          /\ finAt = [finAt EXCEPT ![i] = finAt[i]] /\ queued \subseteq Invocations
      BY DEF TypeOK
    <3>2. "finalizing" \in Pcs /\ "closing" \in Pcs
      BY DEF Pcs
    <3>3. CASE pc[i] \in InRun
      BY <1>18, <3>1, <3>2, <3>3 DEF Cancelled, Goto, InRun
    <3>4. CASE pc[i] = "finalizing"
      BY <1>18, <3>1, <3>2, <3>4 DEF Cancelled, Goto, InRun, QueueCleanup
    <3>5. CASE pc[i] \in {"closing", "cleanup"}
      BY <1>18, <3>1, <3>2, <3>5 DEF Cancelled, Goto, InRun
    <3> QED BY <1>18, <3>3, <3>4, <3>5 DEF Cancelled
  <2>2. /\ pc' \in [Invocations -> Pcs]
        /\ decision' \in [Invocations -> {"none", "open", "retry", "abort", "cascade"}]
        /\ cancel' \in [Invocations -> {"no", "sent", "taken", "late"}]
    <3>1. pc' \in [Invocations -> Pcs]
      BY <2>1 DEF TypeOK
    <3>2. decision' \in [Invocations -> {"none", "open", "retry", "abort", "cascade"}]
      BY <2>1 DEF TypeOK
    <3>3. cancel' \in [Invocations -> {"no", "sent", "taken", "late"}]
      BY <2>1 DEF TypeOK
    <3> QED BY <3>1, <3>2, <3>3
  <2>3. /\ finBy' \in [Invocations -> {None, "run", "cascade"}]
        /\ finAt' \in [Invocations -> {"reject", "announce", "log"}]
    BY <2>1 DEF TypeOK
  <2> QED BY <1>18, <2>1, <2>2, <2>3 DEF Cancelled, countVars, eventVars, TypeOK
<1>19. ASSUME NEW i \in Invocations, NEW who \in {"run", "cascade"}, TakeFinalize(i, who) PROVE TypeOK'
  <2>1. /\ answered' \subseteq Invocations
        /\ UNCHANGED <<status, finalized, eventVars>> /\ StillFinalizing
    BY <1>19 DEF TakeFinalize, TypeOK
  <2>2. CASE AlreadyFinal(i)
    <3>1. LeaveFinalize(i, who, status[i]) /\ UNCHANGED <<finBy, finAt>>
      BY <1>19, <2>2 DEF TakeFinalize
    <3>2. /\ pc' \in [Invocations -> Pcs] /\ queued' \subseteq Invocations
          /\ cascade' = cascade \/ cascade' = [cascade EXCEPT ![i] = "returned"]
      BY <3>1, LeaveTyped
    <3> QED BY <2>1, <3>1, <3>2 DEF StillFinalizing, eventVars, countVars, parentVars, TypeOK
  <2>3. CASE ~AlreadyFinal(i)
    <3>1. /\ finBy' = [finBy EXCEPT ![i] = who] /\ finAt' = [finAt EXCEPT ![i] = "reject"]
          /\ UNCHANGED <<pc, cascade, queued>>
      BY <1>19, <2>3 DEF TakeFinalize
    <3>2. /\ finBy' \in [Invocations -> {None, "run", "cascade"}]
          /\ finAt' \in [Invocations -> {"reject", "announce", "log"}]
      BY <3>1 DEF TypeOK
    <3> QED BY <2>1, <3>1, <3>2 DEF StillFinalizing, eventVars, countVars, parentVars, TypeOK
  <2> QED BY <2>2, <2>3
<1>20. ASSUME NEW i \in Invocations, NEW who \in {"run", "cascade"}, StampFinalize(i, who) PROVE TypeOK'
  <2>1. UNCHANGED <<eventVars, answered>> /\ StillFinalizing
    BY <1>20 DEF StampFinalize
  <2>2. CASE flag[i] /\ status[i] = "cascade_aborted"
    <3>1. /\ LeaveFinalize(i, who, status[i]) /\ UNCHANGED <<finAt, status>>
          /\ finalized' = [finalized EXCEPT ![i] = TRUE] /\ finBy' = [finBy EXCEPT ![i] = None]
      BY <1>20, <2>2 DEF StampFinalize
    <3>2. /\ pc' \in [Invocations -> Pcs] /\ queued' \subseteq Invocations
          /\ cascade' = cascade \/ cascade' = [cascade EXCEPT ![i] = "returned"]
      BY <3>1, LeaveTyped
    <3>3. /\ cascade' \in [Invocations -> {"no", "publish", "joining", "finalizing", "returned"}]
          /\ finBy' \in [Invocations -> {None, "run", "cascade"}]
          /\ finalized' \in [Invocations -> BOOLEAN]
      BY SMTT(20), <3>1, <3>2 DEF TypeOK
    <3> QED BY <2>1, <3>1, <3>2, <3>3 DEF StillFinalizing, eventVars, countVars, parentVars, TypeOK
  <2>3. CASE ~(flag[i] /\ status[i] = "cascade_aborted")
    <3>1. /\ finAt' \in [Invocations -> {"reject", "announce", "log"}]
          /\ status' \in [Invocations -> {"running", "paused", "completed", "aborted", "cascade_aborted"}]
      BY SMTT(20), <1>20, <2>3 DEF StampFinalize, Stamp, TypeOK
    <3>2. UNCHANGED <<pc, cascade, finBy, finalized, queued>>
      BY <1>20, <2>3 DEF StampFinalize
    <3> QED BY <2>1, <3>1, <3>2 DEF StillFinalizing, eventVars, countVars, parentVars, TypeOK
  <2> QED BY <2>2, <2>3
<1>21. ASSUME NEW i \in Invocations, NEW who \in {"run", "cascade"}, EndFinalize(i, who) PROVE TypeOK'
  <2>1. /\ LeaveFinalize(i, who, status[i]) /\ UNCHANGED <<status, answered>> /\ StillFinalizing
        /\ finalized' = [finalized EXCEPT ![i] = TRUE] /\ finBy' = [finBy EXCEPT ![i] = None]
        /\ finAt' = [finAt EXCEPT ![i] = "reject"]
        /\ Say(i, "cascade") \/ UNCHANGED eventVars
    BY <1>21 DEF EndFinalize
  <2>2. /\ pc' \in [Invocations -> Pcs] /\ queued' \subseteq Invocations
        /\ cascade' = cascade \/ cascade' = [cascade EXCEPT ![i] = "returned"]
    BY <2>1, LeaveTyped
  <2>3. /\ silenced' \subseteq Invocations
        /\ paused' \subseteq Invocations
        /\ cascades' \in [Invocations -> 0 .. 2]
    BY <2>1, SayTyped DEF eventVars, TypeOK
  <2>4. /\ cascade' \in [Invocations -> {"no", "publish", "joining", "finalizing", "returned"}]
        /\ finBy' \in [Invocations -> {None, "run", "cascade"}]
        /\ finAt' \in [Invocations -> {"reject", "announce", "log"}]
        /\ finalized' \in [Invocations -> BOOLEAN]
    BY <2>1, <2>2 DEF TypeOK
  <2> QED BY <2>1, <2>2, <2>3, <2>4 DEF StillFinalizing, countVars, parentVars, TypeOK
<1>22. ASSUME NEW i \in Invocations, AcpFinalize(i) PROVE TypeOK'
  BY SMTT(20), <1>22 DEF AcpFinalize, Goto, Stamp, QueueCleanup, StillFinalizing, countVars, eventVars,
               parentVars, TypeOK, Pcs
<1>23. ASSUME NEW i \in Invocations, Return(i) PROVE TypeOK'
  <2>1. i \in Live
    BY <1>23 DEF Return, Live
  <2>2. total > 0 /\ perAgent[AgentOf[i]] > 0
    <3>1. pc' = [pc EXCEPT ![i] = "gone"] /\ AgentOf[i] \in Invocations
      BY <1>23 DEF Return, Goto
    <3>2. Cardinality(Live) > 0 /\ Cardinality(OfAgent(AgentOf[i])) > 0
      BY <2>1, <3>1, LiveLess
    <3> QED BY <3>1, <3>2, Counted DEF CountInv
  <2>3. total' \in 0 .. MaxTotal /\ perAgent' \in [Invocations -> 0 .. MaxPerAgent]
    BY <1>23, <2>2 DEF Return, ReturnCounters, TypeOK
  <2> QED BY <1>23, <2>3 DEF Return, Goto, cascadeVars, eventVars, diskVars, TypeOK, Pcs
<1>24. ASSUME CascadeAll PROVE TypeOK'
  <2>1. Live \subseteq Invocations
    BY DEF Live
  <2>2. decision' \in [Invocations -> {"none", "open", "retry", "abort", "cascade"}]
    <3>1. \E listed \in SUBSET Live :
            decision' = [i \in Invocations |-> IF i \in listed THEN Resolve(i, "cascade") ELSE decision[i]]
      BY <1>24 DEF CascadeAll
    <3> QED BY <3>1 DEF Resolve, TypeOK
  <2>3. /\ flag' \in [Invocations -> BOOLEAN]
        /\ cascade' \in [Invocations -> {"no", "publish", "joining", "finalizing", "returned"}]
        /\ answered' \subseteq Invocations
    <3>1. \E listed \in SUBSET Live :
            /\ flag' = [i \in Invocations |-> flag[i] \/ i \in listed]
            /\ answered' = answered \cup listed
            /\ cascade' = [i \in Invocations |->
                             IF i \notin listed THEN "no" ELSE IF i \in Acp THEN "publish" ELSE "joining"]
      BY <1>24 DEF CascadeAll
    <3> QED BY <2>1, <3>1 DEF TypeOK
  <2> QED BY <1>24, <2>2, <2>3 DEF CascadeAll, countVars, eventVars, diskVars, TypeOK
<1>25. ASSUME CancelParent PROVE TypeOK'
  BY <1>25 DEF CancelParent, CancelLive, runVars, cascadeVars, countVars, eventVars, diskVars,
               TypeOK, Pcs
<1>26. ASSUME Shutdown PROVE TypeOK'
  BY <1>26 DEF Shutdown, CancelLive, runVars, cascadeVars, countVars, eventVars, diskVars, TypeOK,
               Pcs
<1>27. ASSUME ParentEnds PROVE TypeOK'
  BY <1>27 DEF ParentEnds, OnlyFiles, Quiet, runVars, cascadeVars, countVars, TypeOK, Pcs
<1>28. ASSUME Checkpoint PROVE TypeOK'
  BY <1>28 DEF Checkpoint, Quiet, runVars, cascadeVars, countVars, eventVars, TypeOK, Pcs
<1>29. ASSUME Save PROVE TypeOK'
  BY <1>29 DEF Save, Quiet, runVars, cascadeVars, countVars, eventVars, TypeOK, Pcs
<1>30. ASSUME RemoveRecords PROVE TypeOK'
  BY <1>30 DEF RemoveRecords, Quiet, runVars, cascadeVars, countVars, eventVars, TypeOK, Pcs
<1>31. ASSUME NextRun PROVE TypeOK'
  BY <1>31 DEF NextRun, Quiet, runVars, cascadeVars, countVars, eventVars, TypeOK, Pcs
<1>32. ASSUME Crash PROVE TypeOK'
  BY <1>32 DEF Crash, OnlyFiles, TypeOK, Pcs
<1>33. ASSUME Restore PROVE TypeOK'
  BY <1>33 DEF Restore, Repaired, Dangling, Quiet, runVars, cascadeVars, countVars, eventVars,
               TypeOK, Pcs
<1>34. ASSUME RestoreSave PROVE TypeOK'
  BY <1>34 DEF RestoreSave, RestoreUnsaved, Quiet, runVars, cascadeVars, countVars, eventVars,
               TypeOK, Pcs
<1>35. ASSUME FinalizeRestored PROVE TypeOK'
  BY <1>35 DEF FinalizeRestored, Quiet, runVars, cascadeVars, countVars, eventVars, TypeOK, Pcs
<1>36. CASE UNCHANGED vars
  BY <1>36 DEF vars, runVars, cascadeVars, countVars, eventVars, parentVars, diskVars, TypeOK
<1> QED BY <1>1, <1>2, <1>3, <1>4, <1>5, <1>6, <1>7, <1>8, <1>9, <1>10, <1>11, <1>12, <1>13,
           <1>14, <1>15, <1>16, <1>17, <1>18, <1>19, <1>20, <1>21, <1>22, <1>23, <1>24, <1>25,
           <1>26, <1>27, <1>28, <1>29, <1>30, <1>31, <1>32, <1>33, <1>34, <1>35, <1>36 DEF Next, Run, Finalize

-----------------------------------------------------------------------------
(* What the steps of one invocation have in common.                        *)

\* A step of a controller that neither starts nor returns.
Step(i) ==
    \/ StartAttempt(i) \/ AttemptEnds(i) \/ BackoffEnds(i) \/ Reply(i)
    \/ Complete(i) \/ Pause(i) \/ OpenDecision(i) \/ Announced(i)
    \/ Decided(i) \/ Resumed(i) \/ SayAborted(i) \/ Aborted(i) \/ Joined(i)
    \/ AcpPublish(i) \/ Cancelled(i) \/ AcpFinalize(i)
    \/ \E choice \in {"retry", "abort"} : Click(i, choice)
    \/ \E who \in {"run", "cascade"} : \/ TakeFinalize(i, who)
                                         \/ StampFinalize(i, who) \/ EndFinalize(i, who)

\* It leaves the coroutine in its call; where it is about to announce a pause,
\* the record is written, or its write has failed.
Moves(i) ==
  \/ pc' = pc
  \/ /\ i \in Live
     /\ \E place \in Pcs \ {"none", "gone"} :
          /\ pc' = [pc EXCEPT ![i] = place]
          /\ place = "pausing" => record'[i] \in Written

\* To go to a known place is such a move.
LEMMA MovesTo ==
  ASSUME NEW i \in Invocations, pc[i] \in Pcs \ {"none", "gone"},
         NEW place \in Pcs \ {"none", "gone"}, pc' = [pc EXCEPT ![i] = place],
         place = "pausing" => record'[i] \in Written
  PROVE  Moves(i)
BY DEF Moves, Live

\* It moves the coroutine within the call, if at all, and the parent not.
LEMMA StepMoves ==
  ASSUME TypeOK, KernelInv, NEW i \in Invocations, Step(i)
  PROVE  Moves(i) /\ UNCHANGED <<total, perAgent, engine, interrupt, call, saved>>
<1> DEFINE Kept == Moves(i) /\ UNCHANGED <<total, perAgent, engine, interrupt, call, saved>>
<1>p. {"starting", "attempt", "backoff", "replied", "completing", "failing", "pausing",
       "announcing", "waiting", "resuming", "aborting", "abort_said",
       "finalizing", "closing", "cleanup"} = Pcs \ {"none", "gone"}
  BY DEF Pcs
<1>1. ASSUME StartAttempt(i) PROVE Kept
  BY <1>p, <1>1 DEF StartAttempt, Goto, Stamp, Unmoved, cascadeVars, countVars, eventVars,
                    parentVars, Moves, Live, TypeOK
<1>2. ASSUME AttemptEnds(i) PROVE Kept
  BY <1>p, <1>2 DEF AttemptEnds, Goto, Unmoved, cascadeVars, countVars, eventVars, parentVars,
                    Moves, Live, TypeOK
<1>3. ASSUME BackoffEnds(i) PROVE Kept
  <2>1. pc[i] = "backoff" /\ Goto(i, "starting")
    BY <1>3 DEF BackoffEnds
  <2>2. UNCHANGED <<total, perAgent, engine, interrupt, call, saved>>
    BY <1>3 DEF BackoffEnds, Unmoved, countVars, parentVars
  <2> QED BY <1>p, <2>1, <2>2, MovesTo DEF Goto
<1>4. ASSUME Reply(i) PROVE Kept
  BY <1>p, <1>4 DEF Reply, Goto, Stamp, Unmoved, cascadeVars, countVars, eventVars, parentVars,
                    Moves, Live, TypeOK
<1>5. ASSUME Complete(i) PROVE Kept
  BY <1>p, <1>5 DEF Complete, Goto, Unmoved, QueueCleanup, cascadeVars, countVars, eventVars,
                    parentVars, Moves, Live, TypeOK
<1>6. ASSUME Pause(i) PROVE Kept
  <2>1. pc[i] = "failing" /\ Goto(i, "pausing") /\ record'[i] \in Written
    BY <1>6 DEF Pause, RecordPause, Written, TypeOK
  <2>2. UNCHANGED <<total, perAgent, engine, interrupt, call, saved>>
    BY <1>6 DEF Pause, Unmoved, countVars, parentVars
  <2> QED BY <1>p, <2>1, <2>2, MovesTo DEF Goto
<1>7. ASSUME OpenDecision(i) PROVE Kept
  BY <1>p, <1>7 DEF OpenDecision, PauseIsTorn, Goto, Say, Unmoved, cascadeVars, countVars,
                    eventVars, parentVars, Moves, Live, TypeOK
<1>8. ASSUME Announced(i) PROVE Kept
  <2>1. pc[i] = "announcing" /\ Goto(i, "waiting")
    BY <1>8 DEF Announced
  <2>2. UNCHANGED <<total, perAgent, engine, interrupt, call, saved>>
    BY <1>8 DEF Announced, Unmoved, countVars, parentVars
  <2> QED BY <1>p, <2>1, <2>2, MovesTo DEF Goto
<1>9. ASSUME NEW choice \in {"retry", "abort"}, Click(i, choice) PROVE Kept
  BY <1>p, <1>9 DEF Click, Unmoved, cascadeVars, countVars, eventVars, parentVars, Moves, Live,
                    TypeOK
<1>10. ASSUME Decided(i) PROVE Kept
  BY <1>p, <1>10 DEF Decided, DecisionIsTorn, Goto, Stamp, Say, Unmoved, cascadeVars, countVars,
                     eventVars, parentVars, Moves, Live, TypeOK
<1>11. ASSUME Resumed(i) PROVE Kept
  <2>1. pc[i] = "resuming" /\ Goto(i, IF flag[i] THEN "finalizing" ELSE "starting")
    BY <1>11 DEF Resumed
  <2>2. UNCHANGED <<total, perAgent, engine, interrupt, call, saved>>
    BY <1>11 DEF Resumed, Unmoved, countVars, parentVars
  <2> QED BY <1>p, <2>1, <2>2, MovesTo DEF Goto
<1>12. ASSUME SayAborted(i) PROVE Kept
  <2>1. pc[i] = "aborting" /\ Goto(i, "abort_said")
    BY <1>12 DEF SayAborted
  <2>2. UNCHANGED <<total, perAgent, engine, interrupt, call, saved>>
    BY <1>12 DEF SayAborted, Unmoved, countVars, parentVars
  <2> QED BY <1>p, <2>1, <2>2, MovesTo DEF Goto
<1>13. ASSUME Aborted(i) PROVE Kept
  BY <1>p, <1>13 DEF Aborted, Goto, Unmoved, QueueCleanup, cascadeVars, countVars, eventVars,
                     parentVars, Moves, Live, TypeOK
<1>14. ASSUME Joined(i) PROVE Kept
  BY <1>p, <1>14 DEF Joined, runVars, countVars, eventVars, parentVars, diskVars, Moves, Live,
                     TypeOK
<1>15. ASSUME AcpPublish(i) PROVE Kept
  BY <1>p, <1>15 DEF AcpPublish, Stamp, Say, countVars, parentVars, diskVars, Moves, Live, TypeOK
<1>16. ASSUME Cancelled(i) PROVE Kept
  BY <1>p, <1>16 DEF Cancelled, InRun, Goto, QueueCleanup, countVars, eventVars, Moves, Live, TypeOK
<1>17. ASSUME NEW who \in {"run", "cascade"}, TakeFinalize(i, who) PROVE Kept
  BY <1>p, <1>17 DEF TakeFinalize, AlreadyFinal, Enters, Goto, QueueCleanup, StillFinalizing,
                     LeaveFinalize, countVars, eventVars, parentVars, Moves, Live, TypeOK
<1>18. ASSUME NEW who \in {"run", "cascade"}, StampFinalize(i, who) PROVE Kept
  <2>1. LeaveFinalize(i, who, status[i]) \/ pc' = pc
    BY <1>18 DEF StampFinalize
  <2>2. who = "run" => pc[i] \in {"finalizing", "closing"}
    BY <1>18 DEF StampFinalize, KernelInv
  <2>3. UNCHANGED <<total, perAgent, engine, interrupt, call, saved>>
    BY <1>18 DEF StampFinalize, StillFinalizing, countVars, parentVars
  <2> QED BY <1>p, <2>1, <2>2, <2>3 DEF LeaveFinalize, Goto, Moves, Live, TypeOK
<1>19. ASSUME NEW who \in {"run", "cascade"}, EndFinalize(i, who) PROVE Kept
  <2>1. LeaveFinalize(i, who, status[i]) \/ pc' = pc
    BY <1>19 DEF EndFinalize
  <2>2. who = "run" => pc[i] \in {"finalizing", "closing"}
    BY <1>19 DEF EndFinalize, KernelInv
  <2>3. UNCHANGED <<total, perAgent, engine, interrupt, call, saved>>
    BY <1>19 DEF EndFinalize, StillFinalizing, countVars, parentVars
  <2> QED BY <1>p, <2>1, <2>2, <2>3 DEF LeaveFinalize, Goto, Moves, Live, TypeOK
<1>20. ASSUME AcpFinalize(i) PROVE Kept
  BY <1>p, <1>20 DEF AcpFinalize, Goto, Stamp, QueueCleanup, StillFinalizing, countVars, eventVars,
                     parentVars, Moves, Live, TypeOK
<1> QED BY <1>1, <1>2, <1>3, <1>4, <1>5, <1>6, <1>7, <1>8, <1>9, <1>10, <1>11, <1>12, <1>13,
           <1>14, <1>15, <1>16, <1>17, <1>18, <1>19, <1>20 DEF Step

\* It writes the record of its own pause only, and announces it then.
Records(i) ==
  /\ \/ record' = record \/ record' = [record EXCEPT ![i] = "present"]
     \/ record[i] # "present" /\ record' = [record EXCEPT ![i] = "failed"]
  /\ paused' \subseteq paused \/ (pc[i] = "pausing" /\ paused' = paused \cup {i})

LEMMA StepRecords ==
  ASSUME TypeOK, NEW i \in Invocations, Step(i)
  PROVE  Records(i)
<1>1. ASSUME StartAttempt(i) PROVE Records(i)
  BY <1>1 DEF StartAttempt, Unmoved, eventVars, Records
<1>2. ASSUME AttemptEnds(i) PROVE Records(i)
  BY <1>2 DEF AttemptEnds, Unmoved, eventVars, Records
<1>3. ASSUME BackoffEnds(i) PROVE Records(i)
  BY <1>3 DEF BackoffEnds, Unmoved, eventVars, Records
<1>4. ASSUME Reply(i) PROVE Records(i)
  BY <1>4 DEF Reply, Unmoved, eventVars, Records
<1>5. ASSUME Complete(i) PROVE Records(i)
  BY <1>5 DEF Complete, Unmoved, eventVars, Records
<1>6. ASSUME Pause(i) PROVE Records(i)
  BY <1>6 DEF Pause, RecordPause, Unmoved, eventVars, Records, TypeOK
<1>7. ASSUME OpenDecision(i) PROVE Records(i)
  BY <1>7 DEF OpenDecision, Say, Unmoved, eventVars, Records
<1>8. ASSUME Announced(i) PROVE Records(i)
  BY <1>8 DEF Announced, Unmoved, eventVars, Records
<1>9. ASSUME NEW choice \in {"retry", "abort"}, Click(i, choice) PROVE Records(i)
  BY <1>9 DEF Click, Unmoved, eventVars, Records
<1>10. ASSUME Decided(i) PROVE Records(i)
  BY <1>10 DEF Decided, Say, Unmoved, eventVars, Records
<1>11. ASSUME Resumed(i) PROVE Records(i)
  BY <1>11 DEF Resumed, Unmoved, eventVars, Records
<1>12. ASSUME SayAborted(i) PROVE Records(i)
  BY <1>12 DEF SayAborted, Say, Unmoved, Records
<1>13. ASSUME Aborted(i) PROVE Records(i)
  BY <1>13 DEF Aborted, Unmoved, eventVars, Records
<1>14. ASSUME Joined(i) PROVE Records(i)
  BY <1>14 DEF Joined, eventVars, diskVars, Records
<1>15. ASSUME AcpPublish(i) PROVE Records(i)
  BY <1>15 DEF AcpPublish, Say, diskVars, Records
<1>16. ASSUME Cancelled(i) PROVE Records(i)
  BY <1>16 DEF Cancelled, eventVars, Records
<1>17. ASSUME NEW who \in {"run", "cascade"}, TakeFinalize(i, who) PROVE Records(i)
  BY <1>17 DEF TakeFinalize, StillFinalizing, eventVars, Records
<1>18. ASSUME NEW who \in {"run", "cascade"}, StampFinalize(i, who) PROVE Records(i)
  BY <1>18 DEF StampFinalize, StillFinalizing, eventVars, Records
<1>19. ASSUME NEW who \in {"run", "cascade"}, EndFinalize(i, who) PROVE Records(i)
  BY <1>19 DEF EndFinalize, Say, StillFinalizing, eventVars, Records
<1>20. ASSUME AcpFinalize(i) PROVE Records(i)
  BY <1>20 DEF AcpFinalize, StillFinalizing, eventVars, Records
<1> QED BY <1>1, <1>2, <1>3, <1>4, <1>5, <1>6, <1>7, <1>8, <1>9, <1>10, <1>11, <1>12, <1>13,
           <1>14, <1>15, <1>16, <1>17, <1>18, <1>19, <1>20 DEF Step

\* Whatever happens is a step of a controller, the start or the end of one, or
\* a step of the parent.
LEMMA Steps ==
  ASSUME Next
  PROVE  \/ \E i \in Invocations : Step(i) \/ Invoke(i) \/ Refuse(i) \/ Return(i)
         \/ CascadeAll \/ CancelParent \/ Shutdown
         \/ ParentEnds \/ Checkpoint \/ Save \/ RemoveRecords \/ NextRun
         \/ Crash \/ Restore \/ RestoreSave \/ FinalizeRestored
BY DEF Next, Run, Finalize, Step

\* The parent's own steps but a crash leave the coroutines where they are.
LEMMA ParentMoves ==
  ASSUME \/ CascadeAll \/ CancelParent \/ Shutdown
         \/ ParentEnds \/ Checkpoint \/ Save \/ RemoveRecords \/ NextRun
         \/ Restore \/ RestoreSave \/ FinalizeRestored
  PROVE  UNCHANGED <<pc, total, perAgent>>
BY DEF CascadeAll, CancelParent, Shutdown, ParentEnds, Checkpoint, Save, RemoveRecords, NextRun,
       Restore, RestoreSave, FinalizeRestored, Quiet, runVars, countVars

-----------------------------------------------------------------------------
(* The counters.                                                           *)

\* Every step keeps the counters exact, and leaves nobody live without a run.
LEMMA CountStep ==
  ASSUME TypeOK, CountInv, CallInv, KernelInv, Next
  PROVE  CountInv'
<1>1. ASSUME NEW i \in Invocations, Step(i) PROVE CountInv'
  <2>1. UNCHANGED <<total, perAgent, engine>> /\ Moves(i)
    BY <1>1, StepMoves
  <2>2. Live' = Live /\ \A a \in Invocations : OfAgent(a)' = OfAgent(a)
    BY <2>1, LiveKept, LiveSame DEF Moves
  <2> QED BY <2>1, <2>2 DEF CountInv, CountsExact, OfAgent
<1>2. ASSUME NEW i \in Invocations, Invoke(i) PROVE CountInv'
  <2>1. pc[i] = "none" /\ engine = "running" /\ engine' = engine
    BY <1>2 DEF Invoke, CallInv, parentVars
  <2>2. i \notin Live /\ pc' = [pc EXCEPT ![i] = "starting"] /\ "starting" \in Pcs \ {"none", "gone"}
    BY <1>2, <2>1 DEF Invoke, Goto, Live, Pcs
  <2>3. total' = total + 1 /\ perAgent' = [perAgent EXCEPT ![AgentOf[i]] = @ + 1]
    BY <1>2 DEF Invoke
  <2>4. /\ Cardinality(Live') = Cardinality(Live) + 1
        /\ \A a \in Invocations :
             Cardinality(OfAgent(a)') = Cardinality(OfAgent(a)) + (IF a = AgentOf[i] THEN 1 ELSE 0)
    BY <2>2, LiveMore
  <2>5. \A a \in Invocations : perAgent'[a] = Cardinality(OfAgent(a)')
    <3> SUFFICES ASSUME NEW a \in Invocations PROVE perAgent'[a] = Cardinality(OfAgent(a)')
      OBVIOUS
    <3>1. perAgent[a] = Cardinality(OfAgent(a)) /\ Cardinality(OfAgent(a)) \in Nat
      BY Counted, LiveFinite DEF CountInv
    <3>2. perAgent'[a] = perAgent[a] + (IF a = AgentOf[i] THEN 1 ELSE 0)
      BY <2>3, <3>1 DEF TypeOK
    <3> QED BY <2>4, <3>1, <3>2
  <2>6. total' = Cardinality(Live')
    BY <2>3, <2>4, Counted DEF CountInv
  <2> QED BY <2>1, <2>5, <2>6 DEF CountInv, CountsExact, OfAgent
<1>3. ASSUME NEW i \in Invocations, Refuse(i) PROVE CountInv'
  <2>1. pc[i] = "none" /\ UNCHANGED <<engine, total, perAgent>> /\ pc' = [pc EXCEPT ![i] = "gone"]
    BY <1>3 DEF Refuse, Goto, CallInv, parentVars, countVars
  <2>2. Live' = Live
    BY <2>1 DEF Live, TypeOK
  <2> QED BY <2>1, <2>2 DEF CountInv, CountsExact
<1>4. ASSUME NEW i \in Invocations, Return(i) PROVE CountInv'
  <2>1. i \in Live /\ pc' = [pc EXCEPT ![i] = "gone"] /\ engine' = engine
    BY <1>4 DEF Return, Goto, Live
  <2>2. total' = total - 1 /\ perAgent' = [perAgent EXCEPT ![AgentOf[i]] = @ - 1]
    BY <1>4 DEF Return, ReturnCounters
  <2>3. /\ Cardinality(Live') = Cardinality(Live) - 1
        /\ \A a \in Invocations :
             Cardinality(OfAgent(a)') = Cardinality(OfAgent(a)) - (IF a = AgentOf[i] THEN 1 ELSE 0)
    BY <2>1, LiveLess
  <2>4. \A a \in Invocations : perAgent'[a] = Cardinality(OfAgent(a)')
    <3> SUFFICES ASSUME NEW a \in Invocations PROVE perAgent'[a] = Cardinality(OfAgent(a)')
      OBVIOUS
    <3>1. perAgent[a] = Cardinality(OfAgent(a)) /\ Cardinality(OfAgent(a)) \in Nat
      BY Counted, LiveFinite DEF CountInv
    <3>2. perAgent'[a] = perAgent[a] - (IF a = AgentOf[i] THEN 1 ELSE 0)
      BY <2>2, <3>1 DEF TypeOK
    <3> QED BY <2>3, <3>1, <3>2
  <2>5. total' = Cardinality(Live')
    BY <2>2, <2>3, Counted DEF CountInv
  <2>6. engine' \in {"running", "stopping"}
    BY <2>1 DEF CountInv
  <2> QED BY <2>4, <2>5, <2>6 DEF CountInv, CountsExact, OfAgent
<1>5. ASSUME Crash PROVE CountInv'
  <2>1. Live' = {}
    BY <1>5 DEF Crash, Live
  <2>3. total' = 0 /\ perAgent' = [a \in Invocations |-> 0]
    BY <1>5 DEF Crash
  <2> QED BY <2>1, <2>3, FS_EmptySet DEF CountInv, CountsExact
<1>6. ASSUME \/ CascadeAll \/ CancelParent \/ Shutdown
             \/ ParentEnds \/ Checkpoint \/ Save \/ RemoveRecords \/ NextRun
             \/ Restore \/ RestoreSave \/ FinalizeRestored
      PROVE  CountInv'
  <2>1. UNCHANGED <<pc, total, perAgent>>
    BY <1>6, ParentMoves
  <2>2. Live' = Live /\ CountsExact'
    BY <2>1, LiveSame DEF CountInv, CountsExact
  <2>3. engine' \notin {"running", "stopping"} => Live = {}
    BY <1>6 DEF CountInv, CascadeAll, CancelParent, Shutdown, ParentEnds, Checkpoint, Save,
                RemoveRecords, NextRun, Restore, RestoreSave, RestoreUnsaved, FinalizeRestored
  <2> QED BY <2>2, <2>3 DEF CountInv
<1> QED BY <1>1, <1>2, <1>3, <1>4, <1>5, <1>6, Steps

-----------------------------------------------------------------------------
(* Calls, and the records of pauses.                                       *)

\* Every step keeps an open call with its invocation.
LEMMA CallStep ==
  ASSUME TypeOK, CountInv, CallInv, KernelInv, Next
  PROVE  CallInv'
<1>1. ASSUME NEW i \in Invocations, Step(i) PROVE CallInv'
  <2>1. UNCHANGED <<engine, call, saved>> /\ Moves(i)
    BY <1>1, StepMoves
  <2>2. Live' = Live /\ \A j \in Invocations : pc[j] = "none" => pc'[j] = "none"
    <3>1. Live' = Live
      BY <2>1, LiveKept, LiveSame DEF Moves
    <3>2. \A j \in Invocations : pc[j] = "none" => pc'[j] = "none"
      BY <2>1 DEF Moves, Live, TypeOK
    <3> QED BY <3>1, <3>2
  <2> QED BY <2>1, <2>2 DEF CallInv
<1>2. ASSUME NEW i \in Invocations, Invoke(i) PROVE CallInv'
  BY <1>2 DEF Invoke, Goto, CallInv, Live, TypeOK, parentVars, diskVars
<1>3. ASSUME NEW i \in Invocations, Refuse(i) PROVE CallInv'
  BY <1>3 DEF Refuse, Goto, CallInv, Live, TypeOK, parentVars, diskVars
<1>4. ASSUME NEW i \in Invocations, Return(i) PROVE CallInv'
  BY <1>4 DEF Return, Goto, CallInv, Live, TypeOK, diskVars
<1>5. ASSUME CascadeAll \/ CancelParent \/ Shutdown \/ ParentEnds \/ Checkpoint \/ NextRun
             \/ RemoveRecords \/ FinalizeRestored
      PROVE  CallInv'
  BY <1>5 DEF CascadeAll, CancelParent, Shutdown, ParentEnds, Checkpoint, NextRun, RemoveRecords,
              FinalizeRestored, Quiet, runVars, CallInv, Live, diskVars
<1>6. ASSUME Save \/ RestoreSave PROVE CallInv'
  <2>1. engine \in {"ended", "repaired"} /\ UNCHANGED <<pc, call>>
        /\ (engine' = "idle" \/ saved' = call)
    BY <1>6 DEF Save, RestoreSave, RestoreUnsaved, Quiet, runVars
  <2>2. \A j \in Invocations : call[j] # "dangling"
    BY <2>1 DEF CountInv, CallInv
  <2> QED BY <1>6, <2>1, <2>2 DEF CallInv, Live, Save, RestoreSave, RestoreUnsaved
<1>7. ASSUME Crash PROVE CallInv'
  BY <1>7 DEF Crash, CallInv
<1>8. ASSUME Restore PROVE CallInv'
  <2>1. engine' \in {"idle", "repaired"} /\ UNCHANGED pc
        /\ call' = [j \in Invocations |-> Repaired(j)]
    BY <1>8 DEF Restore, Quiet, runVars
  <2>2. \A j \in Invocations : pc[j] \in {"none", "gone"}
    BY <1>8 DEF Restore, CountInv, Live
  <2>3. ASSUME NEW j \in Invocations
        PROVE  (call'[j] = "none" => pc[j] = "none") /\ call'[j] # "dangling"
    BY <2>1, <2>2 DEF Repaired, Dangling
  <2> QED BY <2>1, <2>3 DEF CallInv
<1> QED BY <1>1, <1>2, <1>3, <1>4, <1>5, <1>6, <1>7, <1>8, Steps

\* Every step keeps the record of a pause where the pause is announced.
LEMMA PauseStep ==
  ASSUME TypeOK, CountInv, KernelInv, PauseInv, Next
  PROVE  PauseInv'
<1>1. ASSUME NEW i \in Invocations, Step(i) PROVE PauseInv'
  <2>1. UNCHANGED engine /\ Moves(i)
    BY <1>1, StepMoves
  <2>2. Records(i)
    BY <1>1, StepRecords
  <2>3. \A j \in Invocations : record[j] \in Written => record'[j] \in Written
    BY <2>2 DEF Records, Written, TypeOK
  <2>4. \A j \in Invocations : pc'[j] = "pausing" => record'[j] \in Written
    BY <2>1, <2>3 DEF Moves, PauseInv, TypeOK
  <2>5. \A j \in paused' : record'[j] \in Written
    BY <2>2, <2>3 DEF Records, Written, PauseInv, PausedIsOnDisk, TypeOK
  <2>6. engine \notin {"running", "stopping"} => paused' = {}
    BY <2>2 DEF Records, PauseInv, CountInv, Live
  <2> QED BY <2>1, <2>4, <2>5, <2>6 DEF PauseInv, PausedIsOnDisk, Written
<1>2. ASSUME NEW i \in Invocations, Invoke(i) \/ Refuse(i) \/ Return(i) PROVE PauseInv'
  <2>1. UNCHANGED <<engine, record, paused>>
        /\ \E place \in {"starting", "gone"} : pc' = [pc EXCEPT ![i] = place]
    BY <1>2 DEF Invoke, Refuse, Return, Goto, parentVars, diskVars, eventVars
  <2> QED BY <2>1 DEF PauseInv, PausedIsOnDisk, TypeOK
<1>3. ASSUME CascadeAll \/ CancelParent \/ Shutdown \/ Checkpoint PROVE PauseInv'
  <2>1. UNCHANGED <<pc, record, paused>>
    BY <1>3 DEF CascadeAll, CancelParent, Shutdown, Checkpoint, Quiet, runVars, diskVars, eventVars
  <2>2. engine' = engine \/ (engine = "running" /\ engine' = "stopping")
    BY <1>3 DEF CascadeAll, CancelParent, Shutdown, Checkpoint
  <2> QED BY <2>1, <2>2 DEF PauseInv, PausedIsOnDisk
<1>4. ASSUME ParentEnds \/ Save \/ RemoveRecords \/ NextRun \/ Crash \/ Restore \/ RestoreSave
             \/ FinalizeRestored
      PROVE  PauseInv'
  <2>1. paused' = {}
    BY <1>4 DEF ParentEnds, Save, RemoveRecords, NextRun, Crash, Restore, RestoreSave,
                FinalizeRestored, eventVars, PauseInv
  <2>2. \A j \in Invocations : pc'[j] # "pausing"
    <3>1. CASE Crash
      BY <3>1 DEF Crash
    <3>2. CASE ~Crash
      <4>1. pc' = pc /\ Live = {}
        BY <1>4, <3>2 DEF ParentEnds, Save, RemoveRecords, NextRun, Restore, RestoreSave,
                          FinalizeRestored, Quiet, runVars, CountInv
      <4> QED BY <4>1 DEF Live
    <3> QED BY <3>1, <3>2
  <2> QED BY <2>1, <2>2 DEF PauseInv, PausedIsOnDisk
<1> QED BY <1>1, <1>2, <1>3, <1>4, Steps

-----------------------------------------------------------------------------
(* Cascades.                                                               *)

\* Every step leaves the announcement of a kernel controller's cascade to the
\* one that holds the lock.
LEMMA KernelStep ==
  ASSUME TypeOK, CallInv, KernelInv, Next
  PROVE  KernelInv'
<1>1. ASSUME NEW i \in Invocations, Invoke(i) PROVE KernelInv'
  BY <1>1 DEF Invoke, Admitted, Goto, cascadeVars, eventVars, parentVars, diskVars, KernelInv,
              Kernel, TypeOK, CallInv
<1>2. ASSUME NEW i \in Invocations, Refuse(i) PROVE KernelInv'
  BY <1>2 DEF Refuse, Goto, cascadeVars, countVars, eventVars, parentVars, diskVars, KernelInv,
              Kernel, TypeOK, CallInv
<1>3. ASSUME NEW i \in Invocations, StartAttempt(i) PROVE KernelInv'
  BY <1>3 DEF StartAttempt, Goto, Stamp, Unmoved, cascadeVars, countVars, eventVars, parentVars,
              KernelInv, Kernel, TypeOK
<1>4. ASSUME NEW i \in Invocations, AttemptEnds(i) PROVE KernelInv'
  BY <1>4 DEF AttemptEnds, Goto, Unmoved, cascadeVars, countVars, eventVars, parentVars, KernelInv,
              Kernel, TypeOK
<1>5. ASSUME NEW i \in Invocations, BackoffEnds(i) PROVE KernelInv'
  BY <1>5 DEF BackoffEnds, Goto, Unmoved, cascadeVars, countVars, eventVars, parentVars, KernelInv,
              Kernel, TypeOK
<1>6. ASSUME NEW i \in Invocations, Reply(i) PROVE KernelInv'
  BY <1>6 DEF Reply, Goto, Stamp, Unmoved, cascadeVars, countVars, eventVars, parentVars,
              KernelInv, Kernel, TypeOK
<1>7. ASSUME NEW i \in Invocations, Complete(i) PROVE KernelInv'
  BY <1>7 DEF Complete, Goto, Unmoved, QueueCleanup, cascadeVars, countVars, eventVars, parentVars,
              KernelInv, Kernel, TypeOK
<1>8. ASSUME NEW i \in Invocations, Pause(i) PROVE KernelInv'
  BY <1>8 DEF Pause, RecordPause, Goto, Stamp, Unmoved, cascadeVars, countVars, eventVars,
              parentVars, KernelInv, Kernel, TypeOK
<1>9. ASSUME NEW i \in Invocations, OpenDecision(i) PROVE KernelInv'
  BY <1>9 DEF OpenDecision, PauseIsTorn, Goto, Say, Unmoved, cascadeVars, countVars, eventVars,
              parentVars, KernelInv, Kernel, TypeOK
<1>10. ASSUME NEW i \in Invocations, Announced(i) PROVE KernelInv'
  BY <1>10 DEF Announced, Goto, Unmoved, cascadeVars, countVars, eventVars, parentVars, KernelInv,
               Kernel, TypeOK
<1>11. ASSUME NEW i \in Invocations, NEW choice \in {"retry", "abort"}, Click(i, choice) PROVE KernelInv'
  BY <1>11 DEF Click, Unmoved, cascadeVars, countVars, eventVars, parentVars, KernelInv, Kernel,
               TypeOK
<1>12. ASSUME NEW i \in Invocations, Decided(i) PROVE KernelInv'
  BY <1>12 DEF Decided, DecisionIsTorn, Goto, Stamp, Say, Unmoved, cascadeVars, countVars,
               eventVars, parentVars, KernelInv, Kernel, TypeOK
<1>13. ASSUME NEW i \in Invocations, Resumed(i) PROVE KernelInv'
  BY <1>13 DEF Resumed, Goto, Stamp, Unmoved, cascadeVars, countVars, eventVars, parentVars,
               KernelInv, Kernel, TypeOK
<1>14. ASSUME NEW i \in Invocations, SayAborted(i) PROVE KernelInv'
  BY <1>14 DEF SayAborted, Goto, Say, Unmoved, cascadeVars, countVars, parentVars, KernelInv,
               Kernel, TypeOK
<1>15. ASSUME NEW i \in Invocations, Aborted(i) PROVE KernelInv'
  BY <1>15 DEF Aborted, Goto, Unmoved, QueueCleanup, cascadeVars, countVars, eventVars, parentVars,
               KernelInv, Kernel, TypeOK
<1>16. ASSUME NEW i \in Invocations, Joined(i) PROVE KernelInv'
  BY <1>16 DEF Joined, runVars, countVars, eventVars, parentVars, diskVars, KernelInv, Kernel,
               TypeOK
<1>17. ASSUME NEW i \in Invocations, AcpPublish(i) PROVE KernelInv'
  BY <1>17 DEF AcpPublish, Stamp, Say, countVars, parentVars, diskVars, KernelInv, Kernel, TypeOK
<1>18. ASSUME NEW i \in Invocations, Cancelled(i) PROVE KernelInv'
  BY <1>18 DEF Cancelled, InRun, Goto, QueueCleanup, countVars, eventVars, KernelInv, Kernel, TypeOK
<1>19. ASSUME NEW i \in Invocations, NEW who \in {"run", "cascade"}, TakeFinalize(i, who) PROVE KernelInv'
  BY <1>19 DEF TakeFinalize, AlreadyFinal, Enters, Goto, QueueCleanup, StillFinalizing,
               LeaveFinalize, countVars, eventVars, parentVars, KernelInv, Kernel, TypeOK
<1>20. ASSUME NEW i \in Invocations, NEW who \in {"run", "cascade"}, StampFinalize(i, who) PROVE KernelInv'
  BY <1>20 DEF StampFinalize, Goto, Stamp, QueueCleanup, StillFinalizing, LeaveFinalize, countVars,
               eventVars, parentVars, KernelInv, Kernel, TypeOK
<1>21. ASSUME NEW i \in Invocations, NEW who \in {"run", "cascade"}, EndFinalize(i, who) PROVE KernelInv'
  BY SMTT(20), <1>21 DEF EndFinalize, Goto, Say, QueueCleanup, StillFinalizing, LeaveFinalize, countVars,
               eventVars, parentVars, KernelInv, Kernel, TypeOK
<1>22. ASSUME NEW i \in Invocations, AcpFinalize(i) PROVE KernelInv'
  BY <1>22 DEF AcpFinalize, Goto, Stamp, QueueCleanup, StillFinalizing, countVars, eventVars,
               parentVars, KernelInv, Kernel, TypeOK
<1>23. ASSUME NEW i \in Invocations, Return(i) PROVE KernelInv'
  BY <1>23 DEF Return, ReturnCounters, Goto, cascadeVars, eventVars, diskVars, KernelInv, Kernel,
               TypeOK
<1>24. ASSUME CascadeAll PROVE KernelInv'
  BY <1>24 DEF CascadeAll, Resolve, countVars, eventVars, diskVars, KernelInv, Kernel, TypeOK
<1>25. ASSUME CancelParent PROVE KernelInv'
  BY <1>25 DEF CancelParent, CancelLive, runVars, cascadeVars, countVars, eventVars, diskVars,
               KernelInv, Kernel, TypeOK
<1>26. ASSUME Shutdown PROVE KernelInv'
  BY <1>26 DEF Shutdown, CancelLive, runVars, cascadeVars, countVars, eventVars, diskVars,
               KernelInv, Kernel, TypeOK
<1>27. ASSUME ParentEnds PROVE KernelInv'
  BY <1>27 DEF ParentEnds, Quiet, runVars, cascadeVars, countVars, KernelInv, Kernel, TypeOK
<1>28. ASSUME Checkpoint PROVE KernelInv'
  BY <1>28 DEF Checkpoint, Quiet, runVars, cascadeVars, countVars, eventVars, KernelInv, Kernel,
               TypeOK
<1>29. ASSUME Save PROVE KernelInv'
  BY <1>29 DEF Save, Quiet, runVars, cascadeVars, countVars, eventVars, KernelInv, Kernel, TypeOK
<1>30. ASSUME RemoveRecords PROVE KernelInv'
  BY <1>30 DEF RemoveRecords, Quiet, runVars, cascadeVars, countVars, eventVars, KernelInv, Kernel,
               TypeOK
<1>31. ASSUME NextRun PROVE KernelInv'
  BY <1>31 DEF NextRun, Quiet, runVars, cascadeVars, countVars, eventVars, KernelInv, Kernel, TypeOK
<1>32. ASSUME Crash PROVE KernelInv'
  BY <1>32 DEF Crash, KernelInv, Kernel, TypeOK
<1>33. ASSUME Restore PROVE KernelInv'
  BY <1>33 DEF Restore, Repaired, Dangling, Quiet, runVars, cascadeVars, countVars, eventVars,
               KernelInv, Kernel, TypeOK
<1>34. ASSUME RestoreSave PROVE KernelInv'
  BY <1>34 DEF RestoreSave, RestoreUnsaved, Quiet, runVars, cascadeVars, countVars, eventVars,
               KernelInv, Kernel, TypeOK
<1>35. ASSUME FinalizeRestored PROVE KernelInv'
  BY <1>35 DEF FinalizeRestored, Quiet, runVars, cascadeVars, countVars, eventVars, KernelInv,
               Kernel, TypeOK
<1> QED BY <1>1, <1>2, <1>3, <1>4, <1>5, <1>6, <1>7, <1>8, <1>9, <1>10, <1>11, <1>12, <1>13,
           <1>14, <1>15, <1>16, <1>17, <1>18, <1>19, <1>20, <1>21, <1>22, <1>23, <1>24, <1>25,
           <1>26, <1>27, <1>28, <1>29, <1>30, <1>31, <1>32, <1>33, <1>34, <1>35 DEF Next, Run, Finalize

\* Every step keeps what a cascade of an external agent has decided.
LEMMA AcpStep ==
  ASSUME TypeOK, CountInv, CallInv, KernelInv, AcpInv, Next
  PROVE  AcpInv'
<1>1. ASSUME NEW i \in Invocations, Invoke(i) PROVE AcpInv'
  BY <1>1 DEF Invoke, Admitted, Goto, cascadeVars, eventVars, parentVars, diskVars, AcpInv, Kernel,
              TypeOK, Live, CallInv
<1>2. ASSUME NEW i \in Invocations, Refuse(i) PROVE AcpInv'
  BY <1>2 DEF Refuse, Goto, cascadeVars, countVars, eventVars, parentVars, diskVars, AcpInv,
              Kernel, TypeOK, Live
<1>3. ASSUME NEW i \in Invocations, StartAttempt(i) PROVE AcpInv'
  BY <1>3 DEF StartAttempt, Goto, Stamp, Unmoved, cascadeVars, countVars, eventVars, parentVars,
              AcpInv, Kernel, TypeOK, Live
<1>4. ASSUME NEW i \in Invocations, AttemptEnds(i) PROVE AcpInv'
  BY <1>4 DEF AttemptEnds, Goto, Unmoved, cascadeVars, countVars, eventVars, parentVars, AcpInv,
              Kernel, TypeOK, Live
<1>5. ASSUME NEW i \in Invocations, BackoffEnds(i) PROVE AcpInv'
  BY <1>5 DEF BackoffEnds, Goto, Unmoved, cascadeVars, countVars, eventVars, parentVars, AcpInv,
              Kernel, TypeOK, Live
<1>6. ASSUME NEW i \in Invocations, Reply(i) PROVE AcpInv'
  BY <1>6 DEF Reply, Goto, Stamp, Unmoved, cascadeVars, countVars, eventVars, parentVars, AcpInv,
              Kernel, TypeOK, Live
<1>7. ASSUME NEW i \in Invocations, Complete(i) PROVE AcpInv'
  BY <1>7 DEF Complete, Goto, Unmoved, QueueCleanup, cascadeVars, countVars, eventVars, parentVars,
              AcpInv, Kernel, TypeOK, Live
<1>8. ASSUME NEW i \in Invocations, Pause(i) PROVE AcpInv'
  BY <1>8 DEF Pause, RecordPause, Goto, Stamp, Unmoved, cascadeVars, countVars, eventVars,
              parentVars, AcpInv, Kernel, TypeOK, Live
<1>9. ASSUME NEW i \in Invocations, OpenDecision(i) PROVE AcpInv'
  BY <1>9 DEF OpenDecision, PauseIsTorn, Goto, Say, Unmoved, cascadeVars, countVars, eventVars,
              parentVars, AcpInv, Kernel, TypeOK, Live
<1>10. ASSUME NEW i \in Invocations, Announced(i) PROVE AcpInv'
  BY <1>10 DEF Announced, Goto, Unmoved, cascadeVars, countVars, eventVars, parentVars, AcpInv,
               Kernel, TypeOK, Live
<1>11. ASSUME NEW i \in Invocations, NEW choice \in {"retry", "abort"}, Click(i, choice) PROVE AcpInv'
  BY <1>11 DEF Click, Unmoved, cascadeVars, countVars, eventVars, parentVars, AcpInv, Kernel,
               TypeOK, Live
<1>12. ASSUME NEW i \in Invocations, Decided(i) PROVE AcpInv'
  BY <1>12 DEF Decided, DecisionIsTorn, Goto, Stamp, Say, Unmoved, cascadeVars, countVars,
               eventVars, parentVars, AcpInv, Kernel, TypeOK, Live
<1>13. ASSUME NEW i \in Invocations, Resumed(i) PROVE AcpInv'
  BY <1>13 DEF Resumed, Goto, Stamp, Unmoved, cascadeVars, countVars, eventVars, parentVars,
               AcpInv, Kernel, TypeOK, Live
<1>14. ASSUME NEW i \in Invocations, SayAborted(i) PROVE AcpInv'
  BY <1>14 DEF SayAborted, Goto, Say, Unmoved, cascadeVars, countVars, parentVars, AcpInv, Kernel,
               TypeOK, Live
<1>15. ASSUME NEW i \in Invocations, Aborted(i) PROVE AcpInv'
  BY <1>15 DEF Aborted, Goto, Unmoved, QueueCleanup, cascadeVars, countVars, eventVars, parentVars,
               AcpInv, Kernel, TypeOK, Live
<1>16. ASSUME NEW i \in Invocations, Joined(i) PROVE AcpInv'
  BY <1>16 DEF Joined, runVars, countVars, eventVars, parentVars, diskVars, AcpInv, Kernel, TypeOK,
               Live
<1>17. ASSUME NEW i \in Invocations, AcpPublish(i) PROVE AcpInv'
  BY <1>17 DEF AcpPublish, Stamp, Say, countVars, parentVars, diskVars, AcpInv, Kernel, TypeOK, Live
<1>18. ASSUME NEW i \in Invocations, Cancelled(i) PROVE AcpInv'
  BY <1>18 DEF Cancelled, InRun, Goto, QueueCleanup, countVars, eventVars, AcpInv, Kernel, TypeOK,
               Live
<1>19. ASSUME NEW i \in Invocations, NEW who \in {"run", "cascade"}, TakeFinalize(i, who) PROVE AcpInv'
  BY <1>19 DEF TakeFinalize, AlreadyFinal, Enters, Goto, QueueCleanup, StillFinalizing,
               LeaveFinalize, countVars, eventVars, parentVars, AcpInv, Kernel, TypeOK, Live
<1>20. ASSUME NEW i \in Invocations, NEW who \in {"run", "cascade"}, StampFinalize(i, who) PROVE AcpInv'
  BY <1>20 DEF StampFinalize, Goto, Stamp, QueueCleanup, StillFinalizing, LeaveFinalize, countVars,
               eventVars, parentVars, AcpInv, Kernel, TypeOK, Live, KernelInv
<1>21. ASSUME NEW i \in Invocations, NEW who \in {"run", "cascade"}, EndFinalize(i, who) PROVE AcpInv'
  BY <1>21 DEF EndFinalize, Goto, Say, QueueCleanup, StillFinalizing, LeaveFinalize, countVars,
               eventVars, parentVars, AcpInv, Kernel, TypeOK, Live, KernelInv
<1>22. ASSUME NEW i \in Invocations, AcpFinalize(i) PROVE AcpInv'
  BY <1>22 DEF AcpFinalize, Goto, Stamp, QueueCleanup, StillFinalizing, countVars, eventVars,
               parentVars, AcpInv, Kernel, TypeOK, Live
<1>23. ASSUME NEW i \in Invocations, Return(i) PROVE AcpInv'
  BY <1>23 DEF Return, ReturnCounters, Goto, cascadeVars, eventVars, diskVars, AcpInv, Kernel,
               TypeOK, Live
<1>24. ASSUME CascadeAll PROVE AcpInv'
  <2>1. PICK listed \in SUBSET Live :
          /\ flag' = [j \in Invocations |-> flag[j] \/ j \in listed]
          /\ decision' = [j \in Invocations |->
                            IF j \in listed THEN Resolve(j, "cascade") ELSE decision[j]]
          /\ cascade' = [j \in Invocations |->
                           IF j \notin listed THEN "no" ELSE IF j \in Acp THEN "publish" ELSE "joining"]
    BY <1>24 DEF CascadeAll
  <2>2. interrupt = "no" /\ interrupt' = "cascading" /\ UNCHANGED <<pc, cascades, silenced>>
    BY <1>24 DEF CascadeAll, eventVars
  <2> SUFFICES ASSUME NEW j \in Acp
               PROVE  /\ cascade'[j] = "publish" => cascades[j] = 0 /\ pc[j] # "none"
                      /\ flag'[j] => decision'[j] # "open"
                      /\ cascade'[j] # "no" => flag'[j]
                      /\ j \in silenced => flag'[j]
    BY <2>2 DEF AcpInv, Live
  <2>3. CASE j \in listed
    BY <2>1, <2>2, <2>3 DEF AcpInv, Resolve, Live
  <2>4. CASE j \notin listed
    BY <2>1, <2>2, <2>4 DEF AcpInv
  <2> QED BY <2>3, <2>4
<1>25. ASSUME CancelParent PROVE AcpInv'
  BY <1>25 DEF CancelParent, CancelLive, runVars, cascadeVars, countVars, eventVars, diskVars,
               AcpInv, Kernel, TypeOK, Live
<1>26. ASSUME Shutdown PROVE AcpInv'
  BY <1>26 DEF Shutdown, CancelLive, runVars, cascadeVars, countVars, eventVars, diskVars, AcpInv,
               Kernel, TypeOK, Live
<1>27. ASSUME ParentEnds PROVE AcpInv'
  BY <1>27 DEF ParentEnds, Quiet, runVars, cascadeVars, countVars, AcpInv, Kernel, TypeOK, Live
<1>28. ASSUME Checkpoint PROVE AcpInv'
  BY <1>28 DEF Checkpoint, Quiet, runVars, cascadeVars, countVars, eventVars, AcpInv, Kernel,
               TypeOK, Live
<1>29. ASSUME Save PROVE AcpInv'
  BY <1>29 DEF Save, Quiet, runVars, cascadeVars, countVars, eventVars, AcpInv, Kernel, TypeOK, Live
<1>30. ASSUME RemoveRecords PROVE AcpInv'
  BY <1>30 DEF RemoveRecords, Quiet, runVars, cascadeVars, countVars, eventVars, AcpInv, Kernel,
               TypeOK, Live
<1>31. ASSUME NextRun PROVE AcpInv'
  BY <1>31 DEF NextRun, Quiet, runVars, cascadeVars, countVars, eventVars, AcpInv, Kernel, TypeOK,
               Live, CountInv, Live
<1>32. ASSUME Crash PROVE AcpInv'
  BY <1>32 DEF Crash, AcpInv, Kernel, TypeOK, Live
<1>33. ASSUME Restore PROVE AcpInv'
  BY <1>33 DEF Restore, Repaired, Dangling, Quiet, runVars, cascadeVars, countVars, eventVars,
               AcpInv, Kernel, TypeOK, Live
<1>34. ASSUME RestoreSave PROVE AcpInv'
  BY <1>34 DEF RestoreSave, RestoreUnsaved, Quiet, runVars, cascadeVars, countVars, eventVars,
               AcpInv, Kernel, TypeOK, Live
<1>35. ASSUME FinalizeRestored PROVE AcpInv'
  BY <1>35 DEF FinalizeRestored, Quiet, runVars, cascadeVars, countVars, eventVars, AcpInv, Kernel,
               TypeOK, Live
<1> QED BY <1>1, <1>2, <1>3, <1>4, <1>5, <1>6, <1>7, <1>8, <1>9, <1>10, <1>11, <1>12, <1>13,
           <1>14, <1>15, <1>16, <1>17, <1>18, <1>19, <1>20, <1>21, <1>22, <1>23, <1>24, <1>25,
           <1>26, <1>27, <1>28, <1>29, <1>30, <1>31, <1>32, <1>33, <1>34, <1>35 DEF Next, Run, Finalize

-----------------------------------------------------------------------------
(* The theorems.                                                           *)

\* The invariant holds of the initial states.
LEMMA InitInv == Init => ControlInv
<1> SUFFICES ASSUME Init PROVE ControlInv
  OBVIOUS
<1>1. TypeOK
  BY DEF Init, TypeOK, Pcs
<1>2. Live = {} /\ \A a \in Invocations : OfAgent(a) = {}
  BY DEF Init, Live, OfAgent
<1>3. CountInv
  BY <1>2, FS_EmptySet, Counted DEF Init, CountInv
<1>4. CallInv /\ PauseInv /\ KernelInv
  BY DEF Init, CallInv, PauseInv, PausedIsOnDisk, KernelInv
<1>5. AcpInv
  BY <1>2 DEF Init, AcpInv
<1> QED BY <1>1, <1>3, <1>4, <1>5 DEF ControlInv

\* And every step keeps it.
LEMMA NextInv == ControlInv /\ [Next]_vars => ControlInv'
<1> SUFFICES ASSUME ControlInv, [Next]_vars PROVE ControlInv'
  OBVIOUS
<1>1. CASE Next
  BY <1>1, TypeStep, CountStep, CallStep, PauseStep, KernelStep, AcpStep DEF ControlInv
<1>2. CASE UNCHANGED vars
  BY <1>2, TypeStep DEF ControlInv, CountInv, CountsExact, CallInv, PauseInv, PausedIsOnDisk,
                        KernelInv,
              AcpInv, Live, vars, runVars, cascadeVars, countVars, eventVars, parentVars, diskVars
<1> QED BY <1>1, <1>2

\* The invariant holds of every behaviour: what the tool call, the controllers,
\* the interrupt, the engine's mirror and the records on disk keep together.
THEOREM ControlHolds == Spec => []ControlInv
BY InitInv, NextInv, PTL DEF Spec

\* Every variable keeps its type; for the counters this says that the limits
\* are never exceeded and that no counter is returned twice.
THEOREM ControlTyped == Spec => []TypeOK
<1>1. ControlInv => TypeOK
  BY DEF ControlInv
<1> QED BY <1>1, ControlHolds, PTL

\* Both counters of tools.py are the invocations that have not returned.
THEOREM CountersExact == Spec => []CountsExact
<1>1. ControlInv => CountsExact
  BY DEF ControlInv, CountInv
<1> QED BY <1>1, ControlHolds, PTL

\* When no run goes on, the history holds no call without its result.
THEOREM CallsClosed == Spec => []NoOpenCallAtRest
<1>1. ControlInv => NoOpenCallAtRest
  BY DEF ControlInv, CountInv, CallInv, NoOpenCallAtRest
<1> QED BY <1>1, ControlHolds, PTL

\* A pause the user sees has its record on disk from its announcement on
\* (_pause_and_wait), unless the write itself failed (_write_persisted).
THEOREM PausesRecorded == Spec => []PausedIsOnDisk
<1>1. ControlInv => PausedIsOnDisk
  BY DEF ControlInv, PauseInv
<1> QED BY <1>1, ControlHolds, PTL

\* However often the two finalizations tear and repeat each other, a cascade
\* is announced once.
THEOREM CascadeOnce == Spec => []OneCascadeWord
<1>1. ControlInv => OneCascadeWord
  BY DEF ControlInv, KernelInv, AcpInv, Kernel, OneCascadeWord
<1> QED BY <1>1, ControlHolds, PTL

\* No external invocation waits for a click after its cascade is back.
THEOREM AcpFreed == Spec => []CascadeFreesAcp
<1>1. ControlInv => CascadeFreesAcp
  BY DEF ControlInv, AcpInv, CascadeFreesAcp, Freed
<1> QED BY <1>1, ControlHolds, PTL

\* A step that takes a record away leaves no saved call that needs it.
LEMMA TakesAnswered ==
  ASSUME ControlInv, [Next]_vars, NEW i \in Invocations, record[i] = "present", record'[i] # "present"
  PROVE  saved[i] # "dangling"
<1>0. TypeOK /\ CallInv
  BY DEF ControlInv
<1>1. ~\E j \in Invocations : Step(j) \/ Invoke(j) \/ Refuse(j) \/ Return(j)
  BY <1>0, StepRecords DEF Records, TypeOK, Invoke, Refuse, Return, diskVars
<1>2. ~(\/ CascadeAll \/ CancelParent \/ Shutdown \/ ParentEnds \/ Checkpoint \/ Save \/ NextRun
        \/ Crash \/ RestoreSave \/ UNCHANGED vars)
  BY DEF CascadeAll, CancelParent, Shutdown, ParentEnds, Checkpoint, Save, NextRun, Crash,
         RestoreSave, OnlyFiles, vars, diskVars
<1>3. RemoveRecords \/ Restore \/ FinalizeRestored
  BY <1>1, <1>2, Steps
<1>4. CASE RemoveRecords \/ FinalizeRestored
  BY <1>0, <1>4 DEF RemoveRecords, FinalizeRestored, CallInv
<1>5. CASE Restore
  BY <1>5 DEF Restore, Dangling
<1> QED BY <1>3, <1>4, <1>5

\* The record of a pause outlives the need for it: whichever save, cleanup or
\* restore removes it, the saved session answers its call already.
THEOREM RecordsOutlive == Spec => RecordOutlivesItsCall
<1>1. ControlInv /\ [Next]_vars
        => [\A i \in Invocations : record[i] = "present" /\ record'[i] # "present"
               => saved[i] # "dangling"]_vars
  BY TakesAnswered
<1> QED BY <1>1, ControlHolds, PTL DEF Spec, RecordOutlivesItsCall

\* An external controller says nothing more once its flag is up, except that
\* it was cascaded.
LEMMA SaysNoMore ==
  ASSUME ControlInv, [Next]_vars, NEW i \in Acp, i \in silenced
  PROVE  i \in silenced' \/ engine' = "down"
<1>0. TypeOK /\ i \in Invocations /\ flag[i] /\ pc[i] # "aborting"
  BY DEF ControlInv, AcpInv
<1>1. ASSUME NEW j \in Invocations, OpenDecision(j) \/ Decided(j) \/ SayAborted(j)
      PROVE  i \in silenced'
  BY <1>0, <1>1 DEF OpenDecision, PauseIsTorn, Decided, DecisionIsTorn, SayAborted, Say, eventVars,
                    TypeOK
<1>2. ASSUME NEW j \in Invocations, Invoke(j) \/ Refuse(j) \/ Return(j)
      PROVE  silenced' = silenced
  BY <1>2 DEF Invoke, Refuse, Return, eventVars
<1>3. ASSUME NEW j \in Invocations, Step(j), ~(OpenDecision(j) \/ Decided(j) \/ SayAborted(j))
      PROVE  i \in silenced'
  <2>1. silenced' = silenced \/ silenced' = silenced \cup {j}
    BY <1>3 DEF Step, StartAttempt, AttemptEnds, BackoffEnds, Reply, Complete, Pause,
                Announced, Click, Resumed, Aborted, Joined, AcpPublish, Cancelled,
                TakeFinalize, StampFinalize, EndFinalize, AcpFinalize, Say,
                StillFinalizing, Unmoved, eventVars
  <2> QED BY <1>0, <2>1 DEF TypeOK
<1>4. ASSUME \/ CascadeAll \/ CancelParent \/ Shutdown \/ ParentEnds \/ Checkpoint \/ Save
             \/ RemoveRecords \/ NextRun \/ Restore \/ RestoreSave \/ FinalizeRestored
             \/ UNCHANGED vars
      PROVE  silenced' = silenced
  BY <1>4 DEF CascadeAll, CancelParent, Shutdown, ParentEnds, Checkpoint, Save, RemoveRecords,
              NextRun,
              Restore, RestoreSave, FinalizeRestored, vars, eventVars
<1>5. ASSUME Crash PROVE engine' = "down"
  BY <1>5 DEF Crash
<1> QED BY <1>1, <1>2, <1>3, <1>4, <1>5, Steps

\* No pause, resume or abort that was under way contradicts the cascade of an
\* external invocation (acp_controller.py looks at the flag again each time).
THEOREM CascadeLast == Spec => CascadeIsLastWord
<1>1. ControlInv /\ [Next]_vars
        => [\A i \in Acp : i \in silenced => i \in silenced' \/ engine' = "down"]_vars
  BY SaysNoMore
<1> QED BY <1>1, ControlHolds, PTL DEF Spec, CascadeIsLastWord

==============================================================================
