------------------------------ MODULE TurnOrder ------------------------------
(***************************************************************************)
(* What the engine promises about its turns, whoever asks for them and     *)
(* whatever boundary passes by: runs are numbered in the order they start  *)
(* and never overlap; a run that has ended stays ended; the runtime is     *)
(* only replaced between runs; and once a run's session has been given up  *)
(* nothing more is started on behalf of it.                                *)
(***************************************************************************)
EXTENDS Naturals

VARIABLES
  run,      \* the number of the live run, 0 between runs
  runs,     \* how many runs there have been
  session,  \* how many sessions have been given up
  orphan,   \* the live run's session has been given up
  build     \* the number of the installed runtime

turnVars == <<run, runs, session, orphan, build>>

Init ==
  /\ run = 0 /\ runs = 0
  /\ session = 0 /\ orphan = FALSE
  /\ build = 1

\* A prompt or a retry starts a run of the current session.
Begin ==
  /\ run = 0
  /\ run' = runs + 1 /\ runs' = runs + 1
  /\ UNCHANGED <<session, orphan, build>>

\* A run hands over to the retry queued behind it, never for a lost session.
Continue ==
  /\ run # 0 /\ ~orphan
  /\ run' = runs + 1 /\ runs' = runs + 1
  /\ UNCHANGED <<session, orphan, build>>

End ==
  /\ run # 0
  /\ run' = 0 /\ orphan' = FALSE
  /\ UNCHANGED <<runs, session, build>>

\* A session transition commits; the run in flight, if any, is on its way out.
Switch ==
  /\ session' = session + 1
  /\ orphan' = (run # 0)
  /\ UNCHANGED <<run, runs, build>>

\* A new runtime is installed.
Rebuild ==
  /\ run = 0
  /\ build' = build + 1
  /\ UNCHANGED <<run, runs, session, orphan>>

Next == Begin \/ Continue \/ End \/ Switch \/ Rebuild

Spec == Init /\ [][Next]_turnVars
=============================================================================
