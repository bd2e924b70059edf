--------------------------- MODULE MCTurnLifecycle ---------------------------
(***************************************************************************)
(* Small instances of TurnLifecycle: the events each run has, by kind.     *)
(***************************************************************************)
EXTENDS TurnLifecycle, TLC

CONSTANTS m1, m2, r1, r2, n1, c1, s1, k1, b1, a1, a2

\* Prompts that only differ by name may be exchanged.
PromptSymmetry == Permutations(Messages)
=============================================================================
