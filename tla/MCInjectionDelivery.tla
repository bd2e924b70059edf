------------------------- MODULE MCInjectionDelivery -------------------------
(***************************************************************************)
(* Small instances of InjectionDelivery: the texts, by name.               *)
(***************************************************************************)
EXTENDS InjectionDelivery, TLC

CONSTANTS m1, m2, m3, i1

\* Prompts differ by name only.
TextSymmetry == Permutations(Messages) \cup Permutations(Injects)
=============================================================================
