---------------------------- MODULE MCHookOutbox ----------------------------
(* Small instances of the hook outbox.                                     *)
EXTENDS HookOutbox, TLC

CONSTANTS p1, p2, j1

\* The same hook configured in two ways.
Configured == p1 :> {j1} @@ p2 :> {j1}
AsDetached == p1 :> {} @@ p2 :> {j1}

\* The second process works in a project that does not have the hook.
Elsewhere == p1 :> {j1} @@ p2 :> {}
=============================================================================
