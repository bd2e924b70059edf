------------------------- MODULE MCSubAgentControl -------------------------
(* Small instances of the sub-agent control.                               *)
EXTENDS SubAgentControl, TLC

CONSTANTS i1, i2

\* Every invocation calls the same tool; the first may be retried.
OneTool == [i \in Invocations |-> i1]
Tries   == [i \in Invocations |-> IF i = i1 THEN 2 ELSE 1]
=============================================================================
