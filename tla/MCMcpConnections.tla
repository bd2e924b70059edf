-------------------------- MODULE MCMcpConnections --------------------------
(* Small instances of the MCP connection cache.                            *)
EXTENDS McpConnections, TLC

CONSTANTS a1, a2, a3, k1, k2

\* Two adapters share a server, a third leases another one.
Shared == a1 :> k1 @@ a2 :> k1 @@ a3 :> k2
Tries  == a1 :> 2 @@ a2 :> 1 @@ a3 :> 1
=============================================================================
