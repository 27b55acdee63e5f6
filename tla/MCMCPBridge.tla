----------------------------- MODULE MCMCPBridge -----------------------------
(* Model-checking instance of MCPBridge: two HTTP handlers and the main     *)
(* goroutine; the constants are fixed in the .cfg files.                    *)
EXTENDS MCPBridge, TLC

\* Handlers are interchangeable: nothing in SendRequest depends on which
\* goroutine calls it.
ClientSymmetry == Permutations(Clients)
=============================================================================
