---------------------------- MODULE MCMcpBackend ----------------------------
(* Small instances of McpBackend for TLC: two stubs with a call each. *)
EXTENDS McpBackend, TLC

CONSTANTS s1, s2, r1, r2

CallEach == r1 :> s1 @@ r2 :> s2
=============================================================================
