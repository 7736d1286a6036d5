------------------------------ MODULE MCMcpPool ------------------------------
(* Small instances of McpPool for TLC. *)
EXTENDS McpPool, TLC

CONSTANTS c1, c2, c3, w1, k1, k2, p1, p2

\* Connections that share a key, with two backends; a connection and a
\* prewarm pass with a key and a backend each.
SharedKey == [c \in {c1, c2, c3} |-> k1]
SharedAt == p1 :> k1 @@ p2 :> k1
KeyEach == c1 :> k1 @@ w1 :> k2
AtEach == p1 :> k1 @@ p2 :> k2

SharedSymmetry == Permutations({p1, p2}) \cup Permutations({c1, c2, c3})
=============================================================================
