-------------------------- MODULE MCSessionLease --------------------------
(* Small instances of SessionLease for TLC. *)
EXTENDS SessionLease, TLC

CONSTANTS k1, k2, c1, c2, c3, p1, p2, p3

\* No key has a second form.
NoAliases == [k \in Keys |-> k]

ProvSymmetry == Permutations(Provs)
=============================================================================
