----------------------------- MODULE MCWarmPool -----------------------------
(* Small instances of WarmPool for TLC. *)
EXTENDS WarmPool, TLC

CONSTANTS p1, p2, p3, c1, c2

ProcSymmetry == Permutations(Procs)
CallerSymmetry == Permutations(Callers)
PoolSymmetry == ProcSymmetry \cup CallerSymmetry
=============================================================================
