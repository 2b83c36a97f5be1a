----------------------------- MODULE MCFrontend -----------------------------
(* Instances of Frontend for TLC. *)
EXTENDS Frontend, TLC

CONSTANTS u1, u2, e1, e2, s1, s2, r1, r2, o1

Symmetry == Permutations({e1, e2}) \cup Permutations({s1, s2}) \cup Permutations({r1, r2})

\* What has been astray stays so, and the properties say nothing of it.
Unspoilt == "lock" \notin outrun

\* Bound: seat polls under way.
OnePoll == Cardinality({n \in Slots : calls[n] # None /\ calls[n].kind = "seats"}) <= 1
=============================================================================
