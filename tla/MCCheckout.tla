----------------------------- MODULE MCCheckout -----------------------------
(* Instances of Checkout for TLC. *)
EXTENDS Checkout

CONSTANTS t1, t2, r1, r2, k1, k2, p1, p2, s1, e1

Symmetry == Permutations({t1, t2}) \cup Permutations({r1, r2}) \cup Permutations({k1, k2})
            \cup Permutations({p1, p2})
=============================================================================
