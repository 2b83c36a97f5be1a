--------------------------- MODULE MCReservation ---------------------------
(* Instances of Reservation and ReservationRefinement for TLC. *)
EXTENDS ReservationRefinement, TLC

CONSTANTS t1, t2, r1, r2, k1, k2, s1, s2, e1, e2

Symmetry == Permutations({t1, t2}) \cup Permutations({r1, r2}) \cup Permutations({k1, k2})
            \cup Permutations({s1, s2})
=============================================================================
