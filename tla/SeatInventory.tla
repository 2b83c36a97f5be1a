--------------------------- MODULE SeatInventory ---------------------------
(***************************************************************************)
(* What the reservation aggregate promises about seats, without tables,    *)
(* threads, clocks or idempotency keys: a seat of an event is available,   *)
(* locked or booked; an owner takes all the seats it asks for or none; a   *)
(* lock may lapse at any time, all its seats together; a booking never     *)
(* ends.                                                                   *)
(***************************************************************************)
EXTENDS FiniteSets

CONSTANTS Events, Seats, Owners,
          Nobody   \* the holder of an available seat, not one of Owners

VARIABLES holder,   \* holder[e, s]: who holds seat s of event e
          sold      \* the owners whose seats are paid for

vars == <<holder, sold>>

SeatsOf(o) == {p \in Events \X Seats : holder[p] = o}

Init ==
  /\ holder = [p \in Events \X Seats |-> Nobody]
  /\ sold = {}

\* The map of holders once the locks of the owners in L have lapsed.
After(L) == [p \in Events \X Seats |-> IF holder[p] \in L THEN Nobody ELSE holder[p]]

Lapse(L) ==
  /\ L \cap sold = {}
  /\ holder' = After(L)
  /\ UNCHANGED sold

\* Owner o takes the set S of seats of event e; locks that had run out
\* lapse in the same step.
Lock(o, e, S, L) ==
  /\ L \cap sold = {}
  /\ SeatsOf(o) = {}
  /\ S # {}
  /\ \A s \in S : After(L)[<<e, s>>] = Nobody
  /\ holder' = [p \in Events \X Seats |->
                  IF p[1] = e /\ p[2] \in S THEN o ELSE After(L)[p]]
  /\ o \notin sold
  /\ UNCHANGED sold

Book(o) ==
  /\ o \notin sold
  /\ SeatsOf(o) # {}
  /\ sold' = sold \cup {o}
  /\ UNCHANGED holder

Next ==
  \/ \E L \in SUBSET Owners : Lapse(L)
  \/ \E o \in Owners, e \in Events, S \in SUBSET Seats, L \in SUBSET Owners : Lock(o, e, S, L)
  \/ \E o \in Owners : Book(o)

Spec == Init /\ [][Next]_vars
=============================================================================
