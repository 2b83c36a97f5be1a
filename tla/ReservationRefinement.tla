----------------------- MODULE ReservationRefinement -----------------------
(***************************************************************************)
(* The reservation service implements the seat inventory: the holder of a  *)
(* seat is the reservation with a row for it, and a reservation is sold    *)
(* when its status is CONFIRMED.                                           *)
(***************************************************************************)
EXTENDS Reservation

\* Who holds which seat, going by a set of rows of reservation_seats.
HolderIn(rows) ==
  [p \in Events \X Seats |->
     IF \E x \in rows : x.event = p[1] /\ x.seat = p[2]
     THEN (CHOOSE x \in rows : x.event = p[1] /\ x.seat = p[2]).reservation
     ELSE UnknownId]

Holder == HolderIn(reservation_seats)

Sold == {r \in Stored : reservations[r].status = "CONFIRMED"}

Inventory ==
  INSTANCE SeatInventory
    WITH Owners <- ReservationIds, Nobody <- UnknownId, holder <- Holder, sold <- Sold

\* Every step of every thread changes the seats of the inventory as
\* SeatInventory allows, or not at all: locks are all-or-nothing, seats go
\* AVAILABLE -> LOCKED -> BOOKED, and only locks lapse.
ImplementsSeatInventory == Inventory!Spec
=============================================================================
