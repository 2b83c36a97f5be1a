------------------- MODULE ReservationRefinement_proofs -------------------
(***************************************************************************)
(* Reservation implements SeatInventory: every change of the two tables is *)
(* a lapse, a lock or a booking of the inventory.                          *)
(***************************************************************************)
EXTENDS ReservationRefinement, Reservation_proofs

\* A reservation is for at least one seat (lock_seats rejects an empty list),
\* so that a booking books something.
SomethingGranted == \A r \in Stored : reservations[r].granted # {}

Strong == Integrity /\ SomethingGranted

\* Every step keeps it: what was granted is never rewritten.
LEMMA SomethingGrantedStep ==
  ASSUME TablesOK, SomethingGranted, TablesStep
  PROVE  SomethingGranted'
<1>1. CASE UNCHANGED tables
  BY <1>1 DEF tables, SomethingGranted, Stored
<1>2. ASSUME NEW R \in SUBSET Stored, NEW status \in Statuses, Ends(R, status)
      PROVE  SomethingGranted'
  <2>1. Stored' = Stored
    BY <1>2 DEF Ends, WithStatus, Stored
  <2> QED
    BY <1>2, <2>1, WithStatusRows DEF Ends, SomethingGranted
<1>3. ASSUME NEW r \in Stored, Confirms(r)
      PROVE  SomethingGranted'
  <2>1. Stored' = Stored
    BY <1>3 DEF Confirms, WithStatus, Stored
  <2> QED
    BY <1>3, <2>1, WithStatusRows DEF Confirms, SomethingGranted, Statuses
<1>4. ASSUME NEW r \in ReservationIds, NEW row \in Row, NEW R \in SUBSET Stored, Inserts(r, row, R)
      PROVE  SomethingGranted'
  <2>1. Stored' = Stored \cup {r} /\ r \notin Stored
    BY <1>4 DEF Inserts, Stored
  <2>2. reservations'[r] = row /\ row.granted # {}
    BY <1>4, <2>1 DEF Inserts
  <2>3. \A q \in Stored : reservations'[q] = WithStatus(R, "EXPIRED")[q]
    BY <1>4, <2>1 DEF Inserts
  <2> QED
    BY <2>1, <2>2, <2>3, WithStatusRows DEF SomethingGranted, Statuses
<1> QED
  BY <1>1, <1>2, <1>3, <1>4 DEF TablesStep

\* The invariant the refinement rests on holds in every reachable state.
LEMMA StrongInvariant == Spec => []Strong
<1>1. Init => SomethingGranted
  BY DEF Init, SomethingGranted, Stored
<1>2. TypeOK /\ SomethingGranted /\ [Next]_vars => SomethingGranted'
  BY SomethingGrantedStep, TableSteps, TypeParts
<1> QED
  BY <1>1, <1>2, TypeInvariance, IntegrityInvariant, PTL DEF Spec, Strong

-----------------------------------------------------------------------------
(* The mapped variables. *)

Unique(rows) == \A x, y \in rows : x.event = y.event /\ x.seat = y.seat => x = y

\* With unique rows, the row of a seat names its holder.
LEMMA HolderFacts ==
  ASSUME NEW rows, Unique(rows), NEW p \in Events \X Seats
  PROVE  /\ \A x \in rows : x.event = p[1] /\ x.seat = p[2] => HolderIn(rows)[p] = x.reservation
         /\ (\A x \in rows : ~(x.event = p[1] /\ x.seat = p[2])) => HolderIn(rows)[p] = UnknownId
<1>1. ASSUME NEW x \in rows, x.event = p[1], x.seat = p[2]
      PROVE  HolderIn(rows)[p] = x.reservation
  <2> DEFINE y == CHOOSE z \in rows : z.event = p[1] /\ z.seat = p[2]
  <2>1. y \in rows /\ y.event = p[1] /\ y.seat = p[2]
    BY <1>1
  <2>2. y = x
    BY <1>1, <2>1 DEF Unique
  <2>3. HolderIn(rows)[p] = y.reservation
    BY <1>1 DEF HolderIn
  <2> QED
    BY <2>2, <2>3
<1>2. ASSUME \A x \in rows : ~(x.event = p[1] /\ x.seat = p[2])
      PROVE  HolderIn(rows)[p] = UnknownId
  BY <1>2 DEF HolderIn
<1> QED
  BY <1>1, <1>2

\* In a good state, a reservation holds exactly the seats it has rows for.
LEMMA HolderIsRow ==
  ASSUME Integrity, NEW p \in Events \X Seats, NEW r \in ReservationIds
  PROVE  Holder[p] = r <=>
           \E x \in reservation_seats : x.reservation = r /\ x.event = p[1] /\ x.seat = p[2]
<1>1. Unique(reservation_seats)
  BY DEF Integrity, SeatsUnique, Unique
<1> QED
  BY <1>1, HolderFacts, UnknownIdAssumption DEF Holder

\* Ending the reservations in R frees the seats they held, and no others.
LEMMA EndsLapses ==
  ASSUME Integrity, NEW R \in SUBSET Stored
  PROVE  HolderIn(SeatRowsWithout(R)) = Inventory!After(R)
<1> DEFINE rows == SeatRowsWithout(R)
<1>1. Unique(reservation_seats) /\ Unique(rows)
  BY DEF Integrity, SeatsUnique, Unique, SeatRowsWithout
<1>2. UnknownId \notin R
  BY UnknownIdAssumption DEF Integrity, TablesOK, Stored
<1>3. ASSUME NEW p \in Events \X Seats
      PROVE  HolderIn(rows)[p] = IF Holder[p] \in R THEN UnknownId ELSE Holder[p]
  <2>1. CASE \A x \in reservation_seats : ~(x.event = p[1] /\ x.seat = p[2])
    <3>1. Holder[p] = UnknownId /\ HolderIn(rows)[p] = UnknownId
      BY <1>1, <2>1, HolderFacts DEF Holder, SeatRowsWithout
    <3> QED
      BY <1>2, <3>1
  <2>2. ASSUME NEW x \in reservation_seats, x.event = p[1], x.seat = p[2]
        PROVE  HolderIn(rows)[p] = IF Holder[p] \in R THEN UnknownId ELSE Holder[p]
    <3>1. Holder[p] = x.reservation
      BY <1>1, <2>2, HolderFacts DEF Holder
    <3>2. CASE x.reservation \in R
      <4>1. \A y \in rows : ~(y.event = p[1] /\ y.seat = p[2])
        BY <1>1, <2>2, <3>2 DEF SeatRowsWithout, Unique
      <4> QED
        BY <1>1, <3>1, <3>2, <4>1, HolderFacts
    <3>3. CASE x.reservation \notin R
      <4>1. x \in rows
        BY <2>2, <3>3 DEF SeatRowsWithout
      <4> QED
        BY <1>1, <2>2, <3>1, <3>3, <4>1, HolderFacts
    <3> QED
      BY <3>2, <3>3
  <2> QED
    BY <2>1, <2>2
<1>4. HolderIn(rows) = [p \in Events \X Seats |-> HolderIn(rows)[p]]
  BY DEF HolderIn
<1> HIDE DEF rows
<1>5. Inventory!After(R) = [p \in Events \X Seats |-> IF Holder[p] \in R THEN UnknownId ELSE Holder[p]]
  BY DEF Inventory!After
<1>6. HolderIn(rows) = Inventory!After(R)
  BY <1>3, <1>4, <1>5
<1> QED
  BY <1>6 DEF rows

-----------------------------------------------------------------------------
(* Steps of the tables are steps of the inventory. *)

\* Pending reservations are not sold.
LEMMA PendingIsUnsold ==
  ASSUME NEW R, R \subseteq Pending
  PROVE  R \cap Sold = {}
BY DEF Pending, Sold

\* A sweep or a release is a lapse.
LEMMA EndsRefines ==
  ASSUME Strong, NEW R \in SUBSET Stored, NEW status \in Statuses, Ends(R, status)
  PROVE  Inventory!Next
<1> USE DEF Strong
<1>1. R \in SUBSET ReservationIds
  BY DEF Integrity, TablesOK, Stored
<1>2. R \cap Sold = {}
  BY PendingIsUnsold DEF Ends
<1>3. Holder' = Inventory!After(R)
  BY EndsLapses DEF Ends, Holder
<1>4. Sold' = Sold
  <2>1. Stored' = Stored
    BY DEF Ends, WithStatus, Stored
  <2>2. \A r \in Stored : reservations'[r].status = IF r \in R THEN status ELSE reservations[r].status
    BY WithStatusRows DEF Ends, Integrity
  <2> QED
    BY <1>2, <2>1, <2>2 DEF Sold, Ends
<1>5. Inventory!Lapse(R)
  BY <1>2, <1>3, <1>4 DEF Inventory!Lapse
<1> QED
  BY <1>1, <1>5 DEF Inventory!Next

\* A confirmation is a booking.
LEMMA ConfirmsRefines ==
  ASSUME Strong, NEW r \in Stored, Confirms(r)
  PROVE  Inventory!Next
<1> USE DEF Strong
<1>1. r \in ReservationIds
  BY DEF Integrity, TablesOK, Stored
<1>2. r \notin Sold
  BY DEF Confirms, Pending, Sold
<1>3. Holder' = Holder
  BY DEF Confirms, Holder
<1>4. Sold' = Sold \cup {r}
  <2>1. Stored' = Stored
    BY DEF Confirms, WithStatus, Stored
  <2>2. \A q \in Stored : reservations'[q].status = IF q = r THEN "CONFIRMED" ELSE reservations[q].status
    BY WithStatusRows DEF Confirms, Integrity, Statuses
  <2> QED
    BY <2>1, <2>2 DEF Sold
<1>5. Inventory!SeatsOf(r) # {}
  <2>1. SeatsOf(r) # {}
    BY DEF SomethingGranted, Integrity, SeatLedger, Confirms, Pending, Live
  <2>2. PICK x \in reservation_seats : x.reservation = r
    BY <2>1 DEF SeatsOf
  <2>3. <<x.event, x.seat>> \in Events \X Seats
    BY DEF Integrity, TablesOK, SeatRow
  <2>4. Holder[<<x.event, x.seat>>] = r
    BY <1>1, <2>2, <2>3, HolderIsRow
  <2> QED
    BY <2>3, <2>4 DEF Inventory!SeatsOf
<1>6. Inventory!Book(r)
  BY <1>2, <1>3, <1>4, <1>5 DEF Inventory!Book
<1> QED
  BY <1>1, <1>6 DEF Inventory!Next

\* A granted lock_seats is a lock, with the lapses of its sweep.
LEMMA InsertsRefines ==
  ASSUME Strong, NEW r \in ReservationIds, NEW row \in Row, NEW R \in SUBSET Stored,
         Inserts(r, row, R)
  PROVE  Inventory!Next
<1> DEFINE e == row.event
           S == row.granted
           old == SeatRowsWithout(R)
           new == SeatRowsFor(r, e, S)
<1> USE DEF Strong
<1>1. e \in Events /\ S \in SUBSET Seats /\ S # {}
  BY DEF Row, Inserts
<1>2. R \in SUBSET ReservationIds /\ r \notin Stored /\ r # UnknownId
  BY UnknownIdAssumption DEF Integrity, TablesOK, Stored, Inserts
<1>3. R \cap Sold = {} /\ r \notin Sold
  BY <1>2, PendingIsUnsold DEF Inserts, Sold
<1>4. Unique(old) /\ Unique(old \cup new)
  <2>1. Unique(old)
    BY DEF Integrity, SeatsUnique, Unique, SeatRowsWithout
  <2>2. reservation_seats' = old \cup new
    BY DEF Inserts
  <2>3. SeatsUnique'
    BY InsertsKeepsIntegrity
  <2> QED
    BY <2>1, <2>2, <2>3 DEF SeatsUnique, Unique
<1>5. Inventory!After(R) = HolderIn(old)
  BY EndsLapses
<1>6. Inventory!SeatsOf(r) = {}
  <2> SUFFICES ASSUME NEW p \in Events \X Seats, Holder[p] = r
               PROVE  FALSE
    BY DEF Inventory!SeatsOf
  <2>1. \E x \in reservation_seats : x.reservation = r
    BY HolderIsRow
  <2> QED
    BY <1>2, <2>1 DEF Integrity, SeatLedger
<1>7. \A s \in S : HolderIn(old)[<<e, s>>] = UnknownId
  <2> SUFFICES ASSUME NEW s \in S
               PROVE  HolderIn(old)[<<e, s>>] = UnknownId
    OBVIOUS
  <2>1. <<e, s>> \in Events \X Seats
    BY <1>1
  <2>2. \A x \in old : ~(x.event = e /\ x.seat = s)
    BY DEF Inserts, Taken
  <2> QED
    BY <1>4, <2>1, <2>2, HolderFacts
<1>8. ASSUME NEW p \in Events \X Seats
      PROVE  HolderIn(old \cup new)[p] = IF p[1] = e /\ p[2] \in S THEN r ELSE HolderIn(old)[p]
  <2>1. CASE p[1] = e /\ p[2] \in S
    <3> DEFINE x == [reservation |-> r, event |-> e, seat |-> p[2]]
    <3>1. x \in old \cup new /\ x.event = p[1] /\ x.seat = p[2] /\ x.reservation = r
      BY <2>1 DEF SeatRowsFor
    <3> QED
      BY <1>4, <2>1, <3>1, HolderFacts
  <2>2. CASE ~(p[1] = e /\ p[2] \in S)
    <3>1. \A x \in new : ~(x.event = p[1] /\ x.seat = p[2])
      BY <2>2 DEF SeatRowsFor
    <3>2. CASE \E x \in old : x.event = p[1] /\ x.seat = p[2]
      BY <1>4, <2>2, <3>2, HolderFacts
    <3>3. CASE \A x \in old : ~(x.event = p[1] /\ x.seat = p[2])
      BY <1>4, <2>2, <3>1, <3>3, HolderFacts
    <3> QED
      BY <3>2, <3>3
  <2> QED
    BY <2>1, <2>2
<1>9. Holder' = HolderIn(old \cup new)
  BY DEF Inserts, Holder
<1>10. HolderIn(old \cup new) = [p \in Events \X Seats |-> HolderIn(old \cup new)[p]]
  BY DEF HolderIn
<1>11. Sold' = Sold
  <2>1. Stored' = Stored \cup {r}
    BY DEF Inserts, Stored
  <2>2. reservations'[r].status = "PENDING"
    BY <2>1 DEF Inserts
  <2>3. \A q \in Stored : reservations'[q] = WithStatus(R, "EXPIRED")[q]
    BY <1>2 DEF Inserts
  <2>4. \A q \in Stored : reservations'[q].status = IF q \in R THEN "EXPIRED" ELSE reservations[q].status
    BY <2>3, WithStatusRows DEF Integrity, Statuses
  <2> QED
    BY <1>3, <2>1, <2>2, <2>4 DEF Sold
<1> HIDE DEF old, new
<1>12. Holder' = [p \in Events \X Seats |->
                    IF p[1] = e /\ p[2] \in S THEN r ELSE Inventory!After(R)[p]]
  BY <1>5, <1>8, <1>9, <1>10
<1> HIDE DEF e, S
<1>13. Inventory!Lock(r, e, S, R)
  BY <1>1, <1>3, <1>5, <1>6, <1>7, <1>11, <1>12 DEF Inventory!Lock
<1> QED
  BY <1>1, <1>2, <1>13 DEF Inventory!Next

\* Whatever changes the tables as the service does changes the inventory as it may.
LEMMA InventoryStep ==
  ASSUME Strong, TablesStep
  PROVE  [Inventory!Next]_(Inventory!vars)
<1>1. CASE UNCHANGED tables
  BY <1>1 DEF tables, Inventory!vars, Holder, Sold, Stored
<1> QED
  BY <1>1, EndsRefines, ConfirmsRefines, InsertsRefines DEF TablesStep

\* Empty tables are an inventory without holders.
LEMMA InventoryInitially ==
  ASSUME Init
  PROVE  Inventory!Init /\ SomethingGranted
BY DEF Init, Inventory!Init, Holder, HolderIn, Sold, Stored, SomethingGranted

\* The reservation service implements the seat inventory.
THEOREM Refinement == Spec => ImplementsSeatInventory
<1>1. Init => Inventory!Init
  BY InventoryInitially
<1>2. TypeOK /\ Strong /\ [Next]_vars => [Inventory!Next]_(Inventory!vars)
  BY TableSteps, InventoryStep
<1> QED
  BY <1>1, <1>2, TypeInvariance, StrongInvariant, PTL
     DEF Spec, ImplementsSeatInventory, Inventory!Spec
=============================================================================
