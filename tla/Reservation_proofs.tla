------------------------- MODULE Reservation_proofs -------------------------
(***************************************************************************)
(* Theorems about Reservation, for any number of threads, reservations,    *)
(* events, seats and keys, any TTL and any clock.                          *)
(***************************************************************************)
EXTENDS Reservation, IsoTime_proofs

\* The step a call is at tells what it carries with it.
LEMMA CallKinds ==
  ASSUME NEW c \in Call
  PROVE  /\ c.pc = "lock_seats" => c \in LockSeatsCall
         /\ c.pc = "confirm" => c \in ConfirmCall
         /\ c.pc = "release" => c \in ReleaseCall
         /\ c.pc = "expire_due" => c \in ExpireDueCall
         /\ c.pc = "announce" => c \in AnnounceCall
         /\ c.pc = "seat_statuses" => c \in SeatStatusesCall
         /\ c.pc = "read_seats" => c \in ReadSeatsCall
         /\ c.pc = "publish" => c \in PublishCall
         /\ c.pc = "get" => c \in GetCall
         /\ c.pc = "get_seats" => c \in GetSeatsCall
         /\ c.pc = "return" => c \in ReturnCall
<1>1. /\ \A x \in LockSeatsCall : x.pc = "lock_seats"
      /\ \A x \in ConfirmCall : x.pc = "confirm"
      /\ \A x \in ReleaseCall : x.pc = "release"
      /\ \A x \in ExpireDueCall : x.pc = "expire_due"
      /\ \A x \in AnnounceCall : x.pc = "announce"
      /\ \A x \in SeatStatusesCall : x.pc = "seat_statuses"
      /\ \A x \in ReadSeatsCall : x.pc = "read_seats"
  BY DEF LockSeatsCall, ConfirmCall, ReleaseCall, ExpireDueCall, AnnounceCall,
         SeatStatusesCall, ReadSeatsCall
<1>2. /\ \A x \in PublishCall : x.pc = "publish"
      /\ \A x \in GetCall : x.pc = "get"
      /\ \A x \in GetSeatsCall : x.pc = "get_seats"
      /\ \A x \in ReturnCall : x.pc = "return"
      /\ \A x \in ReturnSeatsCall : x.pc = "return_seats"
      /\ \A x \in RaiseCall : x.pc = "raise"
      /\ Idle.pc = "idle"
  BY DEF PublishCall, GetCall, GetSeatsCall, ReturnCall, ReturnSeatsCall, RaiseCall, Idle
<1> QED
  BY <1>1, <1>2 DEF Call

-----------------------------------------------------------------------------
(* What a step can do to the two tables. *)

Pending == {r \in Stored : reservations[r].status = "PENDING"}

\* The calls that have read the clock and not yet used it.
Timed == {"lock_seats", "confirm", "expire_due", "seat_statuses"}

\* Some call takes the reservations in R for overdue, by the text of their
\* expiry or by the instant.
Overdue(R) ==
  \E t \in Threads :
    /\ call[t].pc \in Timed
    /\ \A r \in R : \/ r \in Due(call[t].now)
                     \/ FromIsoFormat(reservations[r].expires_at) <= call[t].now

\* The reservations in R end, and lose their seats.
Ends(R, status) ==
  /\ R \subseteq Pending
  /\ status \in {"EXPIRED", "CANCELLED"}
  /\ status = "EXPIRED" => Overdue(R)
  /\ reservations' = WithStatus(R, status)
  /\ reservation_seats' = SeatRowsWithout(R)

Confirms(r) ==
  /\ r \in Pending
  /\ reservations' = WithStatus({r}, "CONFIRMED")
  /\ UNCHANGED reservation_seats

\* A new reservation r with the given row, after those in R expired.
Inserts(r, row, R) ==
  /\ R \subseteq Pending
  /\ Overdue(R)
  /\ r \in ReservationIds \ Stored
  /\ row \in Row
  /\ RowsWithKey(row.key) = {}
  /\ \E n \in Nat : row.expires_at = IsoFormat(n)
  /\ row.status = "PENDING"
  /\ row.granted # {}
  /\ ~Taken(row.event, row.granted, R)
  /\ reservations' = [i \in Stored \cup {r} |->
                        IF i = r THEN row ELSE WithStatus(R, "EXPIRED")[i]]
  /\ reservation_seats' = SeatRowsWithout(R) \cup SeatRowsFor(r, row.event, row.granted)

TablesStep ==
  \/ UNCHANGED tables
  \/ \E R \in SUBSET Stored, status \in Statuses : Ends(R, status)
  \/ \E r \in Stored : Confirms(r)
  \/ \E r \in ReservationIds, row \in Row, R \in SUBSET Stored : Inserts(r, row, R)

\* Only pending reservations are swept.
LEMMA DueArePending ==
  ASSUME NEW now
  PROVE  Due(now) \subseteq Pending /\ Due(now) \in SUBSET Stored
BY DEF Due, Pending

\* The time at which a new lock ends is well formed.
LEMMA ExpiresAtType ==
  ASSUME NEW now \in Nat
  PROVE  IsoFormat(now + TTL) \in IsoText
<1>1. now + TTL \in Nat
  BY TTLAssumption
<1> QED
  BY <1>1, IsoFormatType

\* A granted lock inserts a reservation after a sweep.
LEMMA LockSeatsTables ==
  ASSUME TypeOK, NEW t \in Threads, LockSeatsGranted(t)
  PROVE  \E r \in ReservationIds, row \in Row, R \in SUBSET Stored : Inserts(r, row, R)
<1> DEFINE c == call[t]
           R == Due(c.now)
           row == [event |-> c.event, status |-> "PENDING", expires_at |-> IsoFormat(c.now + TTL),
                   key |-> c.key, granted |-> c.seats]
<1>1. c \in LockSeatsCall
  BY CallKinds DEF TypeOK, LockSeatsGranted
<1>2. /\ c.key \in Keys /\ c.event \in Events /\ c.now \in Nat
      /\ c.seats \in SUBSET Seats /\ c.seats # {}
  BY <1>1 DEF LockSeatsCall
<1>3. row \in Row
  BY <1>2, ExpiresAtType DEF Row, Statuses
<1>4. R \subseteq Pending /\ R \in SUBSET Stored
  BY DueArePending
<1>5. PICK r \in ReservationIds \ Stored :
        /\ reservations' = [i \in Stored \cup {r} |->
                              IF i = r THEN row ELSE WithStatus(R, "EXPIRED")[i]]
        /\ reservation_seats' = SeatRowsWithout(R) \cup SeatRowsFor(r, c.event, c.seats)
  BY DEF LockSeatsGranted
<1>6. ~Taken(row.event, row.granted, R) /\ RowsWithKey(row.key) = {}
  BY DEF LockSeatsGranted
<1>7. row.event = c.event /\ row.granted = c.seats /\ row.status = "PENDING"
  OBVIOUS
<1>8. Overdue(R)
  BY DEF LockSeatsGranted, Overdue, Timed
<1>9. \E n \in Nat : row.expires_at = IsoFormat(n)
  <2>1. c.now + TTL \in Nat
    BY <1>2, TTLAssumption
  <2> QED
    BY <2>1
<1> HIDE DEF row, R
<1>10. Inserts(r, row, R)
  BY <1>2, <1>3, <1>4, <1>5, <1>6, <1>7, <1>8, <1>9 DEF Inserts
<1> QED
  BY <1>3, <1>4, <1>5, <1>10

\* Every step leaves the tables alone, ends reservations, confirms one or
\* inserts one.
LEMMA TableSteps ==
  ASSUME TypeOK, [Next]_vars
  PROVE  TablesStep
<1> USE DEF TablesStep
<1>1. CASE UNCHANGED vars
  BY <1>1 DEF vars, tables
<1>2. CASE Tick
  BY <1>2 DEF Tick
<1>3. ASSUME NEW t \in Threads, BeginCall(t) \/ Return(t)
      PROVE  TablesStep
  BY <1>3 DEF BeginCall, BeginLockSeats, BeginConfirm, BeginRelease, BeginExpireDue,
              BeginSeatStatuses, BeginGet, Begin, Continue, Return
<1>4. ASSUME NEW t \in Threads, LockSeats(t)
      PROVE  TablesStep
  <2>1. CASE LockSeatsRetried(t)
    BY <2>1, DueArePending DEF LockSeatsRetried, Ends, Statuses, Overdue, Timed
  <2>2. CASE LockSeatsRefused(t)
    BY <2>2 DEF LockSeatsRefused, Continue
  <2>3. CASE LockSeatsGranted(t)
    BY <2>3, LockSeatsTables
  <2> QED
    BY <1>4, <2>1, <2>2, <2>3 DEF LockSeats
<1>5. ASSUME NEW t \in Threads, Confirm(t)
      PROVE  TablesStep
  <2>1. CASE ConfirmUnknown(t) \/ ConfirmAgain(t) \/ ConfirmRefused(t)
    BY <2>1 DEF ConfirmUnknown, ConfirmAgain, ConfirmRefused, Continue
  <2>2. CASE ConfirmOverdue(t)
    <3>1. Ends({call[t].rid}, "EXPIRED")
      BY <2>2 DEF ConfirmOverdue, Ends, Pending, Overdue, Timed
    <3> QED
      BY <2>2, <3>1 DEF ConfirmOverdue, Statuses
  <2>3. CASE ConfirmGranted(t)
    <3>1. Confirms(call[t].rid)
      BY <2>3 DEF ConfirmGranted, Confirms, Pending
    <3> QED
      BY <2>3, <3>1 DEF ConfirmGranted
  <2> QED
    BY <1>5, <2>1, <2>2, <2>3 DEF Confirm
<1>6. ASSUME NEW t \in Threads, Release(t)
      PROVE  TablesStep
  <2>1. CASE ReleaseUnknown(t) \/ ReleaseRefused(t) \/ ReleaseAgain(t)
    BY <2>1 DEF ReleaseUnknown, ReleaseRefused, ReleaseAgain, Continue
  <2>2. CASE ReleaseHeld(t)
    <3>1. Ends({call[t].rid}, "CANCELLED")
      BY <2>2 DEF ReleaseHeld, Ends, Pending
    <3> QED
      BY <2>2, <3>1 DEF ReleaseHeld, Statuses
  <2> QED
    BY <1>6, <2>1, <2>2 DEF Release
<1>7. ASSUME NEW t \in Threads, ExpireDue(t) \/ SeatStatuses(t)
      PROVE  TablesStep
  BY <1>7, DueArePending DEF ExpireDue, SeatStatuses, Ends, Statuses, Overdue, Timed
<1>8. ASSUME NEW t \in Threads, Announce(t) \/ ReadSeats(t) \/ PublishEvent(t) \/ Get(t)
      PROVE  TablesStep
  BY <1>8 DEF Announce, ReadSeats, PublishEvent, Get, GetUnknown, GetRow, GetSeats, Continue
<1> QED
  BY <1>1, <1>2, <1>3, <1>4, <1>5, <1>6, <1>7, <1>8 DEF Next, Step

-----------------------------------------------------------------------------
(* Types. *)

TablesOK ==
  /\ DOMAIN reservations \subseteq ReservationIds
  /\ reservations \in [DOMAIN reservations -> Row]
  /\ reservation_seats \subseteq SeatRow

\* Writing a status keeps the rows well formed.
LEMMA WithStatusType ==
  ASSUME TablesOK, NEW R, NEW status \in Statuses
  PROVE  /\ WithStatus(R, status) \in [Stored -> Row]
         /\ \A r \in Stored : WithStatus(R, status)[r].status \in Statuses
BY DEF TablesOK, WithStatus, Stored, Row

\* The tables stay well formed.
LEMMA TablesTypeStep ==
  ASSUME TablesOK, TablesStep
  PROVE  TablesOK'
<1>1. CASE UNCHANGED tables
  BY <1>1 DEF TablesOK, tables
<1>2. ASSUME NEW R \in SUBSET Stored, NEW status \in Statuses, Ends(R, status)
      PROVE  TablesOK'
  BY <1>2, WithStatusType DEF Ends, TablesOK, SeatRowsWithout, Stored
<1>3. ASSUME NEW r \in Stored, Confirms(r)
      PROVE  TablesOK'
  BY <1>3, WithStatusType DEF Confirms, TablesOK, Stored, Statuses
<1>4. ASSUME NEW r \in ReservationIds, NEW row \in Row, NEW R \in SUBSET Stored,
             Inserts(r, row, R)
      PROVE  TablesOK'
  <2>1. WithStatus(R, "EXPIRED") \in [Stored -> Row]
    BY WithStatusType DEF Statuses
  <2>2. reservations' \in [Stored \cup {r} -> Row]
    BY <1>4, <2>1 DEF Inserts
  <2>3. SeatRowsFor(r, row.event, row.granted) \subseteq SeatRow
    BY DEF SeatRowsFor, SeatRow, Row
  <2>4. Stored \cup {r} \subseteq ReservationIds
    BY DEF TablesOK, Stored
  <2> QED
    BY <1>4, <2>2, <2>3, <2>4 DEF Inserts, TablesOK, SeatRowsWithout
<1> QED
  BY <1>1, <1>2, <1>3, <1>4 DEF TablesStep

\* The seats of a reservation are seats.
LEMMA SeatsOfType ==
  ASSUME TablesOK, NEW r
  PROVE  SeatsOf(r) \in SUBSET Seats
BY DEF TablesOK, SeatsOf, SeatRow

\* A reply read inside the write lock is a call at its return.
LEMMA ReplyType ==
  ASSUME TablesOK, NEW r \in Stored, NEW k \in AnyKey, NEW R
  PROVE  Reply(r, k, R) \in Call
<1>1. WithStatus(R, "EXPIRED")[r].status \in Statuses
  BY WithStatusType DEF Statuses
<1>2. (IF r \in R THEN {} ELSE SeatsOf(r)) \in SUBSET Seats
  BY SeatsOfType
<1>3. r \in ReservationIds
  BY DEF TablesOK, Stored
<1> QED
  BY <1>1, <1>2, <1>3 DEF Reply, Call, ReturnCall

\* An exception is a call at its end.
LEMMA RaiseType ==
  ASSUME NEW error \in Errors
  PROVE  Raise(error) \in Call
BY DEF Raise, Call, RaiseCall

\* A call that is about to publish is well formed.
LEMMA PublishType ==
  ASSUME NEW type \in EventTypes, NEW r \in ReservationIds, NEW k \in AnyKey
  PROVE  Publish(type, r, k) \in Call
BY DEF Publish, Call, PublishCall

\* What is left of TypeOK once the tables are done.
CallsOK ==
  /\ clock \in Nat
  /\ call \in [Threads -> Call]
  /\ published \subseteq EventTypes \X ReservationIds
  /\ answers \subseteq Keys \X ReservationIds

\* Type correctness is that of the tables and that of the rest.
LEMMA TypeParts == TypeOK <=> TablesOK /\ CallsOK
BY DEF TypeOK, TablesOK, CallsOK

\* A step that moves one thread only.
LEMMA ThreadMoves ==
  ASSUME CallsOK, NEW t, NEW c \in Call,
         call' = [call EXCEPT ![t] = c], UNCHANGED <<clock, published, answers>>
  PROVE  CallsOK'
BY DEF CallsOK

\* Calls begin well formed.
LEMMA BeginTypes ==
  ASSUME TypeOK, NEW t \in Threads, BeginCall(t)
  PROVE  CallsOK'
<1> USE TypeParts
<1>1. Known \subseteq Ids
  BY DEF TypeOK, Known, Ids
<1>2. clock \in Nat
  BY DEF TypeOK
<1>3. ASSUME NEW c \in Call, NEW op, Begin(t, op, c)
      PROVE  CallsOK'
  BY <1>3, ThreadMoves DEF Begin, Continue
<1>4. CASE BeginLockSeats(t)
  <2>1. PICK k \in Keys, e \in Events, S \in SUBSET Seats :
          Begin(t, "lock_seats",
                IF S = {} THEN Raise("ValueError")
                ELSE [pc |-> "lock_seats", key |-> k, event |-> e, seats |-> S, now |-> clock])
    BY <1>4 DEF BeginLockSeats
  <2>2. S # {} => [pc |-> "lock_seats", key |-> k, event |-> e, seats |-> S, now |-> clock] \in Call
    BY <1>2 DEF Call, LockSeatsCall
  <2>3. Raise("ValueError") \in Call
    BY RaiseType DEF Errors
  <2> QED
    BY <1>3, <2>1, <2>2, <2>3
<1>5. ASSUME NEW r \in Known, BeginConfirm(t, r)
      PROVE  CallsOK'
  <2>1. [pc |-> "confirm", rid |-> r, now |-> clock] \in Call
    BY <1>1, <1>2 DEF Call, ConfirmCall
  <2> QED
    BY <1>3, <1>5, <2>1 DEF BeginConfirm
<1>6. ASSUME NEW r \in Known, BeginRelease(t, r)
      PROVE  CallsOK'
  <2>1. [pc |-> "release", rid |-> r] \in Call
    BY <1>1 DEF Call, ReleaseCall
  <2> QED
    BY <1>3, <1>6, <2>1 DEF BeginRelease
<1>7. ASSUME NEW r \in Known, BeginGet(t, r)
      PROVE  CallsOK'
  <2>1. [pc |-> "get", rid |-> r, key |-> NoKey] \in Call
    BY <1>1 DEF Call, GetCall, AnyKey
  <2> QED
    BY <1>3, <1>7, <2>1 DEF BeginGet
<1>8. CASE BeginExpireDue(t)
  <2>1. [pc |-> "expire_due", now |-> clock] \in Call
    BY <1>2 DEF Call, ExpireDueCall
  <2> QED
    BY <1>3, <1>8, <2>1 DEF BeginExpireDue
<1>9. CASE BeginSeatStatuses(t)
  <2>1. PICK e \in Events : Begin(t, "seat_statuses", [pc |-> "seat_statuses", event |-> e, now |-> clock])
    BY <1>9 DEF BeginSeatStatuses
  <2>2. [pc |-> "seat_statuses", event |-> e, now |-> clock] \in Call
    BY <1>2 DEF Call, SeatStatusesCall
  <2> QED
    BY <1>3, <2>1, <2>2
<1> QED
  BY <1>4, <1>5, <1>6, <1>7, <1>8, <1>9 DEF BeginCall

\* lock_seats keeps calls well formed.
LEMMA LockSeatsTypes ==
  ASSUME TypeOK, NEW t \in Threads, LockSeats(t)
  PROVE  CallsOK'
<1> USE TypeParts
<1>1. call[t] \in LockSeatsCall
  BY CallKinds DEF TypeOK, LockSeats, LockSeatsRetried, LockSeatsRefused, LockSeatsGranted
<1>2. call[t].key \in AnyKey
  BY <1>1 DEF LockSeatsCall, AnyKey
<1>3. CASE LockSeatsRetried(t)
  <2>1. PICK r \in RowsWithKey(call[t].key) :
          Committed(t, Reply(r, call[t].key, Due(call[t].now)))
    BY <1>3 DEF LockSeatsRetried
  <2>2. r \in Stored
    BY DEF RowsWithKey
  <2> QED
    BY <1>2, <2>1, <2>2, ReplyType, ThreadMoves DEF Committed
<1>4. CASE LockSeatsRefused(t)
  BY <1>4, RaiseType, ThreadMoves DEF LockSeatsRefused, Continue, Errors
<1>5. CASE LockSeatsGranted(t)
  <2>1. PICK r \in ReservationIds : Committed(t, Publish("ReservationCreated", r, call[t].key))
    BY <1>5 DEF LockSeatsGranted
  <2>2. Publish("ReservationCreated", r, call[t].key) \in Call
    BY <1>2, PublishType DEF EventTypes
  <2> QED
    BY <2>1, <2>2, ThreadMoves DEF Committed
<1> QED
  BY <1>3, <1>4, <1>5 DEF LockSeats

\* confirm keeps calls well formed.
LEMMA ConfirmTypes ==
  ASSUME TypeOK, NEW t \in Threads, Confirm(t)
  PROVE  CallsOK'
<1> USE TypeParts
<1>1. Raise("ReservationNotFound") \in Call /\ Raise("InvalidReservationState") \in Call
  BY RaiseType DEF Errors
<1>2. CASE ConfirmUnknown(t)
  BY <1>1, <1>2, ThreadMoves DEF ConfirmUnknown, Continue
<1>3. CASE ConfirmAgain(t)
  BY <1>3, ReplyType, ThreadMoves DEF ConfirmAgain, Continue, AnyKey
<1>4. CASE ConfirmOverdue(t)
  BY <1>1, <1>4, ThreadMoves DEF ConfirmOverdue, Committed
<1>5. CASE ConfirmRefused(t)
  BY <1>1, <1>5, ThreadMoves DEF ConfirmRefused, Continue
<1>6. CASE ConfirmGranted(t)
  <2>1. call[t].rid \in ReservationIds
    BY <1>6 DEF ConfirmGranted, Stored, TypeOK
  <2>2. Publish("ReservationConfirmed", call[t].rid, NoKey) \in Call
    BY <2>1, PublishType DEF EventTypes, AnyKey
  <2> QED
    BY <1>6, <2>2, ThreadMoves DEF ConfirmGranted, Committed
<1> QED
  BY <1>2, <1>3, <1>4, <1>5, <1>6 DEF Confirm, ConfirmUnknown, ConfirmRefused

\* release keeps calls well formed.
LEMMA ReleaseTypes ==
  ASSUME TypeOK, NEW t \in Threads, Release(t)
  PROVE  CallsOK'
<1> USE TypeParts
<1>1. Raise("ReservationNotFound") \in Call /\ Raise("InvalidReservationState") \in Call
  BY RaiseType DEF Errors
<1>2. CASE ReleaseUnknown(t)
  BY <1>1, <1>2, ThreadMoves DEF ReleaseUnknown, Continue
<1>3. CASE ReleaseRefused(t)
  BY <1>1, <1>3, ThreadMoves DEF ReleaseRefused, Continue
<1>4. CASE ReleaseHeld(t) \/ ReleaseAgain(t)
  <2>1. call[t].rid \in ReservationIds
    BY <1>4 DEF ReleaseHeld, ReleaseAgain, Stored, TypeOK
  <2>2. Publish("ReservationReleased", call[t].rid, NoKey) \in Call
    BY <2>1, PublishType DEF EventTypes, AnyKey
  <2> QED
    BY <1>4, <2>2, ThreadMoves DEF ReleaseHeld, ReleaseAgain, Continue, Committed
<1> QED
  BY <1>2, <1>3, <1>4 DEF Release

\* expire_due and seat_statuses keep calls, events and replies well formed.
LEMMA SweepTypes ==
  ASSUME TypeOK, NEW t \in Threads,
         ExpireDue(t) \/ Announce(t) \/ SeatStatuses(t) \/ ReadSeats(t)
  PROVE  CallsOK'
<1> USE TypeParts
<1>1. CASE ExpireDue(t)
  <2>1. [pc |-> "announce", rids |-> Due(call[t].now)] \in Call
    BY DueArePending DEF Call, AnnounceCall, TypeOK, Stored
  <2> QED
    BY <1>1, <2>1, ThreadMoves DEF ExpireDue, Committed
<1>2. CASE Announce(t)
  <2>1. call[t] \in AnnounceCall
    BY <1>2, CallKinds DEF TypeOK, Announce
  <2>2. PICK r \in call[t].rids :
          /\ published' = published \cup {<<"ReservationExpired", r>>}
          /\ call' = [call EXCEPT ![t] = [call[t] EXCEPT !.rids = call[t].rids \ {r}]]
    BY <1>2 DEF Announce
  <2> DEFINE c == [call[t] EXCEPT !.rids = call[t].rids \ {r}]
  <2>3. c \in Call
    BY <2>1 DEF AnnounceCall, Call
  <2>4. r \in ReservationIds
    BY <2>1 DEF AnnounceCall
  <2>5. UNCHANGED <<clock, answers>>
    BY <1>2 DEF Announce
  <2>6. call' = [call EXCEPT ![t] = c]
    BY <2>2
  <2> HIDE DEF c
  <2> QED
    BY <2>2, <2>3, <2>4, <2>5, <2>6 DEF CallsOK, EventTypes
<1>3. CASE SeatStatuses(t)
  <2>1. call[t].event \in Events
    BY <1>3, CallKinds DEF TypeOK, SeatStatuses, SeatStatusesCall
  <2>2. [pc |-> "read_seats", event |-> call[t].event] \in Call
    BY <2>1 DEF Call, ReadSeatsCall
  <2> QED
    BY <1>3, <2>2, ThreadMoves DEF SeatStatuses, Committed
<1>4. CASE ReadSeats(t)
  <2>1. call[t].event \in Events
    BY <1>4, CallKinds DEF TypeOK, ReadSeats, ReadSeatsCall
  <2>2. \A e, status : SeatsWithStatus(e, status) \in SUBSET Seats
    BY DEF TypeOK, SeatsWithStatus, SeatRow
  <2>3. [pc |-> "return_seats", event |-> call[t].event,
         locked |-> SeatsWithStatus(call[t].event, "PENDING"),
         booked |-> SeatsWithStatus(call[t].event, "CONFIRMED")] \in Call
    BY <2>1, <2>2 DEF Call, ReturnSeatsCall
  <2> QED
    BY <1>4, <2>3, ThreadMoves DEF ReadSeats, Continue
<1> QED
  BY <1>1, <1>2, <1>3, <1>4

\* publish, get and the reply keep calls, events and answers well formed.
LEMMA ReplyTypes ==
  ASSUME TypeOK, NEW t \in Threads, PublishEvent(t) \/ Get(t) \/ Return(t)
  PROVE  CallsOK'
<1> USE TypeParts
<1>1. CASE PublishEvent(t)
  <2>1. call[t] \in PublishCall
    BY <1>1, CallKinds DEF TypeOK, PublishEvent
  <2>2. [pc |-> "get", rid |-> call[t].rid, key |-> call[t].key] \in Call
    BY <2>1 DEF PublishCall, Call, GetCall, Ids
  <2> QED
    BY <1>1, <2>1, <2>2 DEF PublishEvent, PublishCall, CallsOK
<1>2. CASE GetUnknown(t)
  BY <1>2, RaiseType, ThreadMoves DEF GetUnknown, Continue, Errors
<1>3. CASE GetRow(t)
  <2>1. call[t] \in GetCall
    BY <1>3, CallKinds DEF TypeOK, GetRow
  <2>2. reservations[call[t].rid].status \in Statuses /\ call[t].rid \in ReservationIds
    BY <1>3 DEF TypeOK, Row, GetRow, Stored
  <2>3. [pc |-> "get_seats", rid |-> call[t].rid, key |-> call[t].key,
         status |-> reservations[call[t].rid].status] \in Call
    BY <2>1, <2>2 DEF GetCall, GetSeatsCall, Call
  <2> QED
    BY <1>3, <2>3, ThreadMoves DEF GetRow, Continue
<1>4. CASE GetSeats(t)
  <2>1. call[t] \in GetSeatsCall
    BY <1>4, CallKinds DEF TypeOK, GetSeats
  <2>2. SeatsOf(call[t].rid) \in SUBSET Seats
    BY SeatsOfType
  <2>3. [pc |-> "return", rid |-> call[t].rid, key |-> call[t].key,
         status |-> call[t].status, seats |-> SeatsOf(call[t].rid)] \in Call
    BY <2>1, <2>2 DEF GetSeatsCall, ReturnCall, Call
  <2> QED
    BY <1>4, <2>3, ThreadMoves DEF GetSeats, Continue
<1>5. CASE Return(t)
  <2>1. Idle \in Call
    BY DEF Call
  <2>2. call[t].pc = "return" /\ call[t].key # NoKey => <<call[t].key, call[t].rid>> \in Keys \X ReservationIds
    BY CallKinds DEF TypeOK, ReturnCall, AnyKey
  <2> QED
    BY <1>5, <2>1, <2>2 DEF Return, CallsOK
<1> QED
  BY <1>1, <1>2, <1>3, <1>4, <1>5 DEF Get

\* Every step keeps the types.
LEMMA TypeStep ==
  ASSUME TypeOK, [Next]_vars
  PROVE  TypeOK'
<1> USE TypeParts
<1>1. TablesOK'
  BY TableSteps, TablesTypeStep
<1>2. CASE UNCHANGED vars
  BY <1>1, <1>2 DEF vars, CallsOK, TablesOK, TypeOK
<1>3. CASE Tick
  BY <1>1, <1>3 DEF Tick, CallsOK, TablesOK, TypeOK
<1>4. ASSUME NEW t \in Threads, BeginCall(t) \/ Step(t) \/ Return(t)
      PROVE  CallsOK'
  BY <1>4, BeginTypes, LockSeatsTypes, ConfirmTypes, ReleaseTypes, SweepTypes, ReplyTypes DEF Step
<1>5. CallsOK' => TypeOK'
  BY <1>1 DEF TablesOK, CallsOK, TypeOK
<1> QED
  BY <1>2, <1>3, <1>4, <1>5 DEF Next

\* Every state is well typed.
THEOREM TypeInvariance == Spec => []TypeOK
<1>1. Init => TypeOK
  BY DEF Init, TypeOK, Call
<1> QED
  BY <1>1, TypeStep, PTL DEF Spec

-----------------------------------------------------------------------------
(* The integrity of the seats.  SeatLedger is almost inductive: that a new  *)
(* reservation does not share seats needs the rows to be unique, which is   *)
(* what the index one_active_owner_per_event_seat enforces.                 *)

SeatsUnique ==
  \A x, y \in reservation_seats : x.event = y.event /\ x.seat = y.seat => x = y

Integrity == TablesOK /\ SeatLedger /\ SeatsUnique

\* Statuses after a statement that writes the rows in R.
LEMMA WithStatusRows ==
  ASSUME TablesOK, NEW R \in SUBSET Stored, NEW status \in Statuses, NEW r \in Stored
  PROVE  /\ WithStatus(R, status)[r].status = IF r \in R THEN status ELSE reservations[r].status
         /\ WithStatus(R, status)[r].event = reservations[r].event
         /\ WithStatus(R, status)[r].granted = reservations[r].granted
BY DEF TablesOK, WithStatus, Stored, Row

\* Ending reservations keeps the ledger and the uniqueness of the rows.
LEMMA EndsKeepsIntegrity ==
  ASSUME Integrity, NEW R \in SUBSET Stored, NEW status \in Statuses, Ends(R, status)
  PROVE  SeatLedger' /\ SeatsUnique'
<1> USE DEF Integrity
<1>1. Stored' = Stored
  BY DEF Ends, WithStatus, Stored
<1>2. \A r \in Stored :
        /\ reservations'[r].status = IF r \in R THEN status ELSE reservations[r].status
        /\ reservations'[r].event = reservations[r].event
        /\ reservations'[r].granted = reservations[r].granted
  BY WithStatusRows DEF Ends
<1>3. \A r : SeatsOf(r)' = IF r \in R THEN {} ELSE SeatsOf(r)
  BY DEF Ends, SeatsOf, SeatRowsWithout
<1>4. SeatLedger'
  BY <1>1, <1>2, <1>3 DEF SeatLedger, Ends, Live, SeatRowsWithout
<1>5. SeatsUnique'
  BY DEF SeatsUnique, Ends, SeatRowsWithout
<1> QED
  BY <1>4, <1>5

\* So does a confirmation, which leaves the rows alone.
LEMMA ConfirmsKeepsIntegrity ==
  ASSUME Integrity, NEW r \in Stored, Confirms(r)
  PROVE  SeatLedger' /\ SeatsUnique'
<1> USE DEF Integrity
<1>1. Stored' = Stored
  BY DEF Confirms, WithStatus, Stored
<1>2. \A q \in Stored :
        /\ reservations'[q].status = IF q = r THEN "CONFIRMED" ELSE reservations[q].status
        /\ reservations'[q].event = reservations[q].event
        /\ reservations'[q].granted = reservations[q].granted
  BY WithStatusRows DEF Confirms, Statuses
<1>3. \A q : SeatsOf(q)' = SeatsOf(q)
  BY DEF Confirms, SeatsOf
<1>4. SeatLedger'
  BY <1>1, <1>2, <1>3 DEF SeatLedger, Confirms, Pending, Live
<1>5. SeatsUnique'
  BY DEF SeatsUnique, Confirms
<1> QED
  BY <1>4, <1>5

\* So does an insertion, because of the index.
LEMMA InsertsKeepsIntegrity ==
  ASSUME Integrity, NEW r \in ReservationIds, NEW row \in Row, NEW R \in SUBSET Stored,
         Inserts(r, row, R)
  PROVE  SeatLedger' /\ SeatsUnique'
<1> USE DEF Integrity
<1> DEFINE new == SeatRowsFor(r, row.event, row.granted)
<1>1. Stored' = Stored \cup {r} /\ r \notin Stored
  BY DEF Inserts, Stored
<1>2. reservations'[r] = row /\ row.status \in Live
  BY <1>1 DEF Inserts, Live
<1>3. \A q \in Stored :
        /\ reservations'[q].status = IF q \in R THEN "EXPIRED" ELSE reservations[q].status
        /\ reservations'[q].event = reservations[q].event
        /\ reservations'[q].granted = reservations[q].granted
  <2> SUFFICES ASSUME NEW q \in Stored
               PROVE  reservations'[q] = WithStatus(R, "EXPIRED")[q]
    BY WithStatusRows DEF Statuses
  <2> QED
    BY <1>1 DEF Inserts
<1>4. \A x \in new : x.reservation = r /\ x.event = row.event /\ x.seat \in row.granted
  BY DEF SeatRowsFor
<1>5. \A s \in row.granted : \E x \in new : x.seat = s
  <2> SUFFICES ASSUME NEW s \in row.granted
               PROVE  \E x \in new : x.seat = s
    OBVIOUS
  <2>1. [reservation |-> r, event |-> row.event, seat |-> s] \in new
    BY DEF SeatRowsFor
  <2> QED
    BY <2>1
<1>6. reservation_seats' = SeatRowsWithout(R) \cup new
  BY DEF Inserts
<1>7. \A x \in SeatRowsWithout(R) : x \in reservation_seats /\ x.reservation \in Stored
  BY DEF SeatRowsWithout, SeatLedger
<1>8. SeatsOf(r)' = row.granted
  BY <1>1, <1>4, <1>5, <1>6, <1>7 DEF SeatsOf
<1>9. \A q \in Stored : SeatsOf(q)' = IF q \in R THEN {} ELSE SeatsOf(q)
  BY <1>1, <1>4, <1>6 DEF SeatsOf, SeatRowsWithout
<1> HIDE DEF new
<1>10. \A q \in Stored' :
         SeatsOf(q)' = IF reservations'[q].status \in Live THEN reservations'[q].granted ELSE {}
  <2>1. "EXPIRED" \notin Live
    BY DEF Live
  <2> QED
    BY <1>1, <1>2, <1>3, <1>8, <1>9, <2>1 DEF SeatLedger
<1>11. \A x \in reservation_seats' :
         x.reservation \in Stored' /\ x.event = reservations'[x.reservation].event
  BY <1>1, <1>2, <1>3, <1>4, <1>6, <1>7 DEF SeatLedger
<1>12. SeatLedger'
  BY <1>10, <1>11 DEF SeatLedger
<1>13. ASSUME NEW x \in new, NEW y \in SeatRowsWithout(R)
       PROVE  ~(x.event = y.event /\ x.seat = y.seat)
  BY <1>4, <1>13 DEF Inserts, Taken
<1>14. \A x, y \in new : x.seat = y.seat => x = y
  BY DEF new, SeatRowsFor
<1>15. SeatsUnique'
  BY <1>6, <1>7, <1>13, <1>14 DEF SeatsUnique
<1> QED
  BY <1>12, <1>15

\* Every step keeps the integrity of the seats.
LEMMA IntegrityStep ==
  ASSUME TypeOK, Integrity, [Next]_vars
  PROVE  Integrity'
<1>1. TablesStep
  BY TableSteps
<1>2. TablesOK'
  BY <1>1, TablesTypeStep DEF Integrity
<1>3. CASE UNCHANGED tables
  BY <1>2, <1>3 DEF tables, Integrity, SeatLedger, SeatsUnique, SeatsOf, Stored
<1> QED
  BY <1>1, <1>2, <1>3, EndsKeepsIntegrity, ConfirmsKeepsIntegrity, InsertsKeepsIntegrity
     DEF TablesStep, Integrity

\* The inductive invariant holds in every reachable state.
LEMMA IntegrityInvariant == Spec => []Integrity
<1>1. Init => Integrity
  BY DEF Init, Integrity, TablesOK, SeatLedger, SeatsUnique, SeatsOf, Stored
<1>2. TypeOK /\ Integrity /\ [Next]_vars => Integrity'
  BY IntegrityStep
<1> QED
  BY <1>1, <1>2, TypeInvariance, PTL DEF Spec

\* The status column and the seat rows always agree.
THEOREM LedgerIsKept == Spec => []SeatLedger
BY IntegrityInvariant, PTL DEF Integrity

\* The seat rows of two reservations keep their seats apart.
LEMMA SeatsAreApart ==
  ASSUME Integrity
  PROVE  NoDoubleBooking
<1> SUFFICES ASSUME NEW r \in Stored, NEW q \in Stored, r # q,
                    reservations[r].event = reservations[q].event,
                    reservations[r].status \in Live, reservations[q].status \in Live,
                    NEW s \in reservations[r].granted \cap reservations[q].granted
             PROVE  FALSE
  BY DEF NoDoubleBooking
<1>1. s \in SeatsOf(r) /\ s \in SeatsOf(q)
  BY DEF Integrity, SeatLedger
<1>2. PICK x \in reservation_seats : x.reservation = r /\ x.seat = s
  BY <1>1 DEF SeatsOf
<1>3. PICK y \in reservation_seats : y.reservation = q /\ y.seat = s
  BY <1>1 DEF SeatsOf
<1>4. x.event = y.event
  BY <1>2, <1>3 DEF Integrity, SeatLedger
<1> QED
  BY <1>2, <1>3, <1>4 DEF Integrity, SeatsUnique

\* No seat is ever sold, or locked, twice.
THEOREM NoSeatIsBookedTwice == Spec => []NoDoubleBooking
BY IntegrityInvariant, SeatsAreApart, PTL

-----------------------------------------------------------------------------
(* What a step may never do to a reservation. *)

\* Row b is row a, possibly with another status, and that only if a is pending.
Follows(a, b) ==
  /\ \E status \in Statuses : b = [a EXCEPT !.status = status]
  /\ b.status # a.status => a.status = "PENDING"

\* A row that is not written follows itself.
LEMMA RowIsItself ==
  ASSUME NEW a \in Row
  PROVE  Follows(a, a)
<1>1. a = [a EXCEPT !.status = a.status] /\ a.status \in Statuses
  BY DEF Row
<1> QED
  BY <1>1 DEF Follows

\* A statement that writes the status of pending rows makes rows follow.
LEMMA StatusIsWritten ==
  ASSUME TablesOK, NEW R \in SUBSET Pending, NEW status \in Statuses, NEW r \in Stored
  PROVE  Follows(reservations[r], WithStatus(R, status)[r])
<1>1. reservations[r] \in Row
  BY DEF TablesOK, Stored
<1>2. CASE r \in R
  <2>1. WithStatus(R, status)[r] = [reservations[r] EXCEPT !.status = status]
    BY <1>2 DEF WithStatus
  <2>2. reservations[r].status = "PENDING"
    BY <1>2 DEF Pending
  <2> QED
    BY <2>1, <2>2 DEF Follows
<1>3. CASE r \notin R
  <2>1. WithStatus(R, status)[r] = reservations[r]
    BY <1>3 DEF WithStatus
  <2> QED
    BY <1>1, <2>1, RowIsItself
<1> QED
  BY <1>2, <1>3

\* Every stored row is followed by its row after the step.
LEMMA RowsFollow ==
  ASSUME TablesOK, TablesStep, NEW r \in Stored
  PROVE  r \in Stored' /\ Follows(reservations[r], reservations'[r])
<1>1. CASE UNCHANGED tables
  BY <1>1, RowIsItself DEF tables, TablesOK, Stored
<1>2. ASSUME NEW R \in SUBSET Stored, NEW status \in Statuses, Ends(R, status)
      PROVE  r \in Stored' /\ Follows(reservations[r], reservations'[r])
  <2>1. Stored' = Stored
    BY <1>2 DEF Ends, WithStatus, Stored
  <2> QED
    BY <1>2, <2>1, StatusIsWritten DEF Ends
<1>3. ASSUME NEW q \in Stored, Confirms(q)
      PROVE  r \in Stored' /\ Follows(reservations[r], reservations'[r])
  <2>1. Stored' = Stored
    BY <1>3 DEF Confirms, WithStatus, Stored
  <2> QED
    BY <1>3, <2>1, StatusIsWritten DEF Confirms, Statuses
<1>4. ASSUME NEW q \in ReservationIds, NEW row \in Row, NEW R \in SUBSET Stored, Inserts(q, row, R)
      PROVE  r \in Stored' /\ Follows(reservations[r], reservations'[r])
  <2>1. Stored' = Stored \cup {q} /\ q # r
    BY <1>4 DEF Inserts, Stored
  <2>2. reservations'[r] = WithStatus(R, "EXPIRED")[r]
    BY <1>4, <2>1 DEF Inserts
  <2> QED
    BY <1>4, <2>1, <2>2, StatusIsWritten DEF Inserts, Statuses
<1> QED
  BY <1>1, <1>2, <1>3, <1>4 DEF TablesStep

\* No interleaving revives or forgets a reservation, or changes what it is for.
THEOREM TransitionsAreLegal == Spec => LegalTransitions
<1>1. TypeOK /\ [Next]_vars =>
        \A r \in Stored : r \in Stored' /\ Follows(reservations[r], reservations'[r])
  BY TableSteps, RowsFollow, TypeParts
<1>2. TypeOK /\ [Next]_vars =>
        [\A r \in Stored :
           /\ r \in Stored'
           /\ \E s \in Statuses : reservations'[r] = [reservations[r] EXCEPT !.status = s]
           /\ reservations'[r].status # reservations[r].status => reservations[r].status = "PENDING"
        ]_reservations
  BY <1>1 DEF Follows
<1> QED
  BY <1>2, TypeInvariance, PTL DEF Spec, LegalTransitions

-----------------------------------------------------------------------------
(* What calls, events and answers say.  Each of them was true of the tables *)
(* when the call read it, under no lock since then; it stays true because   *)
(* rows follow each other as above.                                         *)

\* Each key has one row, and each row a text that isoformat() wrote.
RowsOK ==
  /\ \A r, q \in Stored : reservations[r].key = reservations[q].key => r = q
  /\ \A r \in Stored : \E n \in Nat : reservations[r].expires_at = IsoFormat(n)
  /\ NeverExpiredEarly

Named(k, r) == r \in Stored /\ reservations[r].key = k

\* What the publication of an event says of its reservation.
Truthful(type, r) ==
  /\ r \in Stored
  /\ type = "ReservationConfirmed" => reservations[r].status = "CONFIRMED"
  /\ type = "ReservationExpired" => reservations[r].status = "EXPIRED"
  /\ type = "ReservationReleased" => reservations[r].status \in {"EXPIRED", "CANCELLED"}

\* The first read of get() has been this, or the row is no longer pending.
RowRead(r, status) ==
  /\ r \in Stored
  /\ status # "PENDING" => reservations[r].status = status

\* And the second one.
SeatsRead(r, status, seats) ==
  /\ status = "CONFIRMED" => seats = reservations[r].granted
  /\ status \in {"EXPIRED", "CANCELLED"} => seats = {}
  /\ status = "PENDING" =>
       \/ seats = reservations[r].granted
       \/ seats = {} /\ reservations[r].status \notin Live

\* What a call carries with it is true.
Backed(c) ==
  /\ c.pc \in Timed => c.now <= clock
  /\ c.pc \in {"publish", "get", "get_seats", "return"} /\ c.key # NoKey => Named(c.key, c.rid)
  /\ c.pc = "publish" => Truthful(c.type, c.rid)
  /\ c.pc = "announce" => \A r \in c.rids : Truthful("ReservationExpired", r)
  /\ c.pc \in {"get_seats", "return"} => RowRead(c.rid, c.status)
  /\ c.pc = "return" => SeatsRead(c.rid, c.status, c.seats)
  /\ c.pc = "return_seats" => c.booked \subseteq SeatsWithStatus(c.event, "CONFIRMED")

CallsBacked == \A t \in Threads : Backed(call[t])

HistoryOK ==
  /\ EventsTellTheTruth
  /\ \A a \in answers : Named(a[1], a[2])

\* The inductive invariant of the service.
ServiceInv == TypeOK /\ Integrity /\ RowsOK /\ CallsBacked /\ HistoryOK

\* A row keeps all but its status, and that too once it is final.
LEMMA RowsKept ==
  ASSUME TablesOK, TablesStep, NEW r \in Stored
  PROVE  /\ r \in Stored'
         /\ reservations'[r].key = reservations[r].key
         /\ reservations'[r].event = reservations[r].event
         /\ reservations'[r].granted = reservations[r].granted
         /\ reservations'[r].expires_at = reservations[r].expires_at
         /\ reservations'[r].status \in Statuses
         /\ reservations[r].status # "PENDING" => reservations'[r].status = reservations[r].status
<1>1. r \in Stored' /\ Follows(reservations[r], reservations'[r])
  BY RowsFollow
<1>2. PICK status \in Statuses : reservations'[r] = [reservations[r] EXCEPT !.status = status]
  BY <1>1 DEF Follows
<1>3. reservations[r] \in Row
  BY DEF TablesOK, Stored
<1>4. \A a \in Row : /\ [a EXCEPT !.status = status].key = a.key
                     /\ [a EXCEPT !.status = status].event = a.event
                     /\ [a EXCEPT !.status = status].granted = a.granted
                     /\ [a EXCEPT !.status = status].expires_at = a.expires_at
                     /\ [a EXCEPT !.status = status].status = status
  BY DEF Row
<1> QED
  BY <1>1, <1>2, <1>3, <1>4 DEF Follows

\* A seat row that belongs to a confirmed reservation stays.
LEMMA BookedStays ==
  ASSUME Integrity, TablesStep, NEW e
  PROVE  SeatsWithStatus(e, "CONFIRMED") \subseteq SeatsWithStatus(e, "CONFIRMED")'
<1> USE DEF Integrity
<1>1. SUFFICES ASSUME NEW x \in reservation_seats, x.event = e,
                      reservations[x.reservation].status = "CONFIRMED"
               PROVE  /\ x \in reservation_seats'
                      /\ reservations'[x.reservation].status = "CONFIRMED"
  BY DEF SeatsWithStatus
<1>2. x.reservation \in Stored
  BY DEF SeatLedger
<1>3. reservations'[x.reservation].status = "CONFIRMED"
  BY <1>1, <1>2, RowsKept
<1>4. ASSUME NEW R \in SUBSET Stored, R \subseteq Pending
      PROVE  x \in SeatRowsWithout(R)
  BY <1>1, <1>4 DEF SeatRowsWithout, Pending
<1>5. x \in reservation_seats'
  BY <1>4 DEF TablesStep, tables, Ends, Confirms, Inserts
<1> QED
  BY <1>3, <1>5

\* What a call carries stays true while other threads move.
LEMMA BackedStays ==
  ASSUME Integrity, TablesStep, clock \in Nat, clock' \in Nat, clock <= clock',
         NEW c \in Call, Backed(c)
  PROVE  Backed(c)'
<1> USE DEF Integrity, Backed
<1>1. c.pc \in Timed => c.now <= clock'
  <2>1. c.pc \in Timed => c.now \in Nat
    BY CallKinds DEF Timed, LockSeatsCall, ConfirmCall, ExpireDueCall, SeatStatusesCall
  <2> QED
    BY <2>1
<1>2. \A k, r : Named(k, r) => Named(k, r)'
  BY RowsKept DEF Named
<1>3. \A type, r : Truthful(type, r) => Truthful(type, r)'
  BY RowsKept DEF Truthful
<1>4. \A r, status : RowRead(r, status) => RowRead(r, status)'
  BY RowsKept DEF RowRead
<1>5. \A r \in Stored : \A status, seats : SeatsRead(r, status, seats) => SeatsRead(r, status, seats)'
  BY RowsKept DEF SeatsRead, Live
<1>6. c.pc = "return" => c.rid \in Stored
  BY DEF RowRead
<1>7. c.pc = "return_seats" => c.booked \subseteq SeatsWithStatus(c.event, "CONFIRMED")'
  <2>1. \A e : SeatsWithStatus(e, "CONFIRMED") \subseteq SeatsWithStatus(e, "CONFIRMED")'
    BY BookedStays
  <2>2. SUFFICES ASSUME c.pc = "return_seats"
                 PROVE  c.booked \subseteq SeatsWithStatus(c.event, "CONFIRMED")'
    OBVIOUS
  <2>3. PICK e : e = c.event
    OBVIOUS
  <2>4. c.booked \subseteq SeatsWithStatus(e, "CONFIRMED")
    BY <2>2, <2>3
  <2> QED
    BY <2>1, <2>3, <2>4
<1> QED
  BY <1>1, <1>2, <1>3, <1>4, <1>5, <1>6, <1>7

\* A call that is going to use the time it read has a time.
LEMMA TimedCalls ==
  ASSUME NEW c \in Call, c.pc \in Timed
  PROVE  c.now \in Nat
BY CallKinds DEF Timed, LockSeatsCall, ConfirmCall, ExpireDueCall, SeatStatusesCall

\* The sweep by text and the look of confirm by instant take the same rows.
LEMMA DueAtInstant ==
  ASSUME RowsOK, NEW r \in Stored, NEW now \in Nat
  PROVE  /\ FromIsoFormat(reservations[r].expires_at) \in Nat
         /\ TextLeq(reservations[r].expires_at, IsoFormat(now))
              <=> FromIsoFormat(reservations[r].expires_at) <= now
<1>1. PICK n \in Nat : reservations[r].expires_at = IsoFormat(n)
  BY DEF RowsOK
<1>2. FromIsoFormat(reservations[r].expires_at) = n
  BY <1>1, FromIsoFormatInverts
<1> QED
  BY <1>1, <1>2, TextOrderIsTimeOrder

\* What a call takes for overdue is overdue: its clock was not ahead.
LEMMA OverdueIsPast ==
  ASSUME TypeOK, RowsOK, CallsBacked, NEW R, Overdue(R), NEW r \in R, r \in Stored
  PROVE  FromIsoFormat(reservations[r].expires_at) <= clock
<1>1. PICK t \in Threads :
        /\ call[t].pc \in Timed
        /\ \/ r \in Due(call[t].now)
           \/ FromIsoFormat(reservations[r].expires_at) <= call[t].now
  BY DEF Overdue
<1>2. PICK now : now = call[t].now
  OBVIOUS
<1>3. now \in Nat /\ now <= clock /\ clock \in Nat
  BY <1>1, <1>2, TimedCalls DEF TypeOK, CallsBacked, Backed
<1>4. FromIsoFormat(reservations[r].expires_at) <= now
  BY <1>1, <1>2, <1>3, DueAtInstant DEF Due
<1> QED
  BY <1>3, <1>4, DueAtInstant

\* The rows keep their keys apart, and none expires early.
LEMMA RowsStep ==
  ASSUME TypeOK, RowsOK, CallsBacked, TablesStep,
         clock \in Nat, clock' \in Nat, clock <= clock'
  PROVE  RowsOK'
<1> USE TypeParts
<1>1. CASE UNCHANGED tables
  <2>1. Stored' = Stored /\ reservations' = reservations
    BY <1>1 DEF tables, Stored
  <2>2. NeverExpiredEarly'
    BY <2>1, DueAtInstant DEF NeverExpiredEarly, RowsOK
  <2> QED
    BY <2>1, <2>2 DEF RowsOK
<1>2. ASSUME NEW R \in SUBSET Stored, NEW status \in Statuses, Ends(R, status)
      PROVE  RowsOK'
  <2>1. Stored' = Stored
    BY <1>2 DEF Ends, WithStatus, Stored
  <2>2. \A r \in Stored : reservations'[r].status = "EXPIRED" =>
                          reservations[r].status = "EXPIRED" \/ (r \in R /\ Overdue(R))
    BY <1>2, WithStatusRows DEF Ends
  <2>3. NeverExpiredEarly'
    BY <2>1, <2>2, DueAtInstant, OverdueIsPast, RowsKept DEF NeverExpiredEarly, RowsOK
  <2> QED
    BY <2>1, <2>3, RowsKept DEF RowsOK
<1>3. ASSUME NEW q \in Stored, Confirms(q)
      PROVE  RowsOK'
  <2>1. Stored' = Stored
    BY <1>3 DEF Confirms, WithStatus, Stored
  <2>2. \A r \in Stored : reservations'[r].status = "EXPIRED" => reservations[r].status = "EXPIRED"
    BY <1>3, WithStatusRows DEF Confirms, Statuses
  <2>3. NeverExpiredEarly'
    BY <2>1, <2>2, DueAtInstant, RowsKept DEF NeverExpiredEarly, RowsOK
  <2> QED
    BY <2>1, <2>3, RowsKept DEF RowsOK
<1>4. ASSUME NEW q \in ReservationIds, NEW row \in Row, NEW R \in SUBSET Stored,
             Inserts(q, row, R)
      PROVE  RowsOK'
  <2>1. Stored' = Stored \cup {q} /\ q \notin Stored /\ reservations'[q] = row
    BY <1>4 DEF Inserts, Stored
  <2>2. row.status = "PENDING" /\ \A r \in Stored : reservations[r].key # row.key
    BY <1>4 DEF Inserts, RowsWithKey
  <2>3. \A r \in Stored : reservations'[r] = WithStatus(R, "EXPIRED")[r]
    BY <1>4, <2>1 DEF Inserts
  <2>4. \A r \in Stored : reservations'[r].status = "EXPIRED" =>
                          reservations[r].status = "EXPIRED" \/ (r \in R /\ Overdue(R))
    BY <1>4, <2>3, WithStatusRows DEF Inserts, Statuses
  <2>5. NeverExpiredEarly'
    BY <2>1, <2>2, <2>4, DueAtInstant, OverdueIsPast, RowsKept DEF NeverExpiredEarly, RowsOK
  <2>6. \E n \in Nat : row.expires_at = IsoFormat(n)
    BY <1>4 DEF Inserts
  <2> QED
    BY <2>1, <2>2, <2>5, <2>6, RowsKept DEF RowsOK
<1> QED
  BY <1>1, <1>2, <1>3, <1>4 DEF TablesStep

\* The clock does not go back.
LEMMA ClockStep ==
  ASSUME TypeOK, [Next]_vars
  PROVE  clock \in Nat /\ clock' \in Nat /\ clock <= clock'
<1>1. clock \in Nat /\ clock' \in Nat
  BY TypeStep DEF TypeOK
<1>2. CASE Tick
  BY <1>1, <1>2 DEF Tick
<1>3. CASE UNCHANGED vars
  BY <1>1, <1>3 DEF vars
<1>4. ASSUME NEW t \in Threads, BeginCall(t) \/ Return(t)
      PROVE  clock' = clock
  BY <1>4 DEF BeginCall, BeginLockSeats, BeginConfirm, BeginRelease, BeginExpireDue,
              BeginSeatStatuses, BeginGet, Begin, Continue, Return
<1>5. ASSUME NEW t \in Threads, LockSeats(t) \/ Confirm(t) \/ Release(t)
      PROVE  clock' = clock
  BY <1>5 DEF LockSeats, LockSeatsRetried, LockSeatsRefused, LockSeatsGranted,
              Confirm, ConfirmUnknown, ConfirmAgain, ConfirmOverdue, ConfirmRefused, ConfirmGranted,
              Release, ReleaseUnknown, ReleaseRefused, ReleaseHeld, ReleaseAgain, Continue, Committed
<1>6. ASSUME NEW t \in Threads,
             ExpireDue(t) \/ Announce(t) \/ SeatStatuses(t) \/ ReadSeats(t) \/ PublishEvent(t) \/ Get(t)
      PROVE  clock' = clock
  BY <1>6 DEF ExpireDue, Announce, SeatStatuses, ReadSeats, PublishEvent, Get, GetUnknown, GetRow,
              GetSeats, Continue, Committed
<1> QED
  BY <1>1, <1>2, <1>3, <1>4, <1>5, <1>6 DEF Next, Step

\* Thread t has gone on to c, and what c carries is true.
GoesTo(t, c) ==
  /\ call' = [call EXCEPT ![t] = c]
  /\ Backed(c)'

Moves(t) == \E c \in Call : GoesTo(t, c)

\* A thread that raises.
LEMMA RaiseMoves ==
  ASSUME NEW t, NEW error \in Errors, call' = [call EXCEPT ![t] = Raise(error)]
  PROVE  Moves(t)
<1>1. Raise(error) \in Call /\ Raise(error).pc = "raise"
  BY RaiseType DEF Raise
<1>2. PICK c : c = Raise(error)
  OBVIOUS
<1>3. Backed(c)'
  BY <1>1, <1>2 DEF Backed, Timed
<1> QED
  BY <1>1, <1>2, <1>3 DEF Moves, GoesTo

\* A thread that has committed what it is about to publish.
LEMMA PublishMoves ==
  ASSUME NEW t, NEW type \in EventTypes, NEW r \in ReservationIds, NEW k \in AnyKey,
         call' = [call EXCEPT ![t] = Publish(type, r, k)],
         Truthful(type, r)', k # NoKey => Named(k, r)'
  PROVE  Moves(t)
<1>1. PICK c : c = Publish(type, r, k)
  OBVIOUS
<1>2. c \in Call /\ c.pc = "publish" /\ c.type = type /\ c.rid = r /\ c.key = k
  BY <1>1, PublishType DEF Publish
<1>3. Backed(c)'
  BY <1>2 DEF Backed, Timed
<1> QED
  BY <1>1, <1>2, <1>3 DEF Moves, GoesTo

\* Calls begin with the time of the clock.
LEMMA BeginMoves ==
  ASSUME TypeOK, NEW t \in Threads, BeginCall(t)
  PROVE  Moves(t)
<1>1. Known \subseteq Ids
  BY DEF TypeOK, Known, Ids
<1>2. clock \in Nat
  BY DEF TypeOK
<1>3. ASSUME NEW c \in Call, NEW op, Begin(t, op, c), c.pc \in Timed => c.now <= clock,
             c.pc \in Timed \cup {"release", "raise"} \/ (c.pc = "get" /\ c.key = NoKey)
      PROVE  Moves(t)
  <2>1. call' = [call EXCEPT ![t] = c] /\ clock' = clock
    BY <1>3 DEF Begin, Continue
  <2>2. Backed(c)'
    BY <1>3, <2>1 DEF Backed, Timed
  <2> QED
    BY <2>1, <2>2 DEF Moves, GoesTo
<1>4. CASE BeginLockSeats(t)
  <2>1. PICK k \in Keys, e \in Events, S \in SUBSET Seats :
          Begin(t, "lock_seats",
                IF S = {} THEN Raise("ValueError")
                ELSE [pc |-> "lock_seats", key |-> k, event |-> e, seats |-> S, now |-> clock])
    BY <1>4 DEF BeginLockSeats
  <2>2. CASE S = {}
    BY <2>1, <2>2, RaiseMoves DEF Begin, Continue, Errors
  <2>3. CASE S # {}
    <3>1. PICK c : c = [pc |-> "lock_seats", key |-> k, event |-> e, seats |-> S, now |-> clock]
      OBVIOUS
    <3>2. c \in Call /\ c.pc = "lock_seats" /\ c.now = clock
      BY <1>2, <2>3, <3>1 DEF Call, LockSeatsCall
    <3> QED
      BY <1>2, <1>3, <2>1, <2>3, <3>1, <3>2 DEF Timed
  <2> QED
    BY <2>2, <2>3
<1>5. ASSUME NEW r \in Known, BeginConfirm(t, r)
      PROVE  Moves(t)
  <2>1. PICK c : c = [pc |-> "confirm", rid |-> r, now |-> clock]
    OBVIOUS
  <2>2. c \in Call /\ c.pc = "confirm" /\ c.now = clock
    BY <1>1, <1>2, <2>1 DEF Call, ConfirmCall
  <2> QED
    BY <1>2, <1>3, <1>5, <2>1, <2>2 DEF BeginConfirm, Timed
<1>6. ASSUME NEW r \in Known, BeginRelease(t, r)
      PROVE  Moves(t)
  <2>1. PICK c : c = [pc |-> "release", rid |-> r]
    OBVIOUS
  <2>2. c \in Call /\ c.pc = "release"
    BY <1>1, <2>1 DEF Call, ReleaseCall
  <2> QED
    BY <1>3, <1>6, <2>1, <2>2 DEF BeginRelease, Timed
<1>7. ASSUME NEW r \in Known, BeginGet(t, r)
      PROVE  Moves(t)
  <2>1. PICK c : c = [pc |-> "get", rid |-> r, key |-> NoKey]
    OBVIOUS
  <2>2. c \in Call /\ c.pc = "get" /\ c.key = NoKey
    BY <1>1, <2>1 DEF Call, GetCall, AnyKey
  <2> QED
    BY <1>3, <1>7, <2>1, <2>2 DEF BeginGet, Timed
<1>8. CASE BeginExpireDue(t)
  <2>1. PICK c : c = [pc |-> "expire_due", now |-> clock]
    OBVIOUS
  <2>2. c \in Call /\ c.pc = "expire_due" /\ c.now = clock
    BY <1>2, <2>1 DEF Call, ExpireDueCall
  <2> QED
    BY <1>2, <1>3, <1>8, <2>1, <2>2 DEF BeginExpireDue, Timed
<1>9. CASE BeginSeatStatuses(t)
  <2>1. PICK e \in Events : Begin(t, "seat_statuses", [pc |-> "seat_statuses", event |-> e, now |-> clock])
    BY <1>9 DEF BeginSeatStatuses
  <2>2. PICK c : c = [pc |-> "seat_statuses", event |-> e, now |-> clock]
    OBVIOUS
  <2>3. c \in Call /\ c.pc = "seat_statuses" /\ c.now = clock
    BY <1>2, <2>2 DEF Call, SeatStatusesCall
  <2> QED
    BY <1>2, <1>3, <2>1, <2>2, <2>3 DEF Timed
<1> QED
  BY <1>4, <1>5, <1>6, <1>7, <1>8, <1>9 DEF BeginCall

\* The status and the seats of a reply that is read inside the write lock,
\* by a statement that expires the rows in R.
LEMMA ReplyMoves ==
  ASSUME TypeOK, Integrity, RowsOK, NEW t, NEW r \in Stored, NEW k \in AnyKey,
         NEW R \in SUBSET Pending, TablesStep,
         reservations' = WithStatus(R, "EXPIRED"),
         k # NoKey => reservations[r].key = k,
         call' = [call EXCEPT ![t] = Reply(r, k, R)]
  PROVE  Moves(t)
<1> USE TypeParts DEF Integrity
<1>1. PICK c : c = Reply(r, k, R)
  OBVIOUS
<1>2. c \in Call
  BY <1>1, ReplyType
<1>3. /\ c.pc = "return" /\ c.rid = r /\ c.key = k
      /\ c.status = reservations'[r].status
      /\ c.seats = IF r \in R THEN {} ELSE SeatsOf(r)
  BY <1>1 DEF Reply
<1>4. R \in SUBSET Stored /\ r \in Stored'
  BY RowsKept DEF Pending
<1>5. /\ c.status \in Statuses
      /\ c.status = IF r \in R THEN "EXPIRED" ELSE reservations[r].status
  BY <1>3, <1>4, WithStatusRows, RowsKept DEF Statuses
<1>6. RowRead(c.rid, c.status)'
  BY <1>3, <1>4 DEF RowRead
<1>7. SeatsRead(c.rid, c.status, c.seats)'
  BY <1>3, <1>5, RowsKept DEF SeatsRead, SeatLedger, Live
<1>8. k # NoKey => Named(c.key, c.rid)'
  BY <1>3, <1>4, RowsKept DEF Named
<1>9. Backed(c)'
  BY <1>3, <1>6, <1>7, <1>8 DEF Backed, Timed
<1> QED
  BY <1>1, <1>2, <1>9 DEF Moves, GoesTo

\* A committed insertion tells the truth.
LEMMA LockSeatsMoves ==
  ASSUME TypeOK, Integrity, RowsOK, TablesStep, NEW t \in Threads, LockSeats(t)
  PROVE  Moves(t)
<1>1. call[t] \in LockSeatsCall
  BY CallKinds DEF TypeOK, LockSeats, LockSeatsRetried, LockSeatsRefused, LockSeatsGranted
<1>2. PICK k, now : k = call[t].key /\ now = call[t].now
  OBVIOUS
<1>3. k \in Keys /\ k \in AnyKey /\ k # NoKey
  BY <1>1, <1>2, NoKeyAssumption DEF LockSeatsCall, AnyKey
<1>4. CASE LockSeatsRetried(t)
  <2>1. PICK R : R = Due(now)
    OBVIOUS
  <2>2. R \in SUBSET Pending
    BY <2>1, DueArePending
  <2>3. reservations' = WithStatus(R, "EXPIRED")
    BY <1>2, <1>4, <2>1 DEF LockSeatsRetried
  <2>4. PICK r \in RowsWithKey(k) : call' = [call EXCEPT ![t] = Reply(r, k, R)]
    BY <1>2, <1>4, <2>1 DEF LockSeatsRetried, Committed
  <2>5. r \in Stored /\ reservations[r].key = k
    BY <2>4 DEF RowsWithKey
  <2> QED
    BY <1>3, <2>2, <2>3, <2>4, <2>5, ReplyMoves
<1>5. CASE LockSeatsRefused(t)
  BY <1>5, RaiseMoves DEF LockSeatsRefused, Continue, Errors
<1>6. CASE LockSeatsGranted(t)
  <2> DEFINE row == [event |-> call[t].event, status |-> "PENDING",
                     expires_at |-> IsoFormat(now + TTL), key |-> k, granted |-> call[t].seats]
  <2>1. PICK r \in ReservationIds \ Stored :
          /\ reservations' = [i \in Stored \cup {r} |->
                                IF i = r THEN row ELSE WithStatus(Due(now), "EXPIRED")[i]]
          /\ Committed(t, Publish("ReservationCreated", r, k))
    BY <1>2, <1>6 DEF LockSeatsGranted
  <2>2. row.key = k
    OBVIOUS
  <2> HIDE DEF row
  <2>3. r \in Stored' /\ reservations'[r] = row
    BY <2>1 DEF Stored
  <2>4. Truthful("ReservationCreated", r)' /\ Named(k, r)'
    BY <2>2, <2>3 DEF Truthful, Named
  <2> QED
    BY <1>3, <2>1, <2>4, PublishMoves DEF EventTypes, Committed
<1> QED
  BY <1>4, <1>5, <1>6 DEF LockSeats

\* A statement that writes one row.
LEMMA RowIsWritten ==
  ASSUME TablesOK, NEW r \in Stored, NEW status \in Statuses
  PROVE  WithStatus({r}, status)[r].status = status
<1>1. {r} \in SUBSET Stored
  OBVIOUS
<1> QED
  BY <1>1, WithStatusRows

\* confirm announces what it has committed.
LEMMA ConfirmMoves ==
  ASSUME TypeOK, Integrity, RowsOK, TablesStep, NEW t \in Threads, Confirm(t)
  PROVE  Moves(t)
<1> USE TypeParts
<1>1. CASE ConfirmUnknown(t)
  BY <1>1, RaiseMoves DEF ConfirmUnknown, Continue, Errors
<1>2. CASE ConfirmAgain(t)
  <2>1. PICK r : r = call[t].rid
    OBVIOUS
  <2>2. /\ r \in Stored
        /\ reservations' = reservations
        /\ call' = [call EXCEPT ![t] = Reply(r, NoKey, {})]
    BY <1>2, <2>1 DEF ConfirmAgain, Continue, tables
  <2>3. PICK R : R = {}
    OBVIOUS
  <2>4. reservations' = WithStatus(R, "EXPIRED") /\ R \in SUBSET Pending
    BY <2>2, <2>3 DEF WithStatus, TablesOK, Stored
  <2>5. call' = [call EXCEPT ![t] = Reply(r, NoKey, R)]
    BY <2>2, <2>3
  <2> QED
    BY <2>2, <2>4, <2>5, ReplyMoves DEF AnyKey
<1>3. CASE ConfirmOverdue(t)
  BY <1>3, RaiseMoves DEF ConfirmOverdue, Committed, Errors
<1>4. CASE ConfirmRefused(t)
  BY <1>4, RaiseMoves DEF ConfirmRefused, Continue, Errors
<1>5. CASE ConfirmGranted(t)
  <2>1. PICK r : r = call[t].rid
    OBVIOUS
  <2>2. /\ r \in Stored
        /\ reservations' = WithStatus({r}, "CONFIRMED")
        /\ call' = [call EXCEPT ![t] = Publish("ReservationConfirmed", r, NoKey)]
    BY <1>5, <2>1 DEF ConfirmGranted, Committed
  <2>3. r \in Stored' /\ reservations'[r].status = "CONFIRMED"
    BY <2>2, RowsKept, RowIsWritten DEF Statuses
  <2>4. Truthful("ReservationConfirmed", r)'
    BY <2>3 DEF Truthful
  <2>5. r \in ReservationIds
    BY <2>2 DEF TablesOK, Stored
  <2> QED
    BY <2>2, <2>4, <2>5, PublishMoves DEF EventTypes, AnyKey
<1> QED
  BY <1>1, <1>2, <1>3, <1>4, <1>5 DEF Confirm

\* So does release.
LEMMA ReleaseMoves ==
  ASSUME TypeOK, Integrity, RowsOK, TablesStep, NEW t \in Threads, Release(t)
  PROVE  Moves(t)
<1> USE TypeParts
<1>1. PICK r : r = call[t].rid
  OBVIOUS
<1>2. r \in Stored => r \in ReservationIds
  BY DEF TablesOK, Stored
<1>3. CASE ReleaseUnknown(t)
  BY <1>3, RaiseMoves DEF ReleaseUnknown, Continue, Errors
<1>4. CASE ReleaseRefused(t)
  BY <1>4, RaiseMoves DEF ReleaseRefused, Continue, Errors
<1>5. CASE ReleaseHeld(t)
  <2>1. /\ r \in Stored
        /\ reservations' = WithStatus({r}, "CANCELLED")
        /\ call' = [call EXCEPT ![t] = Publish("ReservationReleased", r, NoKey)]
    BY <1>1, <1>5 DEF ReleaseHeld, Committed
  <2>2. r \in Stored' /\ reservations'[r].status = "CANCELLED"
    BY <2>1, RowsKept, RowIsWritten DEF Statuses
  <2>3. Truthful("ReservationReleased", r)'
    BY <2>2 DEF Truthful
  <2> QED
    BY <1>2, <2>1, <2>3, PublishMoves DEF EventTypes, AnyKey
<1>6. CASE ReleaseAgain(t)
  <2>1. /\ r \in Stored
        /\ reservations[r].status \in {"EXPIRED", "CANCELLED"}
        /\ call' = [call EXCEPT ![t] = Publish("ReservationReleased", r, NoKey)]
    BY <1>1, <1>6 DEF ReleaseAgain, Continue
  <2>2. Truthful("ReservationReleased", r)'
    BY <2>1, RowsKept DEF Truthful
  <2> QED
    BY <1>2, <2>1, <2>2, PublishMoves DEF EventTypes, AnyKey
<1> QED
  BY <1>3, <1>4, <1>5, <1>6 DEF Release

\* What a sweep announces has expired, and a seat map shows what is booked.
LEMMA SweepMoves ==
  ASSUME TypeOK, TypeOK', Integrity, CallsBacked, TablesStep, NEW t \in Threads,
         ExpireDue(t) \/ Announce(t) \/ SeatStatuses(t) \/ ReadSeats(t)
  PROVE  Moves(t)
<1> USE TypeParts
<1>1. CASE ExpireDue(t)
  <2>1. PICK R : R = Due(call[t].now)
    OBVIOUS
  <2>2. /\ reservations' = WithStatus(R, "EXPIRED")
        /\ call' = [call EXCEPT ![t] = [pc |-> "announce", rids |-> R]]
    BY <1>1, <2>1 DEF ExpireDue, Committed
  <2>3. R \subseteq Stored
    BY <2>1, DueArePending
  <2>4. \A r \in R : reservations'[r].status = "EXPIRED"
    BY <2>2, <2>3, WithStatusRows DEF Statuses
  <2>5. \A r \in R : Truthful("ReservationExpired", r)'
    BY <2>3, <2>4, RowsKept DEF Truthful
  <2>6. PICK c : c = [pc |-> "announce", rids |-> R]
    OBVIOUS
  <2>7. c \in Call /\ c.pc = "announce" /\ c.rids = R
    BY <2>3, <2>6 DEF Call, AnnounceCall, TablesOK, Stored
  <2>8. Backed(c)'
    BY <2>5, <2>7 DEF Backed, Timed
  <2> QED
    BY <2>2, <2>6, <2>7, <2>8 DEF Moves, GoesTo
<1>2. CASE Announce(t)
  <2>1. PICK r \in call[t].rids :
          call' = [call EXCEPT ![t] = [call[t] EXCEPT !.rids = call[t].rids \ {r}]]
    BY <1>2 DEF Announce
  <2>2. PICK c : c = [call[t] EXCEPT !.rids = call[t].rids \ {r}]
    OBVIOUS
  <2>3. call[t] \in AnnounceCall
    BY <1>2, CallKinds DEF TypeOK, Announce
  <2>4. c \in Call /\ c.pc = "announce" /\ c.rids \subseteq call[t].rids
    BY <2>2, <2>3 DEF AnnounceCall, Call
  <2>5. \A q \in call[t].rids : Truthful("ReservationExpired", q)
    BY <1>2 DEF CallsBacked, Backed, Announce
  <2>6. \A q \in c.rids : Truthful("ReservationExpired", q)'
    BY <2>4, <2>5, RowsKept DEF Truthful
  <2>7. Backed(c)'
    BY <2>4, <2>6 DEF Backed, Timed
  <2> QED
    BY <2>1, <2>2, <2>4, <2>7 DEF Moves, GoesTo
<1>3. CASE SeatStatuses(t)
  <2>1. PICK c : c = [pc |-> "read_seats", event |-> call[t].event]
    OBVIOUS
  <2>2. call[t].event \in Events
    BY <1>3, CallKinds DEF TypeOK, SeatStatuses, SeatStatusesCall
  <2>3. c \in Call /\ c.pc = "read_seats"
    BY <2>1, <2>2 DEF Call, ReadSeatsCall
  <2>4. Backed(c)'
    BY <2>3 DEF Backed, Timed
  <2> QED
    BY <1>3, <2>1, <2>3, <2>4 DEF SeatStatuses, Committed, Moves, GoesTo
<1>4. CASE ReadSeats(t)
  <2>1. PICK e : e = call[t].event
    OBVIOUS
  <2>2. PICK c : c = [pc |-> "return_seats", event |-> e,
                      locked |-> SeatsWithStatus(e, "PENDING"),
                      booked |-> SeatsWithStatus(e, "CONFIRMED")]
    OBVIOUS
  <2>3. call' = [call EXCEPT ![t] = c]
    BY <1>4, <2>1, <2>2 DEF ReadSeats, Continue
  <2>4. c.pc = "return_seats" /\ c.event = e /\ c.booked = SeatsWithStatus(e, "CONFIRMED")
    BY <2>2
  <2>5. c.booked \subseteq SeatsWithStatus(c.event, "CONFIRMED")'
    BY <2>4, BookedStays
  <2>6. Backed(c)'
    BY <2>4, <2>5 DEF Backed, Timed
  <2>7. c \in Call
    BY <2>3 DEF TypeOK
  <2> QED
    BY <2>3, <2>6, <2>7 DEF Moves, GoesTo
<1> QED
  BY <1>1, <1>2, <1>3, <1>4

\* Each read of get() adds what is so at the time.
LEMMA GetMoves ==
  ASSUME TypeOK, TypeOK', Integrity, CallsBacked, TablesStep, NEW t \in Threads,
         PublishEvent(t) \/ Get(t) \/ Return(t)
  PROVE  Moves(t)
<1> USE TypeParts
<1>1. PICK k, r : k = call[t].key /\ r = call[t].rid
  OBVIOUS
<1>2. Backed(call[t])
  BY DEF CallsBacked
<1>3. \A c : call' = [call EXCEPT ![t] = c] => c \in Call
  BY DEF TypeOK
<1>4. CASE PublishEvent(t)
  <2>1. PICK c : c = [pc |-> "get", rid |-> r, key |-> k]
    OBVIOUS
  <2>2. call' = [call EXCEPT ![t] = c]
    BY <1>1, <1>4, <2>1 DEF PublishEvent
  <2>3. c.pc = "get" /\ c.rid = r /\ c.key = k
    BY <2>1
  <2>4. k # NoKey => Named(k, r)'
    BY <1>1, <1>2, <1>4, RowsKept DEF Backed, PublishEvent, Named
  <2>5. Backed(c)'
    BY <2>3, <2>4 DEF Backed, Timed
  <2> QED
    BY <1>3, <2>2, <2>5 DEF Moves, GoesTo
<1>5. CASE GetUnknown(t)
  BY <1>5, RaiseMoves DEF GetUnknown, Continue, Errors
<1>6. CASE GetRow(t)
  <2>1. PICK status : status = reservations[r].status
    OBVIOUS
  <2>2. PICK c : c = [pc |-> "get_seats", rid |-> r, key |-> k, status |-> status]
    OBVIOUS
  <2>3. call' = [call EXCEPT ![t] = c] /\ r \in Stored
    BY <1>1, <1>6, <2>1, <2>2 DEF GetRow, Continue
  <2>4. c.pc = "get_seats" /\ c.rid = r /\ c.key = k /\ c.status = status
    BY <2>2
  <2>5. k # NoKey => Named(k, r)'
    BY <1>1, <1>2, <1>6, RowsKept DEF Backed, GetRow, Named
  <2>6. RowRead(r, status)'
    BY <2>1, <2>3, RowsKept DEF RowRead
  <2>7. Backed(c)'
    BY <2>4, <2>5, <2>6 DEF Backed, Timed
  <2> QED
    BY <1>3, <2>3, <2>7 DEF Moves, GoesTo
<1>7. CASE GetSeats(t)
  <2>1. PICK status, seats : status = call[t].status /\ seats = SeatsOf(r)
    OBVIOUS
  <2>2. PICK c : c = [pc |-> "return", rid |-> r, key |-> k, status |-> status, seats |-> seats]
    OBVIOUS
  <2>3. call' = [call EXCEPT ![t] = c] /\ UNCHANGED reservations
    BY <1>1, <1>7, <2>1, <2>2 DEF GetSeats, Continue, tables
  <2>4. c.pc = "return" /\ c.rid = r /\ c.key = k /\ c.status = status /\ c.seats = seats
    BY <2>2
  <2>5. /\ RowRead(r, status)
        /\ k # NoKey => Named(k, r)
    BY <1>1, <1>2, <1>7, <2>1 DEF Backed, GetSeats
  <2>6. SeatsRead(r, status, seats)
    BY <2>1, <2>5 DEF SeatsRead, RowRead, SeatLedger, Integrity, Live
  <2>7. /\ RowRead(r, status)' /\ SeatsRead(r, status, seats)'
        /\ k # NoKey => Named(k, r)'
    BY <2>3, <2>5, <2>6 DEF RowRead, SeatsRead, Named, Stored
  <2>8. Backed(c)'
    BY <2>4, <2>7 DEF Backed, Timed
  <2> QED
    BY <1>3, <2>3, <2>8 DEF Moves, GoesTo
<1>8. CASE Return(t)
  <2>1. PICK c : c = Idle
    OBVIOUS
  <2>2. c \in Call /\ c.pc = "idle" /\ call' = [call EXCEPT ![t] = c]
    BY <1>8, <2>1 DEF Return, Call, Idle
  <2>3. Backed(c)'
    BY <2>2 DEF Backed, Timed
  <2> QED
    BY <2>2, <2>3 DEF Moves, GoesTo
<1> QED
  BY <1>4, <1>5, <1>6, <1>7, <1>8 DEF Get

\* Every step leaves every call with what is true.
LEMMA CallsStep ==
  ASSUME ServiceInv, [Next]_vars
  PROVE  CallsBacked'
<1> USE DEF ServiceInv
<1>1. TablesStep /\ TypeOK'
  BY TableSteps, TypeStep
<1>2. clock \in Nat /\ clock' \in Nat /\ clock <= clock'
  BY ClockStep
<1>3. ASSUME NEW u \in Threads, call'[u] = call[u]
      PROVE  Backed(call[u])'
  <2>1. PICK c : c = call[u]
    OBVIOUS
  <2>2. c \in Call /\ Backed(c)
    BY <2>1 DEF TypeOK, CallsBacked
  <2>3. Backed(c)'
    BY <1>1, <1>2, <2>2, BackedStays
  <2>4. c = call'[u]
    BY <1>3, <2>1
  <2> QED
    BY <2>3, <2>4
<1>4. CASE UNCHANGED call
  BY <1>3, <1>4 DEF CallsBacked
<1>5. ASSUME NEW t \in Threads, Moves(t)
      PROVE  CallsBacked'
  <2>1. PICK c \in Call : call' = [call EXCEPT ![t] = c] /\ Backed(c)'
    BY <1>5 DEF Moves, GoesTo
  <2>2. c = call'[t] /\ \A u \in Threads \ {t} : call'[u] = call[u]
    BY <2>1 DEF TypeOK
  <2>3. Backed(call[t])'
    BY <2>1, <2>2
  <2> QED
    BY <1>3, <2>2, <2>3 DEF CallsBacked
<1>6. ASSUME NEW t \in Threads, BeginCall(t) \/ Step(t) \/ Return(t)
      PROVE  Moves(t)
  BY <1>1, <1>6, BeginMoves, LockSeatsMoves, ConfirmMoves, ReleaseMoves, SweepMoves, GetMoves DEF Step
<1> QED
  BY <1>4, <1>5, <1>6 DEF Next, Tick, vars

\* The bus and the clients are told nothing, or what a call carries.
LEMMA HistorySteps ==
  ASSUME TypeOK, CallsBacked, [Next]_vars
  PROVE  /\ \/ published' = published
            \/ \E type, r : Truthful(type, r) /\ published' = published \cup {<<type, r>>}
         /\ \/ answers' = answers
            \/ \E k, r : Named(k, r) /\ answers' = answers \cup {<<k, r>>}
<1>1. CASE Tick \/ UNCHANGED vars
  BY <1>1 DEF Tick, vars
<1>2. ASSUME NEW t \in Threads, BeginCall(t)
      PROVE  UNCHANGED <<published, answers>>
  BY <1>2 DEF BeginCall, BeginLockSeats, BeginConfirm, BeginRelease, BeginExpireDue,
              BeginSeatStatuses, BeginGet, Begin, Continue
<1>3. ASSUME NEW t \in Threads, LockSeats(t) \/ Confirm(t) \/ Release(t)
      PROVE  UNCHANGED <<published, answers>>
  BY <1>3 DEF LockSeats, LockSeatsRetried, LockSeatsRefused, LockSeatsGranted,
              Confirm, ConfirmUnknown, ConfirmAgain, ConfirmOverdue, ConfirmRefused, ConfirmGranted,
              Release, ReleaseUnknown, ReleaseRefused, ReleaseHeld, ReleaseAgain, Continue, Committed
<1>4. ASSUME NEW t \in Threads, ExpireDue(t) \/ SeatStatuses(t) \/ ReadSeats(t) \/ Get(t)
      PROVE  UNCHANGED <<published, answers>>
  BY <1>4 DEF ExpireDue, SeatStatuses, ReadSeats, Get, GetUnknown, GetRow, GetSeats, Continue, Committed
<1>5. ASSUME NEW t \in Threads, Announce(t)
      PROVE  /\ \E r : /\ Truthful("ReservationExpired", r)
                       /\ published' = published \cup {<<"ReservationExpired", r>>}
             /\ answers' = answers
  BY <1>5 DEF Announce, CallsBacked, Backed
<1>6. ASSUME NEW t \in Threads, PublishEvent(t)
      PROVE  /\ \E type, r : Truthful(type, r) /\ published' = published \cup {<<type, r>>}
             /\ answers' = answers
  BY <1>6 DEF PublishEvent, CallsBacked, Backed
<1>7. ASSUME NEW t \in Threads, Return(t)
      PROVE  /\ published' = published
             /\ \/ answers' = answers
                \/ \E k, r : Named(k, r) /\ answers' = answers \cup {<<k, r>>}
  BY <1>7 DEF Return, CallsBacked, Backed
<1> QED
  BY <1>1, <1>2, <1>3, <1>4, <1>5, <1>6, <1>7 DEF Next, Step

\* Bus and clients have been told what is still true.
LEMMA HistoryStep ==
  ASSUME ServiceInv, [Next]_vars
  PROVE  HistoryOK'
<1> USE DEF ServiceInv
<1>1. TablesStep /\ TablesOK
  BY TableSteps, TypeParts
<1>2. \A k, r : Named(k, r) => Named(k, r)'
  BY <1>1, RowsKept DEF Named
<1>3. \A type, r : Truthful(type, r) => Truthful(type, r)'
  BY <1>1, RowsKept DEF Truthful
<1>4. \A p \in published' : Truthful(p[1], p[2])'
  <2>1. \A p \in published : Truthful(p[1], p[2])
    BY DEF HistoryOK, EventsTellTheTruth, Truthful
  <2>2. \A p \in published' : Truthful(p[1], p[2])
    BY <2>1, HistorySteps
  <2> QED
    BY <1>3, <2>2
<1>5. EventsTellTheTruth'
  BY <1>4 DEF EventsTellTheTruth, Truthful
<1>6. \A a \in answers' : Named(a[1], a[2])'
  <2>1. \A a \in answers : Named(a[1], a[2])
    BY DEF HistoryOK
  <2>2. \A a \in answers' : Named(a[1], a[2])
    BY <2>1, HistorySteps
  <2> QED
    BY <1>2, <2>2
<1> QED
  BY <1>5, <1>6 DEF HistoryOK

\* Every step of the service keeps its invariant.
LEMMA ServiceStep ==
  ASSUME ServiceInv, [Next]_vars
  PROVE  ServiceInv'
<1>1. TypeOK' /\ Integrity' /\ RowsOK'
  BY TypeStep, IntegrityStep, RowsStep, TableSteps, ClockStep DEF ServiceInv
<1> QED
  BY <1>1, CallsStep, HistoryStep DEF ServiceInv

\* The invariant holds before the first call.
LEMMA ServiceInit ==
  ASSUME Init
  PROVE  ServiceInv
<1>1. TypeOK /\ Integrity
  BY DEF Init, TypeOK, Call, Integrity, TablesOK, SeatLedger, SeatsUnique, SeatsOf, Stored
<1>2. RowsOK
  BY DEF Init, RowsOK, NeverExpiredEarly, Stored
<1>3. CallsBacked
  BY DEF Init, CallsBacked, Backed, Idle, Timed
<1>4. HistoryOK
  BY DEF Init, HistoryOK, EventsTellTheTruth
<1> QED
  BY <1>1, <1>2, <1>3, <1>4 DEF ServiceInv

\* The invariant holds in every state of the service.
LEMMA ServiceInvariant == Spec => []ServiceInv
BY ServiceInit, ServiceStep, PTL DEF Spec

\* What clients are told under one key names one reservation.
LEMMA OneReservationPerKey ==
  ASSUME ServiceInv
  PROVE  IdempotentReplies
<1>1. \A a \in answers : Named(a[1], a[2])
  BY DEF ServiceInv, HistoryOK
<1> QED
  BY <1>1 DEF ServiceInv, RowsOK, IdempotentReplies, Named

\* What a reply shows is what get() read.
LEMMA RepliesAreBacked ==
  ASSUME ServiceInv
  PROVE  RepliesAreHonest
<1>1. SUFFICES ASSUME NEW t \in Threads, call[t].pc = "return"
               PROVE  LET c == call[t]
                      IN  CASE c.status \in {"EXPIRED", "CANCELLED"} ->
                                 c.seats = {} /\ reservations[c.rid].status = c.status
                            [] c.status = "CONFIRMED" ->
                                 /\ c.seats = reservations[c.rid].granted
                                 /\ reservations[c.rid].status = "CONFIRMED"
                            [] c.status = "PENDING" ->
                                 \/ c.seats = reservations[c.rid].granted
                                 \/ c.seats = {} /\ reservations[c.rid].status \notin Live
  BY DEF RepliesAreHonest
<1>2. call[t].status \in Statuses
  BY <1>1, CallKinds DEF ServiceInv, TypeOK, ReturnCall
<1>3. /\ RowRead(call[t].rid, call[t].status)
      /\ SeatsRead(call[t].rid, call[t].status, call[t].seats)
  BY <1>1 DEF ServiceInv, CallsBacked, Backed
<1> QED
  BY <1>2, <1>3 DEF RowRead, SeatsRead, Statuses

\* All replies to one idempotency key name one reservation, however retries,
\* sweeps and releases interleave.
THEOREM RepliesAreIdempotent == Spec => []IdempotentReplies
BY ServiceInvariant, OneReservationPerKey, PTL

\* No sweep and no confirmation ends a lock before its time.
THEOREM LocksLastTheirTime == Spec => []NeverExpiredEarly
<1>1. ServiceInv => NeverExpiredEarly
  BY DEF ServiceInv, RowsOK
<1> QED
  BY <1>1, ServiceInvariant, PTL

\* A reply with a final status is exact and stays so.
THEOREM RepliesAreTrue == Spec => []RepliesAreHonest
BY ServiceInvariant, RepliesAreBacked, PTL

\* What a seat map shows as booked stays booked.
THEOREM SeatMapsStayTrue == Spec => []BookedSeatsStayBooked
<1>1. ServiceInv => BookedSeatsStayBooked
  BY DEF ServiceInv, CallsBacked, Backed, BookedSeatsStayBooked
<1> QED
  BY <1>1, ServiceInvariant, PTL

\* What was published is never contradicted by the table.
THEOREM EventsStayTrue == Spec => []EventsTellTheTruth
<1>1. ServiceInv => EventsTellTheTruth
  BY DEF ServiceInv, HistoryOK
<1> QED
  BY <1>1, ServiceInvariant, PTL

\* A call begins on a thread that has none.
LEMMA BeginsIdle ==
  ASSUME NEW t, BeginCall(t)
  PROVE  call[t] = Idle
<1>1. \A op, c : Begin(t, op, c) => call[t] = Idle
  BY DEF Begin
<1> QED
  BY <1>1 DEF BeginCall, BeginLockSeats, BeginConfirm, BeginRelease, BeginExpireDue,
              BeginSeatStatuses, BeginGet

\* Only lock_seats itself refuses lock_seats, and only for a taken seat.
LEMMA RefusedBy ==
  ASSUME TypeOK, [Next]_vars, NEW t \in Threads,
         call[t].pc = "lock_seats", call'[t].pc = "raise"
  PROVE  LockSeatsRefused(t)
<1>1. call'[t] # call[t]
  OBVIOUS
<1>2. PICK u \in Threads : BeginCall(u) \/ Step(u) \/ Return(u)
  BY <1>1 DEF Next, Tick, vars
<1>3. CASE u = t
  <2>1. ~BeginCall(t) /\ ~Return(t)
    BY BeginsIdle DEF Idle, Return, Finished
  <2>2. ~Confirm(t) /\ ~Release(t) /\ ~ExpireDue(t) /\ ~Announce(t)
    BY DEF Confirm, ConfirmUnknown, ConfirmAgain, ConfirmOverdue, ConfirmRefused, ConfirmGranted,
           Release, ReleaseUnknown, ReleaseRefused, ReleaseHeld, ReleaseAgain, ExpireDue, Announce
  <2>3. ~SeatStatuses(t) /\ ~ReadSeats(t) /\ ~PublishEvent(t) /\ ~Get(t)
    BY DEF SeatStatuses, ReadSeats, PublishEvent, Get, GetUnknown, GetRow, GetSeats
  <2>4. ASSUME NEW c, c.pc # "raise", call' = [call EXCEPT ![t] = c]
        PROVE  FALSE
    BY <2>4 DEF TypeOK
  <2>5. ~LockSeatsRetried(t)
    <3>1. \A r, k, R : Reply(r, k, R).pc # "raise"
      BY DEF Reply
    <3> QED
      BY <2>4, <3>1 DEF LockSeatsRetried, Committed
  <2>6. ~LockSeatsGranted(t)
    <3>1. \A type, r, k : Publish(type, r, k).pc # "raise"
      BY DEF Publish
    <3>2. LockSeatsGranted(t) =>
            \E r : call' = [call EXCEPT ![t] = Publish("ReservationCreated", r, call[t].key)]
      BY DEF LockSeatsGranted, Committed
    <3> QED
      BY <2>4, <3>1, <3>2
  <2> QED
    BY <1>2, <1>3, <2>1, <2>2, <2>3, <2>5, <2>6 DEF Step, LockSeats
<1>4. CASE u # t
  <2>1. ASSUME NEW c, call' = [call EXCEPT ![u] = c]
        PROVE  FALSE
    BY <1>1, <1>4, <2>1 DEF TypeOK
  <2>2. ~BeginCall(u) /\ ~Return(u)
    BY <2>1 DEF BeginCall, BeginLockSeats, BeginConfirm, BeginRelease, BeginGet, BeginExpireDue,
           BeginSeatStatuses, Begin, Continue, Return
  <2>3. ~LockSeats(u) /\ ~Confirm(u) /\ ~Release(u)
    BY <2>1 DEF LockSeats, LockSeatsRetried, LockSeatsRefused, LockSeatsGranted,
           Confirm, ConfirmUnknown, ConfirmAgain, ConfirmOverdue, ConfirmRefused, ConfirmGranted,
           Release, ReleaseUnknown, ReleaseRefused, ReleaseHeld, ReleaseAgain, Continue, Committed
  <2>4. ~ExpireDue(u) /\ ~Announce(u) /\ ~SeatStatuses(u) /\ ~ReadSeats(u)
    BY <2>1 DEF ExpireDue, Announce, SeatStatuses, ReadSeats, Continue, Committed
  <2>5. ~PublishEvent(u) /\ ~Get(u)
    BY <2>1 DEF PublishEvent, Get, GetUnknown, GetRow, GetSeats, Continue
  <2> QED
    BY <1>2, <2>2, <2>3, <2>4, <2>5 DEF Step
<1> QED
  BY <1>3, <1>4

\* A seat that lock_seats finds taken is paid for, or locked for longer than
\* the time that the call read.
LEMMA TakenIsJustified ==
  ASSUME ServiceInv, NEW e, NEW S, NEW now \in Nat, Taken(e, S, Due(now))
  PROVE  \E r \in Stored :
           /\ reservations[r].event = e
           /\ reservations[r].granted \cap S # {}
           /\ \/ reservations[r].status = "CONFIRMED"
              \/ /\ reservations[r].status = "PENDING"
                 /\ now < FromIsoFormat(reservations[r].expires_at)
<1> USE DEF ServiceInv, Integrity
<1>1. PICK x \in reservation_seats : x.reservation \notin Due(now) /\ x.event = e /\ x.seat \in S
  BY DEF Taken, SeatRowsWithout
<1>2. PICK r : r = x.reservation
  OBVIOUS
<1>3. r \in Stored /\ reservations[r].event = e
  BY <1>1, <1>2 DEF SeatLedger
<1>4. x.seat \in SeatsOf(r)
  BY <1>2 DEF SeatsOf
<1>5. reservations[r].status \in Live /\ x.seat \in reservations[r].granted
  BY <1>3, <1>4 DEF SeatLedger
<1>6. reservations[r].status = "PENDING" => now < FromIsoFormat(reservations[r].expires_at)
  <2>1. reservations[r].status = "PENDING" => ~TextLeq(reservations[r].expires_at, IsoFormat(now))
    BY <1>1, <1>2, <1>3 DEF Due
  <2> QED
    BY <1>3, <2>1, DueAtInstant
<1> QED
  BY <1>1, <1>3, <1>5, <1>6 DEF Live

\* An overdue lock never makes lock_seats refuse.
THEOREM RefusalsHaveCause == Spec => RefusalsAreJustified
<1> DEFINE Justified(t) ==
             \E r \in Stored :
               /\ reservations[r].event = call[t].event
               /\ reservations[r].granted \cap call[t].seats # {}
               /\ \/ reservations[r].status = "CONFIRMED"
                  \/ /\ reservations[r].status = "PENDING"
                     /\ call[t].now < FromIsoFormat(reservations[r].expires_at)
<1>1. ASSUME ServiceInv, [Next]_vars, NEW t \in Threads,
             call[t].pc = "lock_seats", call'[t].pc = "raise"
      PROVE  Justified(t)
  <2>1. LockSeatsRefused(t)
    BY <1>1, RefusedBy DEF ServiceInv
  <2>2. PICK e, S, now : e = call[t].event /\ S = call[t].seats /\ now = call[t].now
    OBVIOUS
  <2>3. now \in Nat
    BY <1>1, <2>2, TimedCalls DEF ServiceInv, TypeOK, Timed
  <2>4. Taken(e, S, Due(now))
    BY <2>1, <2>2 DEF LockSeatsRefused
  <2> QED
    BY <1>1, <2>2, <2>3, <2>4, TakenIsJustified
<1>2. ServiceInv /\ [Next]_vars =>
        [\A t \in Threads : call[t].pc = "lock_seats" /\ call'[t].pc = "raise" => Justified(t)]_vars
  BY <1>1
<1> QED
  BY <1>2, ServiceInvariant, PTL DEF Spec, RefusalsAreJustified
=============================================================================
