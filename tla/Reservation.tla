---------------------------- MODULE Reservation ----------------------------
(***************************************************************************)
(* ReservationService of src/ticketplus/reservation.py: the two SQLite     *)
(* tables, the calls that run on server threads, and the bus they publish  *)
(* to.                                                                     *)
(*                                                                         *)
(* A call takes the steps that other threads can observe.  It reads the    *)
(* clock first and takes the write lock later, so the time it works with   *)
(* may be old.  What it does between BEGIN IMMEDIATE and COMMIT is one     *)
(* step: the write lock and SQLite's RESERVED lock keep writers out, and   *)
(* readers see committed rows only.  It publishes after the lock is        *)
(* released, and builds its reply with get(), which reads the row and then *)
(* the seats in two separate statements, under no lock.                    *)
(***************************************************************************)
EXTENDS IsoTime, FiniteSets

CONSTANTS
  Threads,          \* server threads
  ReservationIds,   \* the identifiers uuid4() can return
  UnknownId,        \* an identifier that no reservation has
  Events, Seats,
  Keys,             \* idempotency keys
  NoKey,
  Operations,       \* the operations callers invoke
  TTL,              \* ttl_seconds, in instants
  MaxClock          \* bound: the last instant of a run

ASSUME TTLAssumption == TTL \in Nat
ASSUME MaxClockAssumption == MaxClock \in Nat
ASSUME UnknownIdAssumption == UnknownId \notin ReservationIds
ASSUME NoKeyAssumption == NoKey \notin Keys

VARIABLES
  reservations,       \* table: id -> row
  reservation_seats,  \* table: rows with unique (event, seat)
  clock,              \* the wall clock, in instants
  call,               \* call[t]: where thread t is, with the locals it needs
  published,          \* events handed to the bus: <<type, reservation>>
  answers             \* what lock_seats has told clients: <<key, reservation>>

tables == <<reservations, reservation_seats>>
vars == <<reservations, reservation_seats, clock, call, published, answers>>

-----------------------------------------------------------------------------
Statuses == {"PENDING", "CONFIRMED", "EXPIRED", "CANCELLED"}
Live == {"PENDING", "CONFIRMED"}

\* One row of reservations.  The column granted is not in the table: it
\* remembers the seat_ids of the request for the properties.
Row == [event : Events, status : Statuses, expires_at : IsoText,
        key : Keys, granted : SUBSET Seats]

SeatRow == [reservation : ReservationIds, event : Events, seat : Seats]

EventTypes == {"ReservationCreated", "ReservationConfirmed",
               "ReservationReleased", "ReservationExpired"}

Errors == {"ValueError", "LockConflict", "ReservationNotFound", "InvalidReservationState"}

Ids == ReservationIds \cup {UnknownId}

Idle == [pc |-> "idle"]

AnyKey == Keys \cup {NoKey}

\* Where a call can be, with the locals it still needs there.
LockSeatsCall == [pc : {"lock_seats"}, key : Keys, event : Events,
                  seats : (SUBSET Seats) \ {{}}, now : Nat]
ConfirmCall == [pc : {"confirm"}, rid : Ids, now : Nat]
ReleaseCall == [pc : {"release"}, rid : Ids]
ExpireDueCall == [pc : {"expire_due"}, now : Nat]
AnnounceCall == [pc : {"announce"}, rids : SUBSET ReservationIds]
SeatStatusesCall == [pc : {"seat_statuses"}, event : Events, now : Nat]
ReadSeatsCall == [pc : {"read_seats"}, event : Events]
PublishCall == [pc : {"publish"}, type : EventTypes, rid : ReservationIds, key : AnyKey]
GetCall == [pc : {"get"}, rid : Ids, key : AnyKey]
GetSeatsCall == [pc : {"get_seats"}, rid : ReservationIds, key : AnyKey, status : Statuses]
ReturnCall == [pc : {"return"}, rid : ReservationIds, key : AnyKey,
               status : Statuses, seats : SUBSET Seats]
ReturnSeatsCall == [pc : {"return_seats"}, event : Events,
                    locked : SUBSET Seats, booked : SUBSET Seats]
RaiseCall == [pc : {"raise"}, error : Errors]

Call ==
  {Idle} \cup LockSeatsCall \cup ConfirmCall \cup ReleaseCall
  \cup ExpireDueCall \cup AnnounceCall \cup SeatStatusesCall \cup ReadSeatsCall
  \cup PublishCall \cup GetCall \cup GetSeatsCall
  \cup ReturnCall \cup ReturnSeatsCall \cup RaiseCall

\* Tables, clock, calls, bus and clients hold values of their kinds.
TypeOK ==
  /\ DOMAIN reservations \subseteq ReservationIds
  /\ reservations \in [DOMAIN reservations -> Row]
  /\ reservation_seats \subseteq SeatRow
  /\ clock \in Nat
  /\ call \in [Threads -> Call]
  /\ published \subseteq EventTypes \X ReservationIds
  /\ answers \subseteq Keys \X ReservationIds

-----------------------------------------------------------------------------
(* The tables. *)

Stored == DOMAIN reservations

\* Variant: the lookup of a retry skips rows that are no longer live.
RowsWithKeyLive(k) == {r \in Stored : reservations[r].key = k /\ reservations[r].status \in Live}

\* The rows with an idempotency key: what lock_seats looks up, and what the
\* column's UNIQUE constraint looks at.
RowsWithKey(k) == {r \in Stored : reservations[r].key = k}

SeatsOf(r) == {x.seat : x \in {y \in reservation_seats : y.reservation = r}}

\* The rows _expire_locked selects.
Due(now) ==
  {r \in Stored : /\ reservations[r].status = "PENDING"
                  /\ TextLeq(reservations[r].expires_at, IsoFormat(now))}

\* UPDATE reservations SET status = ... for the rows in R.
WithStatus(R, status) ==
  [r \in Stored |-> IF r \in R THEN [reservations[r] EXCEPT !.status = status]
                               ELSE reservations[r]]

\* Variant: the rows expire and keep their seats.
SeatRowsKept(R) == reservation_seats

\* DELETE FROM reservation_seats for the rows in R.
SeatRowsWithout(R) == {x \in reservation_seats : x.reservation \notin R}

\* Variant: the index is consulted before the overdue locks are swept.
TakenUnswept(e, S, swept) == \E x \in reservation_seats : x.event = e /\ x.seat \in S

\* Variant: only rows that are all in conflict would be noticed.
TakenByAll(e, S, swept) ==
  /\ SeatRowsWithout(swept) # {}
  /\ \A x \in SeatRowsWithout(swept) : x.event = e /\ x.seat \in S

\* Would inserting the seats S of event e break one_active_owner_per_event_seat,
\* once the reservations in swept have lost their rows?
Taken(e, S, swept) ==
  \E x \in SeatRowsWithout(swept) : x.event = e /\ x.seat \in S

SeatRowsFor(r, e, S) == [reservation : {r}, event : {e}, seat : S]

-----------------------------------------------------------------------------
Init ==
  /\ reservations = [r \in {} |-> {}]
  /\ reservation_seats = {}
  /\ clock = 0
  /\ call = [t \in Threads |-> Idle]
  /\ published = {}
  /\ answers = {}

\* Time passes between any two steps.
Tick ==
  /\ clock < MaxClock
  /\ clock' = clock + 1
  /\ UNCHANGED <<tables, call, published, answers>>

\* Thread t goes on to c; the tables, the bus and the clients see nothing.
Continue(t, c) ==
  /\ call' = [call EXCEPT ![t] = c]
  /\ UNCHANGED <<tables, clock, published, answers>>

\* Thread t goes on to c, having committed; the bus and the clients see nothing.
Committed(t, c) ==
  /\ call' = [call EXCEPT ![t] = c]
  /\ UNCHANGED <<clock, published, answers>>

Raise(error) == [pc |-> "raise", error |-> error]

Publish(type, r, k) == [pc |-> "publish", type |-> type, rid |-> r, key |-> k]

\* The reply that get(r) builds inside the write lock, where no writer can run
\* between its two reads, once the reservations in swept have expired.
Reply(r, k, swept) ==
  [pc |-> "return", rid |-> r, key |-> k,
   status |-> WithStatus(swept, "EXPIRED")[r].status,
   seats |-> IF r \in swept THEN {} ELSE SeatsOf(r)]

-----------------------------------------------------------------------------
(* Calls begin.  A client names a reservation it has been told of, or one  *)
(* that does not exist.                                                    *)

Known == {a[2] : a \in answers} \cup {UnknownId}

Begin(t, op, c) ==
  /\ op \in Operations
  /\ call[t] = Idle
  /\ Continue(t, c)

\* The empty set stands for the seat lists that lock_seats rejects: an empty
\* one, and one with duplicates.
BeginLockSeats(t) ==
  \E k \in Keys, e \in Events, S \in SUBSET Seats :
    Begin(t, "lock_seats",
          IF S = {} THEN Raise("ValueError")
          ELSE [pc |-> "lock_seats", key |-> k, event |-> e, seats |-> S, now |-> clock])

BeginConfirm(t, r) ==
  Begin(t, "confirm", [pc |-> "confirm", rid |-> r, now |-> clock])

BeginRelease(t, r) ==
  Begin(t, "release", [pc |-> "release", rid |-> r])

BeginExpireDue(t) ==
  Begin(t, "expire_due", [pc |-> "expire_due", now |-> clock])

BeginSeatStatuses(t) ==
  \E e \in Events :
    Begin(t, "seat_statuses", [pc |-> "seat_statuses", event |-> e, now |-> clock])

BeginGet(t, r) ==
  Begin(t, "get", [pc |-> "get", rid |-> r, key |-> NoKey])

-----------------------------------------------------------------------------
(* lock_seats *)

\* The key was used before: commit the sweep and answer with that reservation,
\* whatever this request asked for.  get() runs inside the write lock.
LockSeatsRetried(t) ==
  LET c == call[t]
      due == Due(c.now)
  IN  /\ c.pc = "lock_seats"
      /\ reservations' = WithStatus(due, "EXPIRED")
      /\ reservation_seats' = SeatRowsWithout(due)
      /\ \E r \in RowsWithKey(c.key) : Committed(t, Reply(r, c.key, due))

\* An index is violated: the rollback undoes the sweep as well.
LockSeatsRefused(t) ==
  LET c == call[t]
  IN  /\ c.pc = "lock_seats"
      /\ RowsWithKey(c.key) = {}
      /\ Taken(c.event, c.seats, Due(c.now))
      /\ Continue(t, Raise("LockConflict"))

LockSeatsGranted(t) ==
  LET c == call[t]
      due == Due(c.now)
  IN  /\ c.pc = "lock_seats"
      /\ RowsWithKey(c.key) = {}
      /\ ~Taken(c.event, c.seats, due)
      /\ \E r \in ReservationIds \ Stored :
           /\ reservations' = [i \in Stored \cup {r} |->
                IF i = r
                THEN [event |-> c.event, status |-> "PENDING",
                      expires_at |-> IsoFormat(c.now + TTL),
                      key |-> c.key, granted |-> c.seats]
                ELSE WithStatus(due, "EXPIRED")[i]]
           /\ reservation_seats' = SeatRowsWithout(due) \cup SeatRowsFor(r, c.event, c.seats)
           /\ Committed(t, Publish("ReservationCreated", r, c.key))

-----------------------------------------------------------------------------
(* confirm *)

ConfirmUnknown(t) ==
  /\ call[t].pc = "confirm"
  /\ call[t].rid \notin Stored
  /\ Continue(t, Raise("ReservationNotFound"))

\* Already confirmed: the reply is read inside the write lock.
ConfirmAgain(t) ==
  /\ call[t].pc = "confirm"
  /\ call[t].rid \in Stored
  /\ reservations[call[t].rid].status = "CONFIRMED"
  /\ Continue(t, Reply(call[t].rid, NoKey, {}))

\* The lock has run out by the time the call read: it expires here.
ConfirmOverdue(t) ==
  LET c == call[t]
  IN  /\ c.pc = "confirm"
      /\ c.rid \in Stored
      /\ reservations[c.rid].status = "PENDING"
      /\ FromIsoFormat(reservations[c.rid].expires_at) <= c.now
      /\ reservations' = WithStatus({c.rid}, "EXPIRED")
      /\ reservation_seats' = SeatRowsWithout({c.rid})
      /\ Committed(t, Raise("InvalidReservationState"))

ConfirmRefused(t) ==
  /\ call[t].pc = "confirm"
  /\ call[t].rid \in Stored
  /\ reservations[call[t].rid].status \in {"EXPIRED", "CANCELLED"}
  /\ Continue(t, Raise("InvalidReservationState"))

\* Variant: confirming drops the seat locks, as the design's sequence diagram
\* draws it for Redis.
ConfirmGrantedUnlocking(t) ==
  LET c == call[t]
  IN  /\ c.pc = "confirm"
      /\ c.rid \in Stored
      /\ reservations[c.rid].status = "PENDING"
      /\ c.now < FromIsoFormat(reservations[c.rid].expires_at)
      /\ reservations' = WithStatus({c.rid}, "CONFIRMED")
      /\ reservation_seats' = SeatRowsWithout({c.rid})
      /\ Committed(t, Publish("ReservationConfirmed", c.rid, NoKey))

\* Variant: a cancelled reservation whose time has not run out is confirmed.
ConfirmGrantedCancelled(t) ==
  LET c == call[t]
  IN  /\ c.pc = "confirm"
      /\ c.rid \in Stored
      /\ reservations[c.rid].status \in {"PENDING", "CANCELLED"}
      /\ c.now < FromIsoFormat(reservations[c.rid].expires_at)
      /\ reservations' = WithStatus({c.rid}, "CONFIRMED")
      /\ UNCHANGED reservation_seats
      /\ Committed(t, Publish("ReservationConfirmed", c.rid, NoKey))

ConfirmGranted(t) ==
  LET c == call[t]
  IN  /\ c.pc = "confirm"
      /\ c.rid \in Stored
      /\ reservations[c.rid].status = "PENDING"
      /\ c.now < FromIsoFormat(reservations[c.rid].expires_at)
      /\ reservations' = WithStatus({c.rid}, "CONFIRMED")
      /\ UNCHANGED reservation_seats
      /\ Committed(t, Publish("ReservationConfirmed", c.rid, NoKey))

-----------------------------------------------------------------------------
(* release *)

ReleaseUnknown(t) ==
  /\ call[t].pc = "release"
  /\ call[t].rid \notin Stored
  /\ Continue(t, Raise("ReservationNotFound"))

\* Variant: a confirmed reservation is left alone, but announced as released.
ReleaseRefusedQuietly(t) ==
  /\ call[t].pc = "release"
  /\ call[t].rid \in Stored
  /\ reservations[call[t].rid].status = "CONFIRMED"
  /\ Continue(t, Publish("ReservationReleased", call[t].rid, NoKey))

ReleaseRefused(t) ==
  /\ call[t].pc = "release"
  /\ call[t].rid \in Stored
  /\ reservations[call[t].rid].status = "CONFIRMED"
  /\ Continue(t, Raise("InvalidReservationState"))

\* Variant: release writes a status of its own.
ReleaseHeldRenamed(t) ==
  LET c == call[t]
  IN  /\ c.pc = "release"
      /\ c.rid \in Stored
      /\ reservations[c.rid].status = "PENDING"
      /\ reservations' = WithStatus({c.rid}, "RELEASED")
      /\ reservation_seats' = SeatRowsWithout({c.rid})
      /\ Committed(t, Publish("ReservationReleased", c.rid, NoKey))

\* Variant: expired reservations are cancelled as well.
ReleaseHeldOrExpired(t) ==
  LET c == call[t]
  IN  /\ c.pc = "release"
      /\ c.rid \in Stored
      /\ reservations[c.rid].status \in {"PENDING", "EXPIRED"}
      /\ reservations' = WithStatus({c.rid}, "CANCELLED")
      /\ reservation_seats' = SeatRowsWithout({c.rid})
      /\ Committed(t, Publish("ReservationReleased", c.rid, NoKey))

ReleaseHeld(t) ==
  LET c == call[t]
  IN  /\ c.pc = "release"
      /\ c.rid \in Stored
      /\ reservations[c.rid].status = "PENDING"
      /\ reservations' = WithStatus({c.rid}, "CANCELLED")
      /\ reservation_seats' = SeatRowsWithout({c.rid})
      /\ Committed(t, Publish("ReservationReleased", c.rid, NoKey))

\* Released or expired before: nothing to do, and the event goes out again.
ReleaseAgain(t) ==
  /\ call[t].pc = "release"
  /\ call[t].rid \in Stored
  /\ reservations[call[t].rid].status \in {"EXPIRED", "CANCELLED"}
  /\ Continue(t, Publish("ReservationReleased", call[t].rid, NoKey))

-----------------------------------------------------------------------------
(* expire_due *)

ExpireDue(t) ==
  LET due == Due(call[t].now)
  IN  /\ call[t].pc = "expire_due"
      /\ reservations' = WithStatus(due, "EXPIRED")
      /\ reservation_seats' = SeatRowsWithout(due)
      /\ Committed(t, [pc |-> "announce", rids |-> due])

\* One round of the loop that publishes what was expired.
Announce(t) ==
  /\ call[t].pc = "announce"
  /\ \E r \in call[t].rids :
       /\ published' = published \cup {<<"ReservationExpired", r>>}
       /\ call' = [call EXCEPT ![t].rids = @ \ {r}]
  /\ UNCHANGED <<tables, clock, answers>>

-----------------------------------------------------------------------------
(* seat_statuses: sweep in one transaction, read the join in another *)

\* Variant: the seat map is read without sweeping first.
SeatStatusesUnswept(t) ==
  /\ call[t].pc = "seat_statuses"
  /\ UNCHANGED tables
  /\ Committed(t, [pc |-> "read_seats", event |-> call[t].event])

SeatStatuses(t) ==
  LET due == Due(call[t].now)
  IN  /\ call[t].pc = "seat_statuses"
      /\ reservations' = WithStatus(due, "EXPIRED")
      /\ reservation_seats' = SeatRowsWithout(due)
      /\ Committed(t, [pc |-> "read_seats", event |-> call[t].event])

\* Variant: every row of reservation_seats counts, whatever its status.
SeatsWithStatusAny(e, status) ==
  {x.seat : x \in {y \in reservation_seats : y.event = e}}

\* SELECT seat_id ... JOIN reservations ... for one event and one status.
SeatsWithStatus(e, status) ==
  {x.seat : x \in {y \in reservation_seats : /\ y.event = e
                                             /\ reservations[y.reservation].status = status}}

ReadSeats(t) ==
  LET e == call[t].event
  IN  /\ call[t].pc = "read_seats"
      /\ Continue(t, [pc |-> "return_seats", event |-> e,
                      locked |-> SeatsWithStatus(e, "PENDING"),
                      booked |-> SeatsWithStatus(e, "CONFIRMED")])

-----------------------------------------------------------------------------
(* publish, get and the reply *)

PublishEvent(t) ==
  LET c == call[t]
  IN  /\ c.pc = "publish"
      /\ published' = published \cup {<<c.type, c.rid>>}
      /\ call' = [call EXCEPT ![t] = [pc |-> "get", rid |-> c.rid, key |-> c.key]]
      /\ UNCHANGED <<tables, clock, answers>>

GetUnknown(t) ==
  /\ call[t].pc = "get"
  /\ call[t].rid \notin Stored
  /\ Continue(t, Raise("ReservationNotFound"))

\* The first SELECT of get().
GetRow(t) ==
  LET c == call[t]
  IN  /\ c.pc = "get"
      /\ c.rid \in Stored
      /\ Continue(t, [pc |-> "get_seats", rid |-> c.rid, key |-> c.key,
                      status |-> reservations[c.rid].status])

\* The second.
GetSeats(t) ==
  LET c == call[t]
  IN  /\ c.pc = "get_seats"
      /\ Continue(t, [pc |-> "return", rid |-> c.rid, key |-> c.key,
                      status |-> c.status, seats |-> SeatsOf(c.rid)])

Finished(c) ==
  \/ c.pc \in {"return", "return_seats", "raise"}
  \/ c.pc = "announce" /\ c.rids = {}

\* The caller has its reply; a lock_seats reply tells it a reservation.
Return(t) ==
  LET c == call[t]
  IN  /\ Finished(c)
      /\ call' = [call EXCEPT ![t] = Idle]
      /\ answers' = IF c.pc = "return" /\ c.key # NoKey
                    THEN answers \cup {<<c.key, c.rid>>} ELSE answers
      /\ UNCHANGED <<tables, clock, published>>

-----------------------------------------------------------------------------
BeginCall(t) ==
  \/ BeginLockSeats(t)
  \/ \E r \in Known : BeginConfirm(t, r) \/ BeginRelease(t, r) \/ BeginGet(t, r)
  \/ BeginExpireDue(t)
  \/ BeginSeatStatuses(t)

LockSeats(t) == LockSeatsRetried(t) \/ LockSeatsRefused(t) \/ LockSeatsGranted(t)

Confirm(t) ==
  ConfirmUnknown(t) \/ ConfirmAgain(t) \/ ConfirmOverdue(t) \/ ConfirmRefused(t) \/ ConfirmGranted(t)

Release(t) == ReleaseUnknown(t) \/ ReleaseRefused(t) \/ ReleaseHeld(t) \/ ReleaseAgain(t)

Get(t) == GetUnknown(t) \/ GetRow(t) \/ GetSeats(t)

\* The steps of a call between its first statement and its reply.
Step(t) ==
  \/ LockSeats(t) \/ Confirm(t) \/ Release(t)
  \/ ExpireDue(t) \/ Announce(t)
  \/ SeatStatuses(t) \/ ReadSeats(t)
  \/ PublishEvent(t) \/ Get(t)

Next ==
  \/ Tick
  \/ \E t \in Threads : BeginCall(t) \/ Step(t) \/ Return(t)

Spec == Init /\ [][Next]_vars

-----------------------------------------------------------------------------
(* Fairness.  A request runs on a thread of its own until it has replied    *)
(* (ThreadingHTTPServer), and time passes.                                  *)
FairSpec ==
  /\ Spec
  /\ WF_vars(Tick)
  /\ \A t \in Threads : WF_vars(Step(t) \/ Return(t))

(* A client that keeps a seat map open polls it every 4 s                   *)
(* (frontend/app.js, startSeatPolling), and the server starts a thread for  *)
(* each poll; the threads here are a bounded pool, so the poll must be      *)
(* granted one whenever that is possible again and again.                   *)
PolledSpec == FairSpec /\ SF_vars(\E t \in Threads : BeginSeatStatuses(t))

-----------------------------------------------------------------------------
(* Properties. *)

\* The status column and the seat rows agree although different statements
\* write them: a live reservation holds exactly the seats it was granted, one
\* that expired or was cancelled holds none, and a row carries its
\* reservation's event (_expire_one, release, lock_seats).
SeatLedger ==
  /\ \A r \in Stored :
       SeatsOf(r) = IF reservations[r].status \in Live THEN reservations[r].granted ELSE {}
  /\ \A x \in reservation_seats :
       x.reservation \in Stored /\ x.event = reservations[x.reservation].event

\* No two live reservations were granted the same seat of an event, whatever
\* lock, confirm, release and sweep calls interleave (the integrity oracle of
\* docs/quality/qa-strategy.md, items 1 and 2).
NoDoubleBooking ==
  \A r, q \in Stored :
    /\ r # q
    /\ reservations[r].event = reservations[q].event
    /\ reservations[r].status \in Live /\ reservations[q].status \in Live
    => reservations[r].granted \cap reservations[q].granted = {}

\* All replies to one idempotency key name one reservation, also when retries
\* run concurrently, or after that reservation expired or was released.
IdempotentReplies ==
  \A a, b \in answers : a[1] = b[1] => a[2] = b[2]

\* A reservation never expires before its time, although the sweep compares
\* texts and confirm compares instants.
NeverExpiredEarly ==
  \A r \in Stored :
    reservations[r].status = "EXPIRED" => FromIsoFormat(reservations[r].expires_at) <= clock

\* A reply with a final status is exact and stays true, however the two
\* reads of get() were interleaved with writers; a PENDING reply shows the
\* granted seats, or none when the reservation has ended in the meantime.
RepliesAreHonest ==
  \A t \in Threads :
    LET c == call[t]
    IN  c.pc = "return" =>
          CASE c.status \in {"EXPIRED", "CANCELLED"} ->
                 c.seats = {} /\ reservations[c.rid].status = c.status
            [] c.status = "CONFIRMED" ->
                 /\ c.seats = reservations[c.rid].granted
                 /\ reservations[c.rid].status = "CONFIRMED"
            [] c.status = "PENDING" ->
                 \/ c.seats = reservations[c.rid].granted
                 \/ c.seats = {} /\ reservations[c.rid].status \notin Live

\* A seat that a seat map shows as booked stays booked.
BookedSeatsStayBooked ==
  \A t \in Threads :
    call[t].pc = "return_seats" =>
      call[t].booked \subseteq SeatsWithStatus(call[t].event, "CONFIRMED")

\* An event on the bus is never contradicted by the table later: confirmed
\* reservations stay confirmed, released and expired ones stay ended.
EventsTellTheTruth ==
  \A p \in published :
    LET status == reservations[p[2]].status
    IN  /\ p[2] \in Stored
        /\ p[1] = "ReservationConfirmed" => status = "CONFIRMED"
        /\ p[1] = "ReservationExpired" => status = "EXPIRED"
        /\ p[1] = "ReservationReleased" => status \in {"EXPIRED", "CANCELLED"}

\* Reservations are never deleted, a row changes in its status only, and a
\* status changes once: from PENDING to a final one.
LegalTransitions ==
  [][\A r \in Stored :
       /\ r \in Stored'
       /\ \E s \in Statuses : reservations'[r] = [reservations[r] EXCEPT !.status = s]
       /\ reservations'[r].status # reservations[r].status => reservations[r].status = "PENDING"
    ]_reservations

\* lock_seats refuses only for a seat that is paid for, or locked by a
\* reservation that has not run out by the time the call read: an overdue
\* lock never stands in the way, although the refusal rolls its sweep back.
RefusalsAreJustified ==
  [][\A t \in Threads :
       call[t].pc = "lock_seats" /\ call'[t].pc = "raise" =>
         \E r \in Stored :
           /\ reservations[r].event = call[t].event
           /\ reservations[r].granted \cap call[t].seats # {}
           /\ \/ reservations[r].status = "CONFIRMED"
              \/ /\ reservations[r].status = "PENDING"
                 /\ call[t].now < FromIsoFormat(reservations[r].expires_at)
    ]_vars

\* As long as some client polls a seat map, every lock that has run out is
\* swept (or was confirmed in time): no seat stays locked for good.
OverdueLocksAreSwept ==
  \A r \in ReservationIds :
    (r \in Stored /\ reservations[r].status = "PENDING"
      /\ FromIsoFormat(reservations[r].expires_at) <= clock)
    ~> (r \in Stored /\ reservations[r].status # "PENDING")
=============================================================================
