------------------------------ MODULE Frontend ------------------------------
(***************************************************************************)
(* One browser tab that runs app.js, over a server that keeps the promises *)
(* of SeatInventory.  JavaScript runs one task at a time; a handler that   *)
(* awaits an answer is split there, and clicks, timers and other answers   *)
(* run in between.  The tab, with the part of local storage it uses, is    *)
(* one record; each function of app.js is an operator from tabs to tabs.   *)
(*                                                                         *)
(* The tab and the server read the same clock.  Admin accounts, the event  *)
(* list, prices and texts are left out: an amount is the event and the set *)
(* of seats it was added up for.  Every seat has a price above zero.       *)
(***************************************************************************)
EXTENDS Naturals, FiniteSets

CONSTANTS Users, Events, Seats, ReservationIds,
          Others,     \* other customers' reservations
          None,       \* null: no user, event, reservation, timer, call, ...
          TTL,        \* how long the server holds a lock
          MaxNow,     \* bound: the clock
          MaxCalls    \* bound: requests under way

VARIABLES holder, sold,   \* server: the seats, see SeatInventory
          grants,         \* server: the reservations of this tab's users
          charges,        \* server: what the gateway was paid, and for which seats
          now,
          browser, calls,
          outrun          \* history: kinds of calls whose answer found the tab elsewhere

server == <<holder, sold, grants, charges>>
vars == <<holder, sold, grants, charges, now, browser, calls, outrun>>

Inventory ==
  INSTANCE SeatInventory WITH Owners <- ReservationIds \cup Others, Nobody <- None

OrNone(S) == S \cup {None}
Slots == 1 .. MaxCalls

Reservation == [id : ReservationIds, user : Users, event : Events,
                seats : SUBSET Seats, expiresAt : Nat]

Stub == [reservation : ReservationIds, ticketOf : ReservationIds,
         event : Events, seats : SUBSET Seats]

\* null is neither a name nor an object; other customers have reservations of
\* their own.
ASSUME FrontendAssumption ==
  /\ None \notin Users \cup Events \cup ReservationIds
  /\ None \notin Reservation
  /\ None \notin Stub
  /\ Others \cap ReservationIds = {}
  /\ TTL \in Nat

\* The fields are those of state in app.js, and of the page: which section is
\* shown, whether the reservation box has replaced the lock button, and which
\* buttons are enabled.  stored and storedUser are in local storage.
Browser ==
  [user : OrNone(Users), activeEvent : OrNone(Events),
   selectedSeats : SUBSET Seats, lockedSeats : SUBSET Seats, bookedSeats : SUBSET Seats,
   reservation : OrNone(Reservation), reservationsByEvent : [Events -> OrNone(Reservation)],
   countdown : OrNone(Nat), polling : BOOLEAN,
   section : {"none", "seats", "ticket"}, boxed : BOOLEAN,
   lockEnabled : BOOLEAN, payEnabled : BOOLEAN,
   stub : OrNone(Stub),
   stored : [Users -> [Events -> OrNone(Reservation)]], storedUser : OrNone(Users)]

Statuses == {"granted", "conflict", "succeeded", "failed", "unknown", "statuses", "ticket", "error"}

\* heard: the tab still waits for the answer.  left (history): the user has
\* gone elsewhere since a ticket was asked for.
Call ==
  [kind : {"lock", "pay", "ticket", "seats"}, user : OrNone(Users), event : OrNone(Events),
   seats : SUBSET Seats, reservation : OrNone(ReservationIds), heard : BOOLEAN,
   left : BOOLEAN,
   answer : OrNone([status : Statuses, reservation : OrNone(Reservation),
                    booked : SUBSET Seats, locked : SUBSET Seats])]

NothingRemembered == [e \in Events |-> None]

Unexpired(m) == [e \in Events |-> IF m[e] # None /\ m[e].expiresAt <= now THEN None ELSE m[e]]

\* A page that has just been loaded for the user in local storage.
FreshPage(stored, user) ==
  [user |-> user, activeEvent |-> None,
   selectedSeats |-> {}, lockedSeats |-> {}, bookedSeats |-> {}, reservation |-> None,
   reservationsByEvent |-> IF user = None THEN NothingRemembered ELSE Unexpired(stored[user]),
   countdown |-> None, polling |-> FALSE, section |-> "none", boxed |-> FALSE,
   lockEnabled |-> FALSE, payEnabled |-> TRUE, stub |-> None,
   stored |-> stored, storedUser |-> user]

Init ==
  /\ Inventory!Init
  /\ grants = [r \in ReservationIds |-> None]
  /\ charges = {}
  /\ now = 0
  /\ browser = FreshPage([u \in Users |-> NothingRemembered], None)
  /\ calls = [n \in Slots |-> None]
  /\ outrun = {}
-----------------------------------------------------------------------------
(* The helpers of app.js. *)

\* rememberReservation and forgetReservation save the whole map for the user.
Remember(b, e, r) ==
  LET m == [b.reservationsByEvent EXCEPT ![e] = r]
  IN  [b EXCEPT !.reservationsByEvent = m,
                !.stored = [u \in Users |-> IF u = b.user THEN m ELSE b.stored[u]]]

Forget(b, e) == Remember(b, e, None)

ForgetActive(b) == IF b.activeEvent = None THEN b ELSE Forget(b, b.activeEvent)

StopCountdown(b) == [b EXCEPT !.countdown = None]

RenderSelection(b) ==
  [b EXCEPT !.lockEnabled = b.selectedSeats # {} /\ b.reservation = None]

\* The reservation is over: back to choosing seats.
BackToChoosing(b) ==
  RenderSelection([ForgetActive(b) EXCEPT !.reservation = None, !.selectedSeats = {}, !.boxed = FALSE])

\* The first tick runs at once; when the time is already up it stops nothing,
\* and the interval is set after it.
StartCountdown(b, expiresAt) ==
  LET c == [b EXCEPT !.countdown = expiresAt]
  IN  IF now >= expiresAt THEN BackToChoosing(c) ELSE c

Request(kind, b) ==
  [kind |-> kind, user |-> b.user, event |-> b.activeEvent, seats |-> b.selectedSeats,
   reservation |-> IF b.reservation = None THEN None ELSE b.reservation.id,
   heard |-> TRUE, left |-> FALSE, answer |-> None]

\* refreshSeatStatus asks for the event that is open, and for nothing if none is.
StatusRequest(b) == IF b.activeEvent = None THEN None ELSE Request("seats", b)

SendAmong(cs, c) ==
  \E n \in Slots :
    /\ cs[n] = None
    /\ \A k \in 1 .. n - 1 : cs[k] # None
    /\ calls' = [cs EXCEPT ![n] = c]

Send(c) == SendAmong(calls, c)

\* The calls after a click that takes the user elsewhere.
CallsLeft ==
  [n \in Slots |-> IF calls[n] # None /\ calls[n].kind = "ticket"
                   THEN [calls[n] EXCEPT !.left = TRUE] ELSE calls[n]]

\* What is left of a call when the tab no longer waits for its answer: a lock
\* or a payment that the server may still get.
Unheard(c) ==
  IF c # None /\ c.kind \in {"lock", "pay"} /\ c.answer = None
  THEN [c EXCEPT !.heard = FALSE] ELSE None
-----------------------------------------------------------------------------
(* What the user does. *)

Login(u) ==
  /\ browser.user = None
  /\ browser' = [browser EXCEPT !.user = u, !.storedUser = u,
                                !.reservationsByEvent = Unexpired(browser.stored[u])]
  /\ UNCHANGED <<server, now, calls, outrun>>

\* Variant: logging out saves the empty map.
LogoutForgetting ==
  /\ browser.user # None
  /\ browser' = [browser EXCEPT !.user = None, !.storedUser = None,
                                !.reservationsByEvent = NothingRemembered,
                                !.stored[browser.user] = NothingRemembered,
                                !.section = "none", !.polling = FALSE, !.countdown = None,
                                !.activeEvent = None, !.selectedSeats = {}, !.reservation = None]
  /\ calls' = CallsLeft
  /\ UNCHANGED <<server, now, outrun>>

Logout ==
  /\ browser.user # None
  /\ browser' = [browser EXCEPT !.user = None, !.storedUser = None,
                                !.reservationsByEvent = NothingRemembered,
                                !.section = "none", !.polling = FALSE, !.countdown = None,
                                !.activeEvent = None, !.selectedSeats = {}, !.reservation = None]
  /\ calls' = CallsLeft
  /\ UNCHANGED <<server, now, outrun>>

\* Variant: the remembered reservation is shown without its countdown.
OpenedUncounted(b, e) ==
  LET r == b.reservationsByEvent[e]
      c == [StopCountdown(b) EXCEPT !.activeEvent = e, !.bookedSeats = {}, !.section = "seats"]
  IN  IF r # None /\ r.expiresAt > now
      THEN [c EXCEPT !.reservation = r, !.selectedSeats = r.seats,
                     !.lockedSeats = r.seats, !.boxed = TRUE, !.payEnabled = TRUE]
      ELSE [(IF r = None THEN c ELSE Forget(c, e)) EXCEPT
              !.reservation = None, !.selectedSeats = {}, !.lockedSeats = {}, !.boxed = FALSE]

\* The event as it opens: with the reservation that is remembered for it,
\* unless that has run out.
Opened(b, e) ==
  LET r == b.reservationsByEvent[e]
      c == [StopCountdown(b) EXCEPT !.activeEvent = e, !.bookedSeats = {}, !.section = "seats"]
  IN  IF r # None /\ r.expiresAt > now
      THEN StartCountdown([c EXCEPT !.reservation = r, !.selectedSeats = r.seats,
                                    !.lockedSeats = r.seats, !.boxed = TRUE, !.payEnabled = TRUE],
                          r.expiresAt)
      ELSE [(IF r = None THEN c ELSE Forget(c, e)) EXCEPT
              !.reservation = None, !.selectedSeats = {}, !.lockedSeats = {}, !.boxed = FALSE]

SelectEvent(e) ==
  /\ browser.user # None
  /\ browser' = [RenderSelection(Opened(browser, e)) EXCEPT !.polling = TRUE]
  /\ SendAmong(CallsLeft, StatusRequest(browser'))
  /\ UNCHANGED <<server, now, outrun>>

\* Variant: the selection can be changed while there is a reservation.
ToggleSeatAnytime(s) ==
  /\ browser.section = "seats"
  /\ s \notin browser.bookedSeats \cup browser.lockedSeats
  /\ browser' = RenderSelection([browser EXCEPT !.selectedSeats =
                  IF s \in @ THEN @ \ {s} ELSE @ \cup {s}])
  /\ UNCHANGED <<server, now, calls, outrun>>

ToggleSeat(s) ==
  /\ browser.section = "seats"
  /\ browser.reservation = None
  /\ s \notin browser.bookedSeats \cup browser.lockedSeats
  /\ browser' = RenderSelection([browser EXCEPT !.selectedSeats =
                  IF s \in @ THEN @ \ {s} ELSE @ \cup {s}])
  /\ UNCHANGED <<server, now, calls, outrun>>

LockSeats ==
  /\ browser.section = "seats" /\ ~browser.boxed /\ browser.lockEnabled
  /\ browser.selectedSeats # {} /\ browser.user # None
  /\ browser' = [browser EXCEPT !.lockEnabled = FALSE]
  /\ Send(Request("lock", browser))
  /\ UNCHANGED <<server, now, outrun>>

PayAndIssue ==
  /\ browser.section = "seats" /\ browser.boxed /\ browser.payEnabled
  /\ browser.reservation # None
  /\ browser' = [browser EXCEPT !.payEnabled = FALSE]
  /\ Send(Request("pay", browser))
  /\ UNCHANGED <<server, now, outrun>>

Restart ==
  /\ browser.section = "ticket"
  /\ browser' = [StopCountdown(browser) EXCEPT
                   !.polling = FALSE, !.activeEvent = None, !.selectedSeats = {},
                   !.lockedSeats = {}, !.bookedSeats = {}, !.reservation = None,
                   !.section = "none"]
  /\ calls' = CallsLeft
  /\ UNCHANGED <<server, now, outrun>>

\* The page is loaded again: answers under way go nowhere, requests may arrive.
Reload ==
  /\ browser' = FreshPage(browser.stored, browser.storedUser)
  /\ calls' = [n \in Slots |-> Unheard(calls[n])]
  /\ UNCHANGED <<server, now, outrun>>
-----------------------------------------------------------------------------
(* Timers. *)

CountdownTick ==
  /\ browser.countdown # None
  /\ now >= browser.countdown
  /\ browser' = BackToChoosing(StopCountdown(browser))
  /\ IF browser.activeEvent = None THEN UNCHANGED calls ELSE Send(StatusRequest(browser'))
  /\ UNCHANGED <<server, now, outrun>>

SeatPoll ==
  /\ browser.polling
  /\ browser.activeEvent # None
  /\ Send(StatusRequest(browser))
  /\ UNCHANGED <<server, now, browser, outrun>>
-----------------------------------------------------------------------------
(* Answers.  Each handler goes on from its await with the tab as it is now. *)

Answered(n, kind, status) ==
  /\ calls[n] # None
  /\ calls[n].heard
  /\ calls[n].kind = kind
  /\ calls[n].answer # None
  /\ calls[n].answer.status = status

\* The handler goes on with a tab that no longer shows what the call was
\* made for: a lock was asked for by another user, for another event or other
\* seats, or there is a reservation by now; a payment or a ticket finds another
\* reservation, or the user has left the event since the ticket was asked for.
Elsewhere(c) ==
  \/ /\ c.kind = "lock"
     /\ \/ <<browser.user, browser.activeEvent, browser.selectedSeats>> # <<c.user, c.event, c.seats>>
        \/ browser.reservation # None
  \/ /\ c.kind \in {"pay", "ticket"}
     /\ c.left \/ (browser.reservation # None /\ browser.reservation.id # c.reservation)

Outruns(n) == outrun' = IF Elsewhere(calls[n]) THEN outrun \cup {calls[n].kind} ELSE outrun

\* The answer is taken, and the handler sends the request c, or none.
Continue(n, c) ==
  /\ calls' = [calls EXCEPT ![n] = c]
  /\ UNCHANGED <<server, now>>

\* Variant: the identifier is kept instead of the reservation.
LockGrantedById(n) ==
  LET r == calls[n].answer.reservation
  IN  /\ Answered(n, "lock", "granted")
      /\ browser.activeEvent # None
      /\ browser' = [Remember(browser, browser.activeEvent, r) EXCEPT
                       !.reservation = r.id, !.boxed = TRUE, !.countdown = r.expiresAt]
      /\ Outruns(n)
      /\ Continue(n, None)

\* Without an open event the handler fails after its first assignment.
LockGranted(n) ==
  LET r == calls[n].answer.reservation
      b == [browser EXCEPT !.reservation = r]
      c == StartCountdown([Remember(b, b.activeEvent, r) EXCEPT
                             !.lockedSeats = @ \cup calls[n].seats,
                             !.boxed = TRUE, !.payEnabled = TRUE], r.expiresAt)
  IN  /\ Answered(n, "lock", "granted")
      /\ Outruns(n)
      /\ IF browser.activeEvent = None
         THEN browser' = [b EXCEPT !.lockEnabled = TRUE] /\ Continue(n, None)
         ELSE browser' = c /\ Continue(n, IF c.reservation = None THEN StatusRequest(c) ELSE None)

LockConflict(n) ==
  LET b == [browser EXCEPT !.lockEnabled = TRUE, !.lockedSeats = @ \cup calls[n].seats,
                           !.selectedSeats = {}]
  IN  /\ Answered(n, "lock", "conflict")
      /\ browser' = IF browser.activeEvent = None THEN b ELSE RenderSelection(b)
      /\ IF browser.reservation = None THEN UNCHANGED outrun ELSE Outruns(n)
      /\ Continue(n, None)

\* Variant: the countdown goes on after the payment.
PaySucceededCounting(n) ==
  LET b == [ForgetActive(browser) EXCEPT !.polling = FALSE]
  IN  /\ Answered(n, "pay", "succeeded")
      /\ Outruns(n)
      /\ IF browser.reservation = None
         THEN browser' = [b EXCEPT !.payEnabled = TRUE] /\ Continue(n, None)
         ELSE browser' = b /\ Continue(n, Request("ticket", b))

\* The ticket is asked for with the reservation that the tab shows by now.
PaySucceeded(n) ==
  LET b == [ForgetActive(StopCountdown(browser)) EXCEPT !.polling = FALSE]
  IN  /\ Answered(n, "pay", "succeeded")
      /\ Outruns(n)
      /\ IF browser.reservation = None
         THEN browser' = [b EXCEPT !.payEnabled = TRUE] /\ Continue(n, None)
         ELSE browser' = b /\ Continue(n, Request("ticket", b))

PayFailed(n) ==
  /\ Answered(n, "pay", "failed")
  /\ Outruns(n)
  /\ browser' = BackToChoosing(StopCountdown(browser))
  /\ Continue(n, StatusRequest(browser))

PayUnknown(n) ==
  /\ Answered(n, "pay", "unknown")
  /\ UNCHANGED outrun
  /\ browser' = [browser EXCEPT !.payEnabled = TRUE]
  /\ Continue(n, None)

\* The stub is filled from the open event, the selection and the reservation.
ShowTicket(n) ==
  /\ Answered(n, "ticket", "ticket")
  /\ Outruns(n)
  /\ browser' = IF browser.activeEvent = None \/ browser.reservation = None
                THEN [browser EXCEPT !.section = "ticket", !.stub = None, !.payEnabled = TRUE]
                ELSE [browser EXCEPT !.section = "ticket",
                                     !.stub = [reservation |-> browser.reservation.id,
                                               ticketOf |-> calls[n].reservation,
                                               event |-> browser.activeEvent,
                                               seats |-> browser.selectedSeats]]
  /\ Continue(n, None)

SeatStatuses(n) ==
  /\ Answered(n, "seats", "statuses")
  /\ browser' = [browser EXCEPT !.bookedSeats = calls[n].answer.booked,
                                !.lockedSeats = calls[n].answer.locked]
  /\ UNCHANGED outrun
  /\ Continue(n, None)

AfterError(b, kind) ==
  CASE kind = "lock" -> [b EXCEPT !.lockEnabled = TRUE]
    [] kind \in {"pay", "ticket"} -> [b EXCEPT !.payEnabled = TRUE]
    [] kind = "seats" -> b

Refused(n) ==
  /\ \E kind \in {"lock", "pay", "ticket", "seats"} : Answered(n, kind, "error")
  /\ browser' = AfterError(browser, calls[n].kind)
  /\ UNCHANGED outrun
  /\ Continue(n, None)

\* The connection breaks: the request may have arrived, or may still.
Lose(n) ==
  /\ calls[n] # None
  /\ calls[n].heard
  /\ browser' = AfterError(browser, calls[n].kind)
  /\ UNCHANGED outrun
  /\ Continue(n, Unheard(calls[n]))

\* A request that nobody waits for does not arrive.
Vanish(n) ==
  /\ calls[n] # None
  /\ ~calls[n].heard
  /\ UNCHANGED <<browser, outrun>>
  /\ Continue(n, None)
-----------------------------------------------------------------------------
(* The server: what SeatInventory allows, with reservations and payments.   *)

Open(n, kind) == calls[n] # None /\ calls[n].kind = kind /\ calls[n].answer = None

Reply(n, status, r, booked, locked) ==
  /\ LET answer == [status |-> status, reservation |-> r, booked |-> booked, locked |-> locked]
     IN  calls' = [calls EXCEPT ![n] = IF @.heard THEN [@ EXCEPT !.answer = answer] ELSE None]
  /\ UNCHANGED <<now, browser, outrun>>

Say(n, status) == Reply(n, status, None, {}, {})

Overdue == {r \in ReservationIds : grants[r] # None /\ grants[r].expiresAt <= now} \ sold

GrantLock(n) ==
  /\ Open(n, "lock")
  /\ \E r \in ReservationIds :
       LET g == [id |-> r, user |-> calls[n].user, event |-> calls[n].event,
                 seats |-> calls[n].seats, expiresAt |-> now + TTL]
       IN  /\ grants[r] = None
           /\ Inventory!Lock(r, calls[n].event, calls[n].seats, Overdue)
           /\ grants' = [grants EXCEPT ![r] = g]
           /\ Reply(n, "granted", g, {}, {})
  /\ UNCHANGED charges

RefuseLock(n) ==
  /\ Open(n, "lock")
  /\ \E s \in calls[n].seats : Inventory!After(Overdue)[<<calls[n].event, s>>] # None
  /\ Say(n, "conflict")
  /\ UNCHANGED server

\* checkout() rejects an amount of zero before it calls the gateway.
Payable(n) == Open(n, "pay") /\ calls[n].seats # {}

Charge(n) ==
  charges' = charges \cup {[reservation |-> calls[n].reservation,
                           event |-> calls[n].event, seats |-> calls[n].seats]}

\* A successful charge confirms the reservation while its lock lasts; a
\* reservation that is confirmed stays so, a lock that has run out is an error.
SettleSuccess(n) ==
  LET r == calls[n].reservation
  IN  /\ Payable(n)
      /\ Charge(n)
      /\ \/ r \in sold /\ Say(n, "succeeded") /\ UNCHANGED <<holder, sold>>
         \/ /\ r \notin sold /\ r \notin Overdue /\ Inventory!SeatsOf(r) # {}
            /\ Inventory!Book(r)
            /\ Say(n, "succeeded")
         \/ /\ r \notin sold /\ (r \in Overdue \/ Inventory!SeatsOf(r) = {})
            /\ Inventory!Lapse({r})
            /\ Say(n, "error")
      /\ UNCHANGED grants

SettleFailure(n) ==
  LET r == calls[n].reservation
  IN  /\ Payable(n)
      /\ \/ r \in sold /\ Say(n, "error") /\ UNCHANGED <<holder, sold>>
         \/ r \notin sold /\ Inventory!Lapse({r}) /\ Say(n, "failed")
      /\ UNCHANGED <<grants, charges>>

SettleUnknown(n) == Payable(n) /\ Say(n, "unknown") /\ UNCHANGED server

\* The amount is zero; or the gateway raises, having charged or not.
RefusePayment(n) ==
  /\ Open(n, "pay")
  /\ UNCHANGED charges \/ (Payable(n) /\ Charge(n))
  /\ Say(n, "error")
  /\ UNCHANGED <<holder, sold, grants>>

GetTicket(n) ==
  /\ Open(n, "ticket")
  /\ Say(n, IF calls[n].reservation \in sold THEN "ticket" ELSE "error")
  /\ UNCHANGED server

GetSeats(n) ==
  LET after == Inventory!After(Overdue)
      held == {s \in Seats : after[<<calls[n].event, s>>] # None}
      booked == {s \in held : after[<<calls[n].event, s>>] \in sold}
  IN  /\ Open(n, "seats")
      /\ Inventory!Lapse(Overdue)
      /\ Reply(n, "statuses", None, booked, held \ booked)
      /\ UNCHANGED <<grants, charges>>

\* Other customers lock, book, and let go.
OtherCustomers ==
  /\ \/ \E o \in Others, e \in Events, S \in SUBSET Seats : Inventory!Lock(o, e, S, Overdue)
     \/ \E o \in Others : Inventory!Book(o)
     \/ \E o \in Others \ sold : Inventory!SeatsOf(o) # {} /\ Inventory!Lapse({o})
  /\ UNCHANGED <<grants, charges, now, browser, calls, outrun>>

Tick ==
  /\ now < MaxNow
  /\ now' = now + 1
  /\ UNCHANGED <<server, browser, calls, outrun>>
-----------------------------------------------------------------------------
User ==
  \/ \E u \in Users : Login(u)
  \/ Logout
  \/ \E e \in Events : SelectEvent(e)
  \/ \E s \in Seats : ToggleSeat(s)
  \/ LockSeats \/ PayAndIssue \/ Restart \/ Reload

Server(n) ==
  \/ GrantLock(n) \/ RefuseLock(n)
  \/ SettleSuccess(n) \/ SettleFailure(n) \/ SettleUnknown(n) \/ RefusePayment(n)
  \/ GetTicket(n) \/ GetSeats(n)

Answer(n) ==
  \/ LockGranted(n) \/ LockConflict(n)
  \/ PaySucceeded(n) \/ PayFailed(n) \/ PayUnknown(n)
  \/ ShowTicket(n) \/ SeatStatuses(n) \/ Refused(n)

Next ==
  \/ User
  \/ CountdownTick \/ SeatPoll \/ Tick
  \/ \E n \in Slots : Server(n) \/ Answer(n) \/ Lose(n) \/ Vanish(n)
  \/ OtherCustomers

Spec == Init /\ [][Next]_vars
-----------------------------------------------------------------------------
\* The tab, its requests and the server's records are what app.js can hold.
FrontendTypeOK ==
  /\ browser \in Browser
  /\ calls \in [Slots -> OrNone(Call)]
  /\ grants \in [ReservationIds -> OrNone(Reservation)]
  /\ \A r \in ReservationIds : grants[r] = None => Inventory!SeatsOf(r) = {}
  /\ outrun \subseteq {"lock", "pay", "ticket"}

\* Whatever the user does while answers are awaited, only the answer to a lock
\* that finds the tab elsewhere can break these: a reservation on the screen is
\* of the event that is open and of the seats that are selected, and local
\* storage keeps each reservation under its own user and event.
ScreenIsConsistent ==
  "lock" \notin outrun =>
    /\ browser.reservation # None =>
         /\ browser.reservation.event = browser.activeEvent
         /\ browser.reservation.seats = browser.selectedSeats
    /\ \A u \in Users, e \in Events :
         LET r == browser.stored[u][e]
         IN  r # None => r.user = u /\ r.event = e

\* Every charge is for the seats, at the prices, of the reservation that it
\* settles, although the amount is added up in the browser from what it shows;
\* only the answer to a lock that finds the tab elsewhere can break it.
ChargesAreForTheSeats ==
  "lock" \notin outrun =>
    \A c \in charges : /\ c.event = grants[c.reservation].event
                       /\ c.seats = grants[c.reservation].seats

\* The stub shows a paid reservation, its own ticket, event and seats, unless
\* some answer has found the tab elsewhere.
TicketIsTheReservation ==
  outrun = {} /\ browser.section = "ticket" =>
    /\ browser.stub # None
    /\ browser.stub.reservation \in sold
    /\ browser.stub.ticketOf = browser.stub.reservation
    /\ browser.stub.event = grants[browser.stub.reservation].event
    /\ browser.stub.seats = grants[browser.stub.reservation].seats

\* The answers to a lock and to a payment that have found the tab elsewhere.
Astray == outrun \cap {"lock", "pay"}

\* A reservation on the screen that is not paid counts down to its own end,
\* unless the answer to a lock or to a payment has found the tab elsewhere.
CountdownRuns ==
  Astray = {} /\ browser.reservation # None /\ browser.reservation.id \notin sold =>
    browser.countdown = browser.reservation.expiresAt

\* A reservation that is still pending on the server is never lost from local
\* storage: leaving an event, logging out or loading the page again brings it
\* back.  Only the answer to a lock or to a payment that finds the tab elsewhere
\* overwrites it or removes it.
Pending(r) == Inventory!SeatsOf(r.id) # {} /\ r.id \notin sold /\ now < r.expiresAt
PendingIsRemembered ==
  [][Astray' = {} =>
       \A u \in Users, e \in Events :
         LET r == browser.stored[u][e]
         IN  r # None /\ browser'.stored[u][e] # r => ~Pending(r)]_vars

\* The comment on state.reservation: it is the one of the active event.
ReservationIsOfActiveEvent ==
  browser.reservation # None /\ browser.activeEvent # None =>
    browser.reservation.event = browser.activeEvent
=============================================================================
