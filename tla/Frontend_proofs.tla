--------------------------- MODULE Frontend_proofs ---------------------------
(***************************************************************************)
(* Theorems about the browser tab, for any users, events, seats,           *)
(* reservations, requests under way and length of a lock, and for every    *)
(* order of clicks, timers and answers.                                    *)
(***************************************************************************)
EXTENDS Frontend, TLAPS

-----------------------------------------------------------------------------
(* The inductive invariant. *)

\* The reservation r is as the server granted it.
Granted(r) == grants[r.id] = r

\* The reservation r has run out.
Over(r) == r # None /\ r.expiresAt <= now

\* The server's records: reservations have their own identifiers, only those
\* that were granted hold or have bought seats, or are charged for.
ServerOK ==
  /\ grants \in [ReservationIds -> OrNone(Reservation)]
  /\ now \in Nat
  /\ \A r \in ReservationIds : grants[r] # None => grants[r].id = r
  /\ \A r \in ReservationIds : grants[r] = None => Inventory!SeatsOf(r) = {} /\ r \notin sold
  /\ \A c \in charges : c.reservation \in ReservationIds /\ grants[c.reservation] # None

Said(c, status) == c.answer # None /\ c.answer.status = status

\* What a request names is on the server, and what an answer says is still so.
CallOK(c) ==
  /\ c \in Call
  /\ c.kind = "lock" =>
       /\ c.user # None /\ c.event # None
       /\ Said(c, "granted") =>
            /\ c.answer.reservation # None
            /\ Granted(c.answer.reservation)
            /\ c.answer.reservation.user = c.user
            /\ c.answer.reservation.event = c.event
            /\ c.answer.reservation.seats = c.seats
  /\ c.kind = "pay" =>
       /\ c.reservation # None
       /\ grants[c.reservation] # None
       /\ Said(c, "succeeded") => c.reservation \in sold
       /\ Said(c, "failed") => Inventory!SeatsOf(c.reservation) = {} /\ c.reservation \notin sold
  /\ c.kind = "ticket" =>
       /\ c.reservation # None
       /\ Said(c, "ticket") => c.reservation \in sold

CallsOK ==
  /\ calls \in [Slots -> OrNone(Call)]
  /\ \A n \in Slots : calls[n] # None => CallOK(calls[n])

RemembersGranted(b) ==
  /\ \A e \in Events : b.reservationsByEvent[e] # None => Granted(b.reservationsByEvent[e])
  /\ \A u \in Users, e \in Events : b.stored[u][e] # None => Granted(b.stored[u][e])

\* Whatever the tab has of a reservation, the server granted it; an event is
\* open for a user only, and seats are shown of an open event only.
TabOK(b) ==
  /\ b \in Browser
  /\ b.user = None => b.activeEvent = None
  /\ b.section = "seats" => b.activeEvent # None
  /\ b.reservation # None => Granted(b.reservation)
  /\ RemembersGranted(b)

Base == ServerOK /\ CallsOK /\ TabOK(browser) /\ outrun \subseteq {"lock", "pay", "ticket"}

\* In local storage each user has its own reservations, under their events.
Own(b) ==
  \A u \in Users, e \in Events : b.stored[u][e] # None =>
    b.stored[u][e].user = u /\ b.stored[u][e].event = e

\* What is in memory is what is stored for the user, but for what has run out.
Kept(b) ==
  b.user # None => \A e \in Events :
    \/ b.reservationsByEvent[e] = b.stored[b.user][e]
    \/ b.reservationsByEvent[e] = None /\ Over(b.stored[b.user][e])

\* What is remembered for the open event is on the screen.
OnScreen(b) ==
  b.activeEvent # None =>
    b.reservationsByEvent[b.activeEvent] = None \/ b.reservationsByEvent[b.activeEvent] = b.reservation

\* What is on the screen is of the open event, and its seats are selected.
Shows(b) ==
  b.reservation # None =>
    b.reservation.event = b.activeEvent /\ b.reservation.seats = b.selectedSeats

InPlace(b) == Own(b) /\ Kept(b) /\ OnScreen(b) /\ Shows(b)

\* The event and the seats of c are those of its reservation.
ForItsSeats(c) ==
  c.event = grants[c.reservation].event /\ c.seats = grants[c.reservation].seats

PaymentsRight ==
  /\ \A n \in Slots : calls[n] # None /\ calls[n].kind = "pay" => ForItsSeats(calls[n])
  /\ \A c \in charges : ForItsSeats(c)

Counts(b) == b.reservation # None /\ b.reservation.id \notin sold =>
               b.countdown = b.reservation.expiresAt

\* A ticket that the tab waits for, the user not having left since.
Awaits(c) == c # None /\ c.kind = "ticket" /\ c.heard /\ ~c.left

\* The ticket is that of the reservation on the screen, bought and not counted down.
AtTheTicket(b, c) ==
  /\ b.reservation # None /\ b.reservation.id = c.reservation
  /\ c.reservation \in sold /\ b.countdown = None

ShowsTheTicket(b) ==
  b.section = "ticket" =>
    /\ b.stub # None
    /\ b.stub.reservation \in sold
    /\ b.stub.ticketOf = b.stub.reservation
    /\ b.stub.event = grants[b.stub.reservation].event
    /\ b.stub.seats = grants[b.stub.reservation].seats

FrontendInv ==
  /\ Base
  /\ "lock" \notin outrun => InPlace(browser) /\ PaymentsRight
  /\ Astray = {} => Counts(browser)
  /\ outrun = {} => /\ \A n \in Slots : Awaits(calls[n]) => AtTheTicket(browser, calls[n])
                    /\ ShowsTheTicket(browser)

-----------------------------------------------------------------------------
(* The functions of app.js make tabs of tabs. *)

\* null and every value are among the optional values.
LEMMA Optional == \A S : None \in OrNone(S) /\ \A x \in S : x \in OrNone(S)
  BY DEF OrNone

\* What is remembered for an event leaves a tab a tab.
LEMMA RememberType ==
  ASSUME NEW b \in Browser, NEW e \in Events, NEW r \in OrNone(Reservation)
  PROVE  Remember(b, e, r) \in Browser
<1> DEFINE m == [b.reservationsByEvent EXCEPT ![e] = r]
           st == [u \in Users |-> IF u = b.user THEN m ELSE b.stored[u]]
<1>1. /\ b.reservationsByEvent \in [Events -> OrNone(Reservation)]
      /\ b.stored \in [Users -> [Events -> OrNone(Reservation)]]
  BY Zenon DEF Browser
<1>2. m \in [Events -> OrNone(Reservation)]
  BY <1>1
<1>3. st \in [Users -> [Events -> OrNone(Reservation)]]
  BY <1>1, <1>2
<1>4. Remember(b, e, r) = [b EXCEPT !.reservationsByEvent = m, !.stored = st]
  BY DEF Remember
<1> QED BY <1>2, <1>3, <1>4, Zenon DEF Browser

\* So does forgetting it,
LEMMA ForgetActiveType ==
  ASSUME NEW b \in Browser
  PROVE  ForgetActive(b) \in Browser
<1>1. CASE b.activeEvent = None
  BY <1>1 DEF ForgetActive
<1>2. CASE b.activeEvent # None
  <2>1. b.activeEvent \in Events
    <3>1. b.activeEvent \in OrNone(Events) BY Zenon DEF Browser
    <3> QED BY <3>1, <1>2 DEF OrNone
  <2> QED BY <1>2, <2>1, RememberType, Optional DEF ForgetActive, Forget
<1> QED BY <1>1, <1>2

\* stopping the countdown,
LEMMA StopCountdownType ==
  ASSUME NEW b \in Browser
  PROVE  StopCountdown(b) \in Browser
  BY Optional, Zenon DEF StopCountdown, Browser

\* drawing the selection,
LEMMA RenderSelectionType ==
  ASSUME NEW b \in Browser
  PROVE  RenderSelection(b) \in Browser
<1>1. (b.selectedSeats # {} /\ b.reservation = None) \in BOOLEAN
  OBVIOUS
<1> QED BY <1>1, Zenon DEF RenderSelection, Browser

\* and going back to choosing.
LEMMA BackToChoosingType ==
  ASSUME NEW b \in Browser
  PROVE  BackToChoosing(b) \in Browser
<1> DEFINE f == ForgetActive(b)
           c == [f EXCEPT !.reservation = None, !.selectedSeats = {}, !.boxed = FALSE]
<1>1. f \in Browser
  BY ForgetActiveType
<1>2. {} \in SUBSET Seats
  OBVIOUS
<1>3. c \in Browser
  <2> HIDE DEF f
  <2> QED BY <1>1, <1>2, Optional, Zenon DEF Browser
<1>4. BackToChoosing(b) = RenderSelection(c)
  BY DEF BackToChoosing
<1> QED
  <2> HIDE DEF c
  <2> QED BY <1>3, <1>4, RenderSelectionType

\* What the tab asks for is a request, whatever is on the screen.
LEMMA RequestType ==
  ASSUME NEW b \in Browser, NEW kind \in {"lock", "pay", "ticket", "seats"}
  PROVE  Request(kind, b) \in Call
<1>1. /\ b.user \in OrNone(Users) /\ b.activeEvent \in OrNone(Events)
      /\ b.selectedSeats \in SUBSET Seats /\ b.reservation \in OrNone(Reservation)
  BY Zenon DEF Browser
<1>2. ASSUME b.reservation # None
      PROVE  b.reservation.id \in ReservationIds
  BY <1>1, <1>2 DEF OrNone, Reservation
<1>3. (IF b.reservation = None THEN None ELSE b.reservation.id) \in OrNone(ReservationIds)
  BY <1>2, Optional
<1> QED BY <1>1, <1>3, Optional, Zenon DEF Request, Call

\* What is read back from local storage is what has not run out.
LEMMA UnexpiredType ==
  ASSUME NEW m \in [Events -> OrNone(Reservation)]
  PROVE  Unexpired(m) \in [Events -> OrNone(Reservation)]
  BY DEF Unexpired, OrNone

\* The parts of an answer.
LEMMA AnswerTypes ==
  ASSUME NEW c \in Call, c.answer # None
  PROVE  /\ c.answer.reservation \in OrNone(Reservation)
         /\ c.answer.booked \in SUBSET Seats /\ c.answer.locked \in SUBSET Seats
<1> DEFINE A == [status : Statuses, reservation : OrNone(Reservation),
                 booked : SUBSET Seats, locked : SUBSET Seats]
<1>1. c.answer \in OrNone(A)
  BY Zenon DEF Call
<1>2. c.answer \in A
  <2> HIDE DEF A
  <2> QED BY <1>1 DEF OrNone
<1> QED BY <1>2

\* The parts of a request.
LEMMA CallTypes ==
  ASSUME NEW c \in Call
  PROVE  /\ c.user \in OrNone(Users) /\ c.event \in OrNone(Events)
         /\ c.seats \in SUBSET Seats /\ c.reservation \in OrNone(ReservationIds)
         /\ c.kind \in {"lock", "pay", "ticket", "seats"}
         /\ c.heard \in BOOLEAN /\ c.left \in BOOLEAN
  BY Zenon DEF Call

-----------------------------------------------------------------------------
(* What a step does to the tab b, that becomes d. *)

SamePlace(b, d) == d.user = b.user /\ d.activeEvent = b.activeEvent

SameScreen(b, d) ==
  /\ d.selectedSeats = b.selectedSeats /\ d.reservation = b.reservation
  /\ d.countdown = b.countdown /\ d.section = b.section /\ d.stub = b.stub

SameMemory(b, d) == d.reservationsByEvent = b.reservationsByEvent /\ d.stored = b.stored

\* r is remembered for e, and all that is remembered is saved for the user.
Records(b, d, e, r) ==
  /\ d.reservationsByEvent = [b.reservationsByEvent EXCEPT ![e] = r]
  /\ d.stored = [u \in Users |-> IF u = b.user THEN d.reservationsByEvent ELSE b.stored[u]]

Forgets(b, d) ==
  IF b.activeEvent = None THEN SameMemory(b, d) ELSE Records(b, d, b.activeEvent, None)

Recalls(b, d, u) ==
  d.user = u /\ d.stored = b.stored /\ d.reservationsByEvent = Unexpired(b.stored[u])

\* Buttons, polls and seat colours only.
Quiet(b, d) == SamePlace(b, d) /\ SameScreen(b, d) /\ SameMemory(b, d)

LogsIn(b, d) ==
  /\ b.user = None /\ \E u \in Users : Recalls(b, d, u)
  /\ d.activeEvent = b.activeEvent /\ SameScreen(b, d)

\* A logout, a reload or a new booking.
Leaves(b, d) ==
  /\ d.activeEvent = None /\ d.selectedSeats = {} /\ d.reservation = None
  /\ d.countdown = None /\ d.section = "none"
  /\ \/ d.user = None /\ d.reservationsByEvent = NothingRemembered /\ d.stored = b.stored
     \/ \E u \in Users : Recalls(b, d, u)
     \/ d.user = b.user /\ SameMemory(b, d)

Opens(b, d, e) ==
  LET r == b.reservationsByEvent[e]
  IN  /\ b.user # None /\ d.user = b.user /\ d.activeEvent = e
      /\ d.section = "seats"
      /\ \/ /\ r # None /\ ~Over(r)
            /\ d.reservation = r /\ d.selectedSeats = r.seats /\ d.countdown = r.expiresAt
            /\ SameMemory(b, d)
         \/ /\ d.reservation = None /\ d.selectedSeats = {} /\ d.countdown = None
            /\ r = None => SameMemory(b, d)
            /\ r # None => Over(r) /\ Records(b, d, e, None)

\* Another selection, while nothing is reserved.
Selects(b, d) ==
  /\ SamePlace(b, d) /\ SameMemory(b, d)
  /\ b.reservation = None /\ d.reservation = None
  /\ d.countdown = b.countdown /\ d.section = b.section /\ d.stub = b.stub

\* The reservation is over.
Ends(b, d) ==
  /\ SamePlace(b, d) /\ Forgets(b, d)
  /\ d.reservation = None /\ d.selectedSeats = {} /\ d.countdown = None
  /\ d.section = b.section /\ d.stub = b.stub

\* The lock r was granted: no event is open, or it is shown, or it is over already.
TakesLock(b, d, r) ==
  /\ SamePlace(b, d) /\ d.section = b.section /\ d.stub = b.stub
  /\ \/ /\ b.activeEvent = None
        /\ d.reservation = r /\ d.selectedSeats = b.selectedSeats /\ d.countdown = b.countdown
        /\ SameMemory(b, d)
     \/ /\ b.activeEvent # None
        /\ d.reservation = r /\ d.selectedSeats = b.selectedSeats /\ d.countdown = r.expiresAt
        /\ Records(b, d, b.activeEvent, r)
     \/ /\ b.activeEvent # None
        /\ d.reservation = None /\ d.selectedSeats = {} /\ d.countdown = r.expiresAt
        /\ Records(b, d, b.activeEvent, None)

LosesSelection(b, d) ==
  /\ SamePlace(b, d) /\ SameMemory(b, d)
  /\ d.selectedSeats = {} /\ d.reservation = b.reservation
  /\ d.countdown = b.countdown /\ d.section = b.section /\ d.stub = b.stub

Pays(b, d) ==
  /\ SamePlace(b, d) /\ Forgets(b, d)
  /\ d.selectedSeats = b.selectedSeats /\ d.reservation = b.reservation
  /\ d.countdown = None /\ d.section = b.section /\ d.stub = b.stub

\* The ticket that c asked for is shown, whatever the tab shows by now.
ShowsStub(b, d, c) ==
  /\ SamePlace(b, d) /\ SameMemory(b, d)
  /\ d.selectedSeats = b.selectedSeats /\ d.reservation = b.reservation
  /\ d.countdown = b.countdown /\ d.section = "ticket"
  /\ b.activeEvent # None /\ b.reservation # None =>
       d.stub = [reservation |-> b.reservation.id, ticketOf |-> c.reservation,
                 event |-> b.activeEvent, seats |-> b.selectedSeats]

-----------------------------------------------------------------------------
(* The functions of app.js, in these words. *)

\* What rememberReservation changes, and what it leaves alone.
LEMMA RememberFields ==
  ASSUME NEW b \in Browser, NEW e \in Events, NEW r
  PROVE  /\ Records(b, Remember(b, e, r), e, r)
         /\ SamePlace(b, Remember(b, e, r)) /\ SameScreen(b, Remember(b, e, r))
  BY DEF Remember, Browser, Records, SamePlace, SameScreen

\* Forgetting for the open event touches memory and local storage only.
LEMMA ForgetActiveFields ==
  ASSUME NEW b \in Browser
  PROVE  /\ Forgets(b, ForgetActive(b))
         /\ SamePlace(b, ForgetActive(b)) /\ SameScreen(b, ForgetActive(b))
<1>1. CASE b.activeEvent = None
  BY <1>1 DEF ForgetActive, Forgets, SameMemory, SamePlace, SameScreen
<1>2. CASE b.activeEvent # None
  <2>1. b.activeEvent \in Events
    <3>1. b.activeEvent \in OrNone(Events) BY Zenon DEF Browser
    <3> QED BY <3>1, <1>2 DEF OrNone
  <2>2. ForgetActive(b) = Remember(b, b.activeEvent, None)
    BY <1>2 DEF ForgetActive, Forget
  <2> QED BY <1>2, <2>1, <2>2, RememberFields DEF Forgets
<1> QED BY <1>1, <1>2

\* Back to choosing, the tab has no reservation and no selection.
LEMMA BackToChoosingFields ==
  ASSUME NEW b \in Browser
  PROVE  LET d == BackToChoosing(b)
         IN  /\ SamePlace(b, d) /\ Forgets(b, d)
             /\ d.reservation = None /\ d.selectedSeats = {} /\ d.countdown = b.countdown
             /\ d.section = b.section /\ d.stub = b.stub
<1>1. PICK f : f = ForgetActive(b) OBVIOUS
<1>2. f \in Browser /\ Forgets(b, f) /\ SamePlace(b, f) /\ SameScreen(b, f)
  BY <1>1, ForgetActiveType, ForgetActiveFields
<1>3. PICK c : c = [f EXCEPT !.reservation = None, !.selectedSeats = {}, !.boxed = FALSE]
  OBVIOUS
<1>4. /\ c.reservation = None /\ c.selectedSeats = {} /\ c.countdown = f.countdown
      /\ c.user = f.user /\ c.activeEvent = f.activeEvent
      /\ c.section = f.section /\ c.stub = f.stub
      /\ c.reservationsByEvent = f.reservationsByEvent /\ c.stored = f.stored
      /\ c \in Browser
  <2>1. {} \in SUBSET Seats OBVIOUS
  <2>2. c \in Browser BY <1>2, <1>3, <2>1, Optional, Zenon DEF Browser
  <2> QED BY <1>2, <1>3, <2>2 DEF Browser
<1>5. PICK d : d = RenderSelection(c) OBVIOUS
<1>6. /\ d.reservation = None /\ d.selectedSeats = {} /\ d.countdown = c.countdown
      /\ d.user = c.user /\ d.activeEvent = c.activeEvent
      /\ d.section = c.section /\ d.stub = c.stub
      /\ d.reservationsByEvent = c.reservationsByEvent /\ d.stored = c.stored
  BY <1>4, <1>5 DEF RenderSelection, Browser
<1>7. d = BackToChoosing(b)
  BY <1>1, <1>3, <1>5 DEF BackToChoosing
<1>8. /\ SamePlace(b, d) /\ Forgets(b, d)
      /\ d.reservation = None /\ d.selectedSeats = {} /\ d.countdown = b.countdown
      /\ d.section = b.section /\ d.stub = b.stub
  BY <1>2, <1>4, <1>6 DEF SamePlace, SameScreen, Forgets, SameMemory, Records
<1> QED BY <1>7, <1>8

\* The countdown is stopped, and the reservation is over.
LEMMA EndsFields ==
  ASSUME NEW b \in Browser
  PROVE  LET d == BackToChoosing(StopCountdown(b)) IN d \in Browser /\ Ends(b, d)
<1>1. PICK a : a = StopCountdown(b) OBVIOUS
<1>2. a \in Browser
  BY <1>1, StopCountdownType
<1>3. /\ SamePlace(b, a) /\ SameMemory(b, a) /\ a.countdown = None
      /\ a.section = b.section /\ a.stub = b.stub
  BY <1>1 DEF StopCountdown, Browser, SamePlace, SameMemory
<1>4. PICK d : d = BackToChoosing(a) OBVIOUS
<1>5. d \in Browser
  BY <1>2, <1>4, BackToChoosingType
<1>6. /\ SamePlace(a, d) /\ Forgets(a, d)
      /\ d.reservation = None /\ d.selectedSeats = {} /\ d.countdown = a.countdown
      /\ d.section = a.section /\ d.stub = a.stub
  BY <1>2, <1>4, BackToChoosingFields
<1>7. Ends(b, d)
  BY <1>3, <1>6 DEF Ends, SamePlace, SameMemory, Forgets, Records
<1> QED BY <1>1, <1>4, <1>5, <1>7

\* Drawing the selection changes a button.
LEMMA RenderFields ==
  ASSUME NEW b \in Browser
  PROVE  RenderSelection(b) \in Browser /\ Quiet(b, RenderSelection(b))
<1>1. Quiet(b, RenderSelection(b))
  BY DEF RenderSelection, Browser, Quiet, SamePlace, SameScreen, SameMemory
<1> QED BY <1>1, RenderSelectionType

-----------------------------------------------------------------------------
(* What each action does to the tab. *)

\* A login recalls what is stored for the user.
LEMMA LoginMove ==
  ASSUME browser \in Browser, NEW u \in Users, Login(u)
  PROVE  browser' \in Browser /\ LogsIn(browser, browser')
<1>1. PICK m : m = Unexpired(browser.stored[u]) OBVIOUS
<1>2. browser' = [browser EXCEPT !.user = u, !.storedUser = u, !.reservationsByEvent = m]
  BY <1>1 DEF Login
<1>3. m \in [Events -> OrNone(Reservation)]
  <2>1. browser.stored \in [Users -> [Events -> OrNone(Reservation)]] BY Zenon DEF Browser
  <2>2. browser.stored[u] \in [Events -> OrNone(Reservation)] BY <2>1
  <2> QED BY <1>1, <2>2, UnexpiredType
<1>4. browser' \in Browser
  BY <1>2, <1>3, Optional, Zenon DEF Browser
<1>5. LogsIn(browser, browser')
  BY <1>1, <1>2 DEF Login, Browser, LogsIn, Recalls, SameScreen
<1> QED BY <1>4, <1>5

\* A logout leaves the event, and what is stored.
LEMMA LogoutMove ==
  ASSUME browser \in Browser, Logout
  PROVE  browser' \in Browser /\ Leaves(browser, browser')
<1>1. browser' = [browser EXCEPT !.user = None, !.storedUser = None,
                                 !.reservationsByEvent = NothingRemembered,
                                 !.section = "none", !.polling = FALSE, !.countdown = None,
                                 !.activeEvent = None, !.selectedSeats = {}, !.reservation = None]
  BY DEF Logout
<1>2. browser' \in Browser
  <2>1. NothingRemembered \in [Events -> OrNone(Reservation)]
    BY Optional DEF NothingRemembered
  <2>2. {} \in SUBSET Seats OBVIOUS
  <2> QED BY <1>1, <2>1, <2>2, Optional, Zenon DEF Browser
<1>3. Leaves(browser, browser')
  BY <1>1 DEF Browser, Leaves
<1> QED BY <1>2, <1>3

\* So does a new booking,
LEMMA RestartMove ==
  ASSUME browser \in Browser, Restart
  PROVE  browser' \in Browser /\ Leaves(browser, browser')
<1>1. PICK a : a = StopCountdown(browser) OBVIOUS
<1>2. a \in Browser /\ a.user = browser.user /\ SameMemory(browser, a) /\ a.countdown = None
  BY <1>1, StopCountdownType DEF StopCountdown, Browser, SameMemory
<1>3. browser' = [a EXCEPT !.polling = FALSE, !.activeEvent = None, !.selectedSeats = {},
                           !.lockedSeats = {}, !.bookedSeats = {}, !.reservation = None,
                           !.section = "none"]
  BY <1>1 DEF Restart
<1>4. browser' \in Browser
  <2>1. {} \in SUBSET Seats OBVIOUS
  <2> QED BY <1>2, <1>3, <2>1, Optional, Zenon DEF Browser
<1>5. Leaves(browser, browser')
  BY <1>2, <1>3 DEF Browser, Leaves, SameMemory
<1> QED BY <1>4, <1>5

\* and a reload.
LEMMA ReloadMove ==
  ASSUME browser \in Browser, Reload
  PROVE  browser' \in Browser /\ Leaves(browser, browser')
<1>1. PICK u : u = browser.storedUser OBVIOUS
<1>2. PICK st : st = browser.stored OBVIOUS
<1>3. PICK m : m = IF u = None THEN NothingRemembered ELSE Unexpired(st[u]) OBVIOUS
<1>4. u \in OrNone(Users) /\ st \in [Users -> [Events -> OrNone(Reservation)]]
  BY <1>1, <1>2, Zenon DEF Browser
<1>5. browser' = [user |-> u, activeEvent |-> None,
                  selectedSeats |-> {}, lockedSeats |-> {}, bookedSeats |-> {},
                  reservation |-> None, reservationsByEvent |-> m,
                  countdown |-> None, polling |-> FALSE, section |-> "none", boxed |-> FALSE,
                  lockEnabled |-> FALSE, payEnabled |-> TRUE, stub |-> None,
                  stored |-> st, storedUser |-> u]
  BY <1>1, <1>2, <1>3 DEF Reload, FreshPage
<1>6. m \in [Events -> OrNone(Reservation)]
  <2>1. CASE u = None
    BY <1>3, <2>1, Optional DEF NothingRemembered
  <2>2. CASE u # None
    <3>1. st[u] \in [Events -> OrNone(Reservation)] BY <1>4, <2>2 DEF OrNone
    <3> QED BY <1>3, <2>2, <3>1, UnexpiredType
  <2> QED BY <2>1, <2>2
<1>7. browser' \in Browser
  <2>1. {} \in SUBSET Seats OBVIOUS
  <2> QED BY <1>4, <1>5, <1>6, <2>1, Optional, Zenon DEF Browser
<1>8. Leaves(browser, browser')
  <2>1. /\ browser'.activeEvent = None /\ browser'.selectedSeats = {}
        /\ browser'.reservation = None /\ browser'.countdown = None
        /\ browser'.section = "none" /\ browser'.user = u
        /\ browser'.reservationsByEvent = m /\ browser'.stored = browser.stored
    BY <1>2, <1>5
  <2> QED BY <1>2, <1>3, <1>4, <2>1 DEF Leaves, Recalls, OrNone
<1> QED BY <1>7, <1>8

\* An event opens with what is remembered for it, or with nothing.
LEMMA OpenedFields ==
  ASSUME NEW b \in Browser, NEW e \in Events, b.user # None, now \in Nat
  PROVE  Opened(b, e) \in Browser /\ Opens(b, Opened(b, e), e)
<1> USE DEF SameMemory
<1>1. PICK r : r = b.reservationsByEvent[e] OBVIOUS
<1>2. PICK a : a = [StopCountdown(b) EXCEPT !.activeEvent = e, !.bookedSeats = {},
                                            !.section = "seats"]
  OBVIOUS
<1>3. a \in Browser
  <2>1. StopCountdown(b) \in Browser BY StopCountdownType
  <2>2. {} \in SUBSET Seats OBVIOUS
  <2> QED BY <1>2, <2>1, <2>2, Optional, Zenon DEF Browser
<1>4. /\ a.user = b.user /\ a.activeEvent = e /\ a.section = "seats" /\ a.countdown = None
      /\ SameMemory(b, a)
  BY <1>2 DEF StopCountdown, Browser
<1>5. r # None => r \in Reservation /\ r.seats \in SUBSET Seats /\ r.expiresAt \in Nat
  <2>1. b.reservationsByEvent \in [Events -> OrNone(Reservation)] BY Zenon DEF Browser
  <2>2. r \in OrNone(Reservation) BY <1>1, <2>1
  <2> QED BY <2>2 DEF OrNone, Reservation
<1>6. CASE r # None /\ r.expiresAt > now
  <2>1. PICK c : c = [a EXCEPT !.reservation = r, !.selectedSeats = r.seats,
                               !.lockedSeats = r.seats, !.boxed = TRUE, !.payEnabled = TRUE]
    OBVIOUS
  <2>2. c \in Browser
    BY <1>3, <1>5, <1>6, <2>1, Optional, Zenon DEF Browser
  <2>3. /\ c.user = b.user /\ c.activeEvent = e /\ c.section = "seats"
        /\ c.reservation = r /\ c.selectedSeats = r.seats /\ SameMemory(b, c)
    BY <1>3, <1>4, <2>1 DEF Browser
  <2>4. PICK d : d = [c EXCEPT !.countdown = r.expiresAt] OBVIOUS
  <2>5. Opened(b, e) = d
    <3>1. ~(now >= r.expiresAt) BY <1>5, <1>6
    <3> QED BY <1>1, <1>2, <1>6, <2>1, <2>4, <3>1 DEF Opened, StartCountdown
  <2>6. d \in Browser
    BY <1>5, <1>6, <2>2, <2>4, Optional, Zenon DEF Browser
  <2>7. /\ d.user = b.user /\ d.activeEvent = e /\ d.section = "seats"
        /\ d.reservation = r /\ d.selectedSeats = r.seats /\ d.countdown = r.expiresAt
        /\ SameMemory(b, d)
    BY <2>2, <2>3, <2>4 DEF Browser
  <2>8. ~Over(r) BY <1>5, <1>6 DEF Over
  <2> QED BY <1>1, <1>6, <2>5, <2>6, <2>7, <2>8 DEF Opens
<1>7. CASE ~(r # None /\ r.expiresAt > now)
  <2>1. PICK f : f = IF r = None THEN a ELSE Forget(a, e) OBVIOUS
  <2>2. /\ f \in Browser /\ SamePlace(a, f) /\ SameScreen(a, f)
        /\ r = None => SameMemory(a, f)
        /\ r # None => Records(a, f, e, None)
    <3>1. CASE r = None
      BY <1>3, <2>1, <3>1 DEF SamePlace, SameScreen
    <3>2. CASE r # None
      <4>1. f = Remember(a, e, None) BY <2>1, <3>2 DEF Forget
      <4> QED BY <1>3, <3>2, <4>1, RememberType, RememberFields, Optional
    <3> QED BY <3>1, <3>2
  <2>3. PICK d : d = [f EXCEPT !.reservation = None, !.selectedSeats = {}, !.lockedSeats = {},
                               !.boxed = FALSE]
    OBVIOUS
  <2>4. Opened(b, e) = d
    BY <1>1, <1>2, <1>7, <2>1, <2>3 DEF Opened
  <2>5. d \in Browser
    <3>1. {} \in SUBSET Seats OBVIOUS
    <3> QED BY <2>2, <2>3, <3>1, Optional, Zenon DEF Browser
  <2>6. /\ SamePlace(f, d) /\ SameMemory(f, d) /\ d.section = f.section
        /\ d.countdown = f.countdown /\ d.reservation = None /\ d.selectedSeats = {}
    BY <2>2, <2>3 DEF Browser, SamePlace
  <2>7. r # None => Over(r) BY <1>5, <1>7 DEF Over, ServerOK
  <2> QED BY <1>1, <1>4, <2>2, <2>4, <2>5, <2>6, <2>7
       DEF Opens, SamePlace, SameScreen, Records
<1> QED BY <1>6, <1>7

\* A click on an event opens it.
LEMMA SelectEventMove ==
  ASSUME browser \in Browser, now \in Nat, NEW e \in Events, SelectEvent(e)
  PROVE  browser' \in Browser /\ Opens(browser, browser', e)
<1>1. PICK b : b = Opened(browser, e) OBVIOUS
<1>2. b \in Browser /\ Opens(browser, b, e)
  BY <1>1, OpenedFields DEF SelectEvent
<1>3. PICK c : c = RenderSelection(b) OBVIOUS
<1>4. c \in Browser /\ Quiet(b, c)
  BY <1>2, <1>3, RenderFields
<1>5. browser' = [c EXCEPT !.polling = TRUE]
  BY <1>1, <1>3 DEF SelectEvent
<1>6. browser' \in Browser /\ Quiet(c, browser')
  <2>1. browser' \in Browser BY <1>4, <1>5, Zenon DEF Browser
  <2> QED BY <1>4, <1>5, <2>1 DEF Browser, Quiet, SamePlace, SameScreen, SameMemory
<1>7. Opens(browser, browser', e)
  BY <1>2, <1>4, <1>6 DEF Opens, Quiet, SamePlace, SameScreen, SameMemory, Records
<1> QED BY <1>6, <1>7

\* A click on a seat changes the selection, where nothing is reserved.
LEMMA ToggleSeatMove ==
  ASSUME browser \in Browser, NEW s \in Seats, ToggleSeat(s)
  PROVE  browser' \in Browser /\ Selects(browser, browser')
<1>1. PICK S : S = IF s \in browser.selectedSeats THEN browser.selectedSeats \ {s}
                   ELSE browser.selectedSeats \cup {s}
  OBVIOUS
<1>2. PICK a : a = [browser EXCEPT !.selectedSeats = S] OBVIOUS
<1>3. a \in Browser
  <2>1. browser.selectedSeats \in SUBSET Seats BY Zenon DEF Browser
  <2>2. S \in SUBSET Seats BY <1>1, <2>1
  <2> QED BY <1>2, <2>2, Zenon DEF Browser
<1>4. browser' = RenderSelection(a)
  BY <1>1, <1>2 DEF ToggleSeat
<1>5. browser' \in Browser /\ Quiet(a, browser')
  BY <1>3, <1>4, RenderFields
<1>6. Selects(browser, browser')
  BY <1>2, <1>5 DEF ToggleSeat, Browser, Selects, Quiet, SamePlace, SameScreen, SameMemory
<1> QED BY <1>5, <1>6

\* Enabling a button changes nothing else.
LEMMA ButtonMoves ==
  ASSUME NEW b \in Browser, NEW x \in BOOLEAN
  PROVE  /\ [b EXCEPT !.payEnabled = x] \in Browser /\ Quiet(b, [b EXCEPT !.payEnabled = x])
         /\ [b EXCEPT !.lockEnabled = x] \in Browser /\ Quiet(b, [b EXCEPT !.lockEnabled = x])
<1>1. [b EXCEPT !.payEnabled = x] \in Browser /\ [b EXCEPT !.lockEnabled = x] \in Browser
  BY Zenon DEF Browser
<1>2. Quiet(b, [b EXCEPT !.payEnabled = x]) /\ Quiet(b, [b EXCEPT !.lockEnabled = x])
  BY DEF Browser, Quiet, SamePlace, SameScreen, SameMemory
<1> QED BY <1>1, <1>2

\* An error enables a button.
LEMMA AfterErrorMove ==
  ASSUME NEW b \in Browser, NEW kind \in {"lock", "pay", "ticket", "seats"}
  PROVE  AfterError(b, kind) \in Browser /\ Quiet(b, AfterError(b, kind))
<1>1. CASE kind = "lock"
  BY <1>1, ButtonMoves DEF AfterError
<1>2. CASE kind \in {"pay", "ticket"}
  BY <1>2, ButtonMoves DEF AfterError
<1>3. CASE kind = "seats"
  BY <1>3 DEF AfterError, Quiet, SamePlace, SameScreen, SameMemory
<1> QED BY <1>1, <1>2, <1>3

\* What is known of a call when its answer is taken.
LEMMA AnsweredCall ==
  ASSUME CallsOK, NEW n \in Slots, NEW kind, NEW status, Answered(n, kind, status)
  PROVE  /\ calls[n] # None /\ calls[n].kind = kind /\ calls[n].heard
         /\ calls[n] \in Call /\ CallOK(calls[n]) /\ Said(calls[n], status)
  BY DEF CallsOK, CallOK, Answered, Said

\* What a lock that was granted says.
LEMMA GrantedAnswer ==
  ASSUME NEW c, CallOK(c), c.kind = "lock", Said(c, "granted")
  PROVE  /\ c.user \in Users /\ c.event \in Events
         /\ c.answer.reservation \in Reservation /\ c.answer.reservation # None
         /\ Granted(c.answer.reservation)
         /\ c.answer.reservation.user = c.user
         /\ c.answer.reservation.event = c.event
         /\ c.answer.reservation.seats = c.seats
         /\ c.answer.reservation.expiresAt \in Nat
<1>1. c \in Call /\ c.user # None /\ c.event # None /\ c.answer.reservation # None
  BY DEF CallOK
<1>2. c.user \in Users /\ c.event \in Events
  BY <1>1, CallTypes DEF OrNone
<1>3. PICK r : r = c.answer.reservation OBVIOUS
<1>4. r \in Reservation
  BY <1>1, <1>3, AnswerTypes DEF Said, OrNone
<1>5. r.expiresAt \in Nat BY <1>4 DEF Reservation
<1> QED BY <1>1, <1>2, <1>3, <1>4, <1>5 DEF CallOK

\* The answer to a lock is taken by the tab as it is by then.
LEMMA LockGrantedMove ==
  ASSUME browser \in Browser, CallsOK, now \in Nat, NEW n \in Slots, LockGranted(n)
  PROVE  /\ browser' \in Browser
         /\ TakesLock(browser, browser', calls[n].answer.reservation)
<1>1. PICK r : r = calls[n].answer.reservation OBVIOUS
<1>2. PICK S : S = calls[n].seats OBVIOUS
<1>3. /\ r \in Reservation /\ r # None /\ r.expiresAt \in Nat /\ S \in SUBSET Seats
  <2>1. /\ CallOK(calls[n]) /\ calls[n].kind = "lock" /\ Said(calls[n], "granted")
        /\ calls[n] \in Call
    BY AnsweredCall DEF LockGranted
  <2>2. S \in SUBSET Seats BY <1>2, <2>1, CallTypes
  <2> QED BY <1>1, <2>1, <2>2, GrantedAnswer
<1>4. PICK b : b = [browser EXCEPT !.reservation = r] OBVIOUS
<1>5. /\ b \in Browser /\ b.reservation = r /\ SamePlace(browser, b) /\ SameMemory(browser, b)
      /\ b.selectedSeats = browser.selectedSeats /\ b.countdown = browser.countdown
      /\ b.section = browser.section /\ b.stub = browser.stub
  <2>1. b \in Browser BY <1>3, <1>4, Optional, Zenon DEF Browser
  <2> QED BY <1>4, <2>1 DEF Browser, SamePlace, SameMemory
<1>6. CASE browser.activeEvent = None
  <2>1. browser' = [b EXCEPT !.lockEnabled = TRUE]
    BY <1>1, <1>4, <1>6 DEF LockGranted
  <2>2. browser' \in Browser /\ Quiet(b, browser')
    BY <1>5, <2>1, ButtonMoves
  <2> QED BY <1>1, <1>5, <1>6, <2>2 DEF TakesLock, Quiet, SamePlace, SameScreen, SameMemory
<1>7. CASE browser.activeEvent # None
  <2>1. PICK e : e = browser.activeEvent OBVIOUS
  <2>2. e \in Events /\ e # None /\ b.activeEvent = e
    <3>1. browser.activeEvent \in OrNone(Events) BY Zenon DEF Browser
    <3> QED BY <1>5, <1>7, <2>1, <3>1 DEF OrNone, SamePlace
  <2>3. PICK m : m = Remember(b, e, r) OBVIOUS
  <2>4. m \in Browser /\ Records(b, m, e, r) /\ SamePlace(b, m) /\ SameScreen(b, m)
    BY <1>3, <1>5, <2>2, <2>3, RememberType, RememberFields, Optional
  <2>5. PICK x : x = [m EXCEPT !.lockedSeats = @ \cup S, !.boxed = TRUE, !.payEnabled = TRUE]
    OBVIOUS
  <2>6. x \in Browser
    <3>1. m.lockedSeats \in SUBSET Seats BY <2>4, Zenon DEF Browser
    <3>2. m.lockedSeats \cup S \in SUBSET Seats BY <1>3, <3>1
    <3>3. x = [m EXCEPT !.lockedSeats = m.lockedSeats \cup S, !.boxed = TRUE,
                        !.payEnabled = TRUE]
      BY <2>4, <2>5 DEF Browser
    <3> QED BY <2>4, <3>2, <3>3, Zenon DEF Browser
  <2>7. Quiet(m, x)
    BY <2>4, <2>5 DEF Browser, Quiet, SamePlace, SameScreen, SameMemory
  <2>8. browser' = StartCountdown(x, r.expiresAt)
    BY <1>1, <1>2, <1>4, <1>7, <2>2, <2>3, <2>5 DEF LockGranted
  <2>9. PICK y : y = [x EXCEPT !.countdown = r.expiresAt] OBVIOUS
  <2>10. /\ y \in Browser /\ SamePlace(x, y) /\ SameMemory(x, y) /\ y.countdown = r.expiresAt
         /\ y.selectedSeats = x.selectedSeats /\ y.reservation = x.reservation
         /\ y.section = x.section /\ y.stub = x.stub
    <3>1. y \in Browser BY <1>3, <2>6, <2>9, Optional, Zenon DEF Browser
    <3> QED BY <2>6, <2>9, <3>1 DEF Browser, SamePlace, SameMemory
  <2>11. /\ SamePlace(browser, y) /\ Records(browser, y, e, r) /\ y.reservation = r
         /\ y.selectedSeats = browser.selectedSeats
         /\ y.section = browser.section /\ y.stub = browser.stub
    BY <1>5, <2>4, <2>7, <2>10 DEF Records, Quiet, SamePlace, SameScreen, SameMemory
  <2>12. CASE ~(now >= r.expiresAt)
    <3>1. browser' = y BY <2>8, <2>9, <2>12 DEF StartCountdown
    <3> QED BY <1>1, <1>7, <2>1, <2>10, <2>11, <3>1 DEF TakesLock
  <2>13. CASE now >= r.expiresAt
    <3>1. browser' = BackToChoosing(y) BY <2>8, <2>9, <2>13 DEF StartCountdown
    <3>2. PICK d : d = browser' OBVIOUS
    <3>3. /\ d \in Browser /\ SamePlace(y, d) /\ Forgets(y, d)
          /\ d.reservation = None /\ d.selectedSeats = {} /\ d.countdown = y.countdown
          /\ d.section = y.section /\ d.stub = y.stub
      BY <2>10, <3>1, <3>2, BackToChoosingType, BackToChoosingFields
    <3>4. y.activeEvent = e BY <2>1, <2>11 DEF SamePlace
    <3>5. Records(y, d, e, None)
      BY <2>2, <3>3, <3>4 DEF Forgets
    <3>6. Records(browser, d, e, None)
      <4>1. browser.reservationsByEvent \in [Events -> OrNone(Reservation)]
        BY Zenon DEF Browser
      <4>2. /\ y.user = browser.user
            /\ y.reservationsByEvent = [browser.reservationsByEvent EXCEPT ![e] = r]
            /\ y.stored = [u \in Users |-> IF u = browser.user THEN y.reservationsByEvent
                                           ELSE browser.stored[u]]
        BY <2>11 DEF Records, SamePlace
      <4>3. d.reservationsByEvent = [browser.reservationsByEvent EXCEPT ![e] = None]
        BY <2>2, <3>5, <4>1, <4>2 DEF Records
      <4>4. d.stored = [u \in Users |-> IF u = browser.user THEN d.reservationsByEvent
                                        ELSE browser.stored[u]]
        BY <3>5, <4>2 DEF Records
      <4> QED BY <4>3, <4>4 DEF Records
    <3>7. SamePlace(browser, d) /\ d.section = browser.section /\ d.stub = browser.stub
      BY <2>11, <3>3 DEF SamePlace
    <3> QED BY <1>1, <1>7, <2>1, <2>10, <3>2, <3>3, <3>6, <3>7 DEF TakesLock
  <2> QED BY <2>12, <2>13
<1> QED BY <1>6, <1>7

\* A lock that is refused takes the selection.
LEMMA LockConflictMove ==
  ASSUME browser \in Browser, CallsOK, NEW n \in Slots, LockConflict(n)
  PROVE  browser' \in Browser /\ LosesSelection(browser, browser')
<1>1. PICK S : S = browser.lockedSeats \cup calls[n].seats OBVIOUS
<1>2. PICK b : b = [browser EXCEPT !.lockEnabled = TRUE, !.lockedSeats = S, !.selectedSeats = {}]
  OBVIOUS
<1>3. b \in Browser
  <2>1. calls[n].seats \in SUBSET Seats
    BY AnsweredCall, CallTypes DEF LockConflict
  <2>2. browser.lockedSeats \in SUBSET Seats BY Zenon DEF Browser
  <2>3. S \in SUBSET Seats /\ {} \in SUBSET Seats BY <1>1, <2>1, <2>2
  <2> QED BY <1>2, <2>3, Zenon DEF Browser
<1>4. LosesSelection(browser, b)
  BY <1>2 DEF Browser, LosesSelection, SamePlace, SameMemory
<1>5. browser' = IF browser.activeEvent = None THEN b ELSE RenderSelection(b)
  BY <1>1, <1>2 DEF LockConflict, Browser
<1>6. browser' \in Browser /\ Quiet(b, browser')
  <2>1. CASE browser.activeEvent = None
    BY <1>3, <1>5, <2>1 DEF Quiet, SamePlace, SameScreen, SameMemory
  <2>2. CASE browser.activeEvent # None
    BY <1>3, <1>5, <2>2, RenderFields
  <2> QED BY <2>1, <2>2
<1> QED BY <1>4, <1>6 DEF LosesSelection, Quiet, SamePlace, SameScreen, SameMemory

\* The tab after a payment, as the ticket is asked for.
LEMMA PaySucceededMove ==
  ASSUME browser \in Browser, NEW n \in Slots, PaySucceeded(n)
  PROVE  /\ browser' \in Browser /\ Pays(browser, browser')
         /\ browser.reservation = None => Continue(n, None)
         /\ browser.reservation # None => Continue(n, Request("ticket", browser'))
<1>1. PICK a : a = StopCountdown(browser) OBVIOUS
<1>2. /\ a \in Browser /\ SamePlace(browser, a) /\ SameMemory(browser, a)
      /\ a.selectedSeats = browser.selectedSeats /\ a.reservation = browser.reservation
      /\ a.countdown = None /\ a.section = browser.section /\ a.stub = browser.stub
  BY <1>1, StopCountdownType DEF StopCountdown, Browser, SamePlace, SameMemory
<1>3. PICK f : f = ForgetActive(a) OBVIOUS
<1>4. f \in Browser /\ Forgets(a, f) /\ SamePlace(a, f) /\ SameScreen(a, f)
  BY <1>2, <1>3, ForgetActiveType, ForgetActiveFields
<1>5. PICK b : b = [f EXCEPT !.polling = FALSE] OBVIOUS
<1>6. b \in Browser /\ Quiet(f, b)
  <2>1. b \in Browser BY <1>4, <1>5, Zenon DEF Browser
  <2> QED BY <1>4, <1>5, <2>1 DEF Browser, Quiet, SamePlace, SameScreen, SameMemory
<1>7. IF browser.reservation = None
      THEN browser' = [b EXCEPT !.payEnabled = TRUE] /\ Continue(n, None)
      ELSE browser' = b /\ Continue(n, Request("ticket", b))
  BY <1>1, <1>3, <1>5 DEF PaySucceeded
<1>8. browser' \in Browser /\ Quiet(b, browser')
  <2>1. CASE browser.reservation = None
    BY <1>6, <1>7, <2>1, ButtonMoves
  <2>2. CASE browser.reservation # None
    BY <1>6, <1>7, <2>2 DEF Quiet, SamePlace, SameScreen, SameMemory
  <2> QED BY <2>1, <2>2
<1>9. Pays(browser, browser')
  BY <1>2, <1>4, <1>6, <1>8 DEF Pays, Quiet, SamePlace, SameScreen, SameMemory, Forgets, Records
<1> QED BY <1>7, <1>8, <1>9

\* The stub is filled from the tab as it is by then.
LEMMA ShowTicketMove ==
  ASSUME browser \in Browser, CallsOK, NEW n \in Slots, ShowTicket(n)
  PROVE  browser' \in Browser /\ ShowsStub(browser, browser', calls[n])
<1>1. calls[n].reservation \in ReservationIds
  <2>1. CallOK(calls[n]) /\ calls[n].kind = "ticket" /\ calls[n] \in Call
    BY AnsweredCall DEF ShowTicket
  <2> QED BY <2>1, CallTypes DEF CallOK, OrNone
<1>2. CASE browser.activeEvent = None \/ browser.reservation = None
  <2>1. browser' = [browser EXCEPT !.section = "ticket", !.stub = None, !.payEnabled = TRUE]
    BY <1>2 DEF ShowTicket
  <2>2. browser' \in Browser BY <2>1, Optional, Zenon DEF Browser
  <2>3. ShowsStub(browser, browser', calls[n])
    BY <1>2, <2>1 DEF Browser, ShowsStub, SamePlace, SameMemory
  <2> QED BY <2>2, <2>3
<1>3. CASE browser.activeEvent # None /\ browser.reservation # None
  <2>1. PICK s : s = [reservation |-> browser.reservation.id, ticketOf |-> calls[n].reservation,
                      event |-> browser.activeEvent, seats |-> browser.selectedSeats]
    OBVIOUS
  <2>2. browser' = [browser EXCEPT !.section = "ticket", !.stub = s]
    BY <1>3, <2>1 DEF ShowTicket
  <2>3. s \in Stub
    <3>1. /\ browser.reservation \in OrNone(Reservation) /\ browser.activeEvent \in OrNone(Events)
          /\ browser.selectedSeats \in SUBSET Seats
      BY Zenon DEF Browser
    <3>2. browser.reservation.id \in ReservationIds /\ browser.activeEvent \in Events
      BY <1>3, <3>1 DEF OrNone, Reservation
    <3> QED BY <1>1, <2>1, <3>1, <3>2 DEF Stub
  <2>4. browser' \in Browser BY <2>2, <2>3, Optional, Zenon DEF Browser
  <2>5. ShowsStub(browser, browser', calls[n])
    BY <2>1, <2>2 DEF Browser, ShowsStub, SamePlace, SameMemory
  <2> QED BY <2>4, <2>5
<1> QED BY <1>2, <1>3

\* The seats are drawn as the server says.
LEMMA SeatStatusesMove ==
  ASSUME browser \in Browser, CallsOK, NEW n \in Slots, SeatStatuses(n)
  PROVE  browser' \in Browser /\ Quiet(browser, browser')
<1>1. PICK B, L : B = calls[n].answer.booked /\ L = calls[n].answer.locked OBVIOUS
<1>2. browser' = [browser EXCEPT !.bookedSeats = B, !.lockedSeats = L]
  BY <1>1 DEF SeatStatuses
<1>3. B \in SUBSET Seats /\ L \in SUBSET Seats
  <2>1. calls[n] \in Call /\ Said(calls[n], "statuses") BY AnsweredCall DEF SeatStatuses
  <2> QED BY <1>1, <2>1, AnswerTypes DEF Said
<1>4. browser' \in Browser
  BY <1>2, <1>3, Zenon DEF Browser
<1>5. Quiet(browser, browser')
  BY <1>2 DEF Browser, Quiet, SamePlace, SameScreen, SameMemory
<1> QED BY <1>4, <1>5

-----------------------------------------------------------------------------
(* What the server does: it keeps what it has granted, sold and taken back. *)

ServerMoves ==
  /\ now' \in Nat /\ now <= now'
  /\ sold \subseteq sold'
  /\ \A r \in ReservationIds : grants[r] # None =>
       /\ grants'[r] = grants[r]
       /\ Inventory!SeatsOf(r) = {} =>
            Inventory!SeatsOf(r)' = {} /\ (r \notin sold => r \notin sold')

\* Every charge was made before, or is made for a payment under way.
ChargesCome ==
  \A c \in charges' : \/ c \in charges
                      \/ \E n \in Slots : /\ calls[n] # None /\ calls[n].kind = "pay"
                                          /\ c.reservation = calls[n].reservation
                                          /\ c.event = calls[n].event
                                          /\ c.seats = calls[n].seats

ServerGoesOn == ServerOK' /\ ServerMoves /\ ChargesCome

\* A lapse takes seats away, all of those it is about, and gives none.
LEMMA LapseFrees ==
  ASSUME NEW L, Inventory!Lapse(L)
  PROVE  /\ sold' = sold /\ L \cap sold = {}
         /\ \A o : o # None => (Inventory!SeatsOf(o) = {} => Inventory!SeatsOf(o)' = {})
         /\ \A o \in L : o # None => Inventory!SeatsOf(o)' = {}
  BY DEF Inventory!Lapse, Inventory!After, Inventory!SeatsOf

\* A lock gives seats to its owner alone.
LEMMA LockTakes ==
  ASSUME NEW o, NEW e, NEW S, NEW L, Inventory!Lock(o, e, S, L)
  PROVE  /\ sold' = sold /\ o \notin sold
         /\ \A q : q # o /\ q # None => (Inventory!SeatsOf(q) = {} => Inventory!SeatsOf(q)' = {})
  BY DEF Inventory!Lock, Inventory!After, Inventory!SeatsOf

\* A booking sells to one who holds seats, and moves none.
LEMMA BookSells ==
  ASSUME NEW o, Inventory!Book(o)
  PROVE  /\ sold' = sold \cup {o} /\ Inventory!SeatsOf(o) # {}
         /\ \A q : Inventory!SeatsOf(q)' = Inventory!SeatsOf(q)
  BY DEF Inventory!Book, Inventory!SeatsOf

\* A step that grants nothing: seats may be let go, or sold to who holds them.
LEMMA InventoryStep ==
  ASSUME ServerOK, CallsOK, UNCHANGED <<grants, now>>, ChargesCome, sold \subseteq sold',
         \A r \in ReservationIds : Inventory!SeatsOf(r) = {} => Inventory!SeatsOf(r)' = {},
         \A r \in ReservationIds : r \in sold' /\ r \notin sold => Inventory!SeatsOf(r) # {}
  PROVE  ServerGoesOn
<1>1. ServerMoves
  BY DEF ServerOK, ServerMoves
<1>2. \A r \in ReservationIds : grants'[r] = None => Inventory!SeatsOf(r)' = {} /\ r \notin sold'
  BY DEF ServerOK
<1>3. ASSUME NEW c \in charges'
      PROVE  c.reservation \in ReservationIds /\ grants[c.reservation] # None
  <2>1. CASE c \in charges
    BY <2>1 DEF ServerOK
  <2>2. CASE c \notin charges
    <3>1. PICK n \in Slots : /\ calls[n] # None /\ calls[n].kind = "pay"
                             /\ c.reservation = calls[n].reservation
      BY <1>3, <2>2 DEF ChargesCome
    <3>2. calls[n] \in Call /\ calls[n].reservation # None /\ grants[calls[n].reservation] # None
      BY <3>1 DEF CallsOK, CallOK
    <3> QED BY <3>1, <3>2, CallTypes DEF OrNone
  <2> QED BY <2>1, <2>2
<1>4. ServerOK'
  BY <1>2, <1>3 DEF ServerOK
<1> QED BY <1>1, <1>4 DEF ServerGoesOn

\* A step of the tab leaves the server alone.
LEMMA ServerStill ==
  ASSUME ServerOK, CallsOK, UNCHANGED <<server, now>>
  PROVE  ServerGoesOn
<1>1. ChargesCome
  BY DEF ChargesCome, server
<1> QED BY <1>1, InventoryStep DEF server, Inventory!SeatsOf

\* The reservation that is granted to a lock is new, and for what it asks.
LEMMA GrantOf ==
  ASSUME ServerOK, CallsOK, NEW n \in Slots, GrantLock(n)
  PROVE  \E g \in Reservation :
           /\ grants[g.id] = None /\ g.id \in ReservationIds /\ g # None
           /\ g.user = calls[n].user /\ g.event = calls[n].event /\ g.seats = calls[n].seats
           /\ Inventory!Lock(g.id, calls[n].event, calls[n].seats, Overdue)
           /\ grants' = [grants EXCEPT ![g.id] = g]
           /\ Reply(n, "granted", g, {}, {})
<1>1. /\ calls[n] \in Call /\ CallOK(calls[n]) /\ calls[n].kind = "lock"
  BY DEF CallsOK, CallOK, GrantLock, Open
<1>2. PICK r \in ReservationIds :
        LET g == [id |-> r, user |-> calls[n].user, event |-> calls[n].event,
                  seats |-> calls[n].seats, expiresAt |-> now + TTL]
        IN  /\ grants[r] = None
            /\ Inventory!Lock(r, calls[n].event, calls[n].seats, Overdue)
            /\ grants' = [grants EXCEPT ![r] = g]
            /\ Reply(n, "granted", g, {}, {})
  BY DEF GrantLock
<1>3. PICK g : g = [id |-> r, user |-> calls[n].user, event |-> calls[n].event,
                    seats |-> calls[n].seats, expiresAt |-> now + TTL]
  OBVIOUS
<1>4. g \in Reservation
  <2>1. calls[n].user \in Users /\ calls[n].event \in Events /\ calls[n].seats \in SUBSET Seats
    BY <1>1, CallTypes DEF CallOK, OrNone
  <2>2. now + TTL \in Nat BY FrontendAssumption DEF ServerOK
  <2> QED BY <1>3, <2>1, <2>2 DEF Reservation
<1>5. /\ g.id = r /\ g # None
      /\ g.user = calls[n].user /\ g.event = calls[n].event /\ g.seats = calls[n].seats
  BY <1>3, <1>4, FrontendAssumption
<1>6. /\ grants' = [grants EXCEPT ![r] = g] /\ Reply(n, "granted", g, {}, {})
  BY <1>2, <1>3
<1> QED BY <1>2, <1>4, <1>5, <1>6

\* A lock that is granted changes no other reservation.
LEMMA GrantLockStep ==
  ASSUME ServerOK, CallsOK, NEW n \in Slots, GrantLock(n)
  PROVE  ServerGoesOn
<1>1. PICK g \in Reservation :
        /\ grants[g.id] = None /\ g.id \in ReservationIds /\ g # None
        /\ Inventory!Lock(g.id, calls[n].event, calls[n].seats, Overdue)
        /\ grants' = [grants EXCEPT ![g.id] = g]
  BY GrantOf
<1>2. UNCHANGED <<charges, now>>
  BY DEF GrantLock, Reply
<1>3. /\ sold' = sold
      /\ \A q \in ReservationIds : q # g.id =>
           (Inventory!SeatsOf(q) = {} => Inventory!SeatsOf(q)' = {})
  BY <1>1, LockTakes, FrontendAssumption
<1>4. /\ grants' \in [ReservationIds -> OrNone(Reservation)]
      /\ grants'[g.id] = g /\ \A q \in ReservationIds : q # g.id => grants'[q] = grants[q]
  BY <1>1, Optional DEF ServerOK
<1>5. ServerMoves
  BY <1>1, <1>2, <1>3, <1>4 DEF ServerOK, ServerMoves
<1>6. \A q \in ReservationIds : grants'[q] # None => grants'[q].id = q
  BY <1>1, <1>4 DEF ServerOK
<1>7. \A q \in ReservationIds : grants'[q] = None => Inventory!SeatsOf(q)' = {} /\ q \notin sold'
  BY <1>1, <1>3, <1>4 DEF ServerOK
<1>8. \A c \in charges' : c.reservation \in ReservationIds /\ grants'[c.reservation] # None
  BY <1>1, <1>2, <1>4 DEF ServerOK
<1>9. ServerOK'
  BY <1>2, <1>4, <1>6, <1>7, <1>8 DEF ServerOK
<1>10. ChargesCome
  BY <1>2 DEF ChargesCome
<1> QED BY <1>5, <1>9, <1>10 DEF ServerGoesOn

\* What is charged is what a payment under way names.
LEMMA ChargeComes ==
  ASSUME NEW n \in Slots, Open(n, "pay"), Charge(n) \/ UNCHANGED charges
  PROVE  ChargesCome
<1>1. CASE UNCHANGED charges
  BY <1>1 DEF ChargesCome
<1>2. CASE Charge(n)
  <2>1. PICK x : x = [reservation |-> calls[n].reservation, event |-> calls[n].event,
                      seats |-> calls[n].seats]
    OBVIOUS
  <2>2. charges' = charges \cup {x}
    BY <1>2, <2>1 DEF Charge
  <2>3. /\ x.reservation = calls[n].reservation /\ x.event = calls[n].event
        /\ x.seats = calls[n].seats
    BY <2>1
  <2> QED BY <2>2, <2>3 DEF ChargesCome, Open
<1> QED BY <1>1, <1>2

\* A payment is settled on the reservation that it names.
LEMMA SettleStep ==
  ASSUME ServerOK, CallsOK, NEW n \in Slots,
         SettleSuccess(n) \/ SettleFailure(n) \/ SettleUnknown(n) \/ RefusePayment(n)
  PROVE  ServerGoesOn
<1>1. Open(n, "pay")
  BY DEF SettleSuccess, SettleFailure, SettleUnknown, RefusePayment, Payable
<1>2. PICK r : r = calls[n].reservation OBVIOUS
<1>3. r \in ReservationIds
  <2>1. calls[n] \in Call /\ r # None
    BY <1>1, <1>2 DEF CallsOK, CallOK, Open
  <2> QED BY <1>2, <2>1, CallTypes DEF OrNone
<1>4. UNCHANGED <<grants, now>>
  BY DEF SettleSuccess, SettleFailure, SettleUnknown, RefusePayment, Say, Reply, server
<1>5. ChargesCome
  <2>1. Charge(n) \/ UNCHANGED charges
    BY DEF SettleSuccess, SettleFailure, SettleUnknown, RefusePayment, server
  <2> QED BY <1>1, <2>1, ChargeComes
<1>6. /\ sold \subseteq sold' /\ sold' \subseteq sold \cup {r}
      /\ r \in sold' /\ r \notin sold => Inventory!SeatsOf(r) # {}
      /\ \A q \in ReservationIds : Inventory!SeatsOf(q) = {} => Inventory!SeatsOf(q)' = {}
  <2>1. CASE UNCHANGED <<holder, sold>>
    BY <2>1 DEF Inventory!SeatsOf
  <2>2. CASE Inventory!Book(r)
    BY <2>2, BookSells
  <2>3. CASE Inventory!Lapse({r})
    <3>1. PICK L : L = {r} OBVIOUS
    <3>2. Inventory!Lapse(L) BY <2>3, <3>1
    <3> QED BY <3>2, LapseFrees, FrontendAssumption
  <2> QED BY <1>2, <2>1, <2>2, <2>3
       DEF SettleSuccess, SettleFailure, SettleUnknown, RefusePayment, server
<1> QED BY <1>3, <1>4, <1>5, <1>6, InventoryStep

\* What the server does for a request of the tab.
LEMMA ServerSteps ==
  ASSUME ServerOK, CallsOK, NEW n \in Slots, Server(n)
  PROVE  ServerGoesOn /\ UNCHANGED <<browser, outrun>>
<1>1. CASE GrantLock(n)
  BY <1>1, GrantLockStep DEF GrantLock, Reply
<1>2. CASE SettleSuccess(n) \/ SettleFailure(n) \/ SettleUnknown(n) \/ RefusePayment(n)
  BY <1>2, SettleStep
    DEF SettleSuccess, SettleFailure, SettleUnknown, RefusePayment, Say, Reply
<1>3. CASE RefuseLock(n) \/ GetTicket(n)
  BY <1>3, ServerStill DEF RefuseLock, GetTicket, Say, Reply
<1>4. CASE GetSeats(n)
  <2>1. UNCHANGED <<grants, charges, now, browser, outrun>>
    BY <1>4 DEF GetSeats, Reply
  <2>2. PICK L : L = Overdue OBVIOUS
  <2>3. Inventory!Lapse(L) BY <1>4, <2>2 DEF GetSeats
  <2>4. ChargesCome BY <2>1 DEF ChargesCome
  <2> QED BY <2>1, <2>3, <2>4, LapseFrees, InventoryStep, FrontendAssumption
<1> QED BY <1>1, <1>2, <1>3, <1>4 DEF Server

\* Other customers touch no reservation of this tab.
LEMMA OtherCustomersStep ==
  ASSUME ServerOK, CallsOK, OtherCustomers
  PROVE  ServerGoesOn
<1>1. UNCHANGED <<grants, charges, now>> /\ ChargesCome
  BY DEF OtherCustomers, ChargesCome
<1>2. ASSUME NEW o \in Others, NEW e \in Events, NEW S \in SUBSET Seats,
             Inventory!Lock(o, e, S, Overdue)
      PROVE  ServerGoesOn
  <2>1. PICK L : L = Overdue OBVIOUS
  <2>2. Inventory!Lock(o, e, S, L) BY <1>2, <2>1
  <2>3. /\ sold' = sold
        /\ \A q : q # o /\ q # None => (Inventory!SeatsOf(q) = {} => Inventory!SeatsOf(q)' = {})
    BY <2>2, LockTakes
  <2> QED BY <1>1, <2>3, InventoryStep, FrontendAssumption
<1>3. ASSUME NEW o \in Others, Inventory!Book(o)
      PROVE  ServerGoesOn
  BY <1>1, <1>3, BookSells, InventoryStep, FrontendAssumption
<1>4. ASSUME NEW o \in Others, Inventory!Lapse({o})
      PROVE  ServerGoesOn
  <2>1. PICK L : L = {o} OBVIOUS
  <2>2. Inventory!Lapse(L) BY <1>4, <2>1
  <2> QED BY <1>1, <2>2, LapseFrees, InventoryStep, FrontendAssumption
<1> QED BY <1>1, <1>2, <1>3, <1>4 DEF OtherCustomers

\* Time passes on the server.
LEMMA TickStep ==
  ASSUME ServerOK, Tick
  PROVE  ServerGoesOn
<1>1. /\ UNCHANGED <<holder, sold, grants, charges>> /\ now' = now + 1
  BY DEF Tick, server
<1>2. \A r : Inventory!SeatsOf(r)' = Inventory!SeatsOf(r)
  BY <1>1 DEF Inventory!SeatsOf
<1>3. ServerMoves
  BY <1>1, <1>2 DEF ServerOK, ServerMoves
<1>4. ServerOK'
  BY <1>1, <1>2, <1>3 DEF ServerOK, ServerMoves
<1>5. ChargesCome
  BY <1>1 DEF ChargesCome
<1> QED BY <1>3, <1>4, <1>5 DEF ServerGoesOn

-----------------------------------------------------------------------------
(* Calls: what is true of one stays true, and new ones are true. *)

\* A reservation that was granted stays as it was.
LEMMA GrantedStays ==
  ASSUME NEW r, r \in Reservation, ServerOK, ServerMoves, Granted(r)
  PROVE  Granted(r)' /\ (Over(r) => Over(r)')
<1>1. r.id \in ReservationIds /\ r.expiresAt \in Nat
  BY DEF Reservation
<1>2. grants'[r.id] = r
  BY <1>1, FrontendAssumption DEF Granted, ServerMoves
<1>3. now \in Nat /\ now' \in Nat /\ now <= now'
  BY DEF ServerOK, ServerMoves
<1>4. r.expiresAt <= now => r.expiresAt <= now'
  BY <1>1, <1>3
<1> QED BY <1>2, <1>4 DEF Granted, Over

\* What is said of a call stays true while the server moves.
LEMMA CallStays ==
  ASSUME NEW c, CallOK(c), ServerOK, ServerMoves
  PROVE  CallOK(c)'
<1>1. c \in Call
  BY DEF CallOK
<1>2. ASSUME c.kind = "lock", Said(c, "granted")
      PROVE  Granted(c.answer.reservation)'
  <2>1. PICK r : r = c.answer.reservation OBVIOUS
  <2>2. r \in Reservation /\ Granted(r) BY <1>2, <2>1, GrantedAnswer
  <2> QED BY <2>1, <2>2, GrantedStays
<1>3. ASSUME c.kind = "pay"
      PROVE  /\ c.reservation # None
             /\ grants'[c.reservation] # None
             /\ Said(c, "succeeded") => c.reservation \in sold'
             /\ Said(c, "failed") => Inventory!SeatsOf(c.reservation)' = {}
                                     /\ c.reservation \notin sold'
  <2>1. c.reservation \in ReservationIds
    BY <1>1, <1>3, CallTypes DEF CallOK, OrNone
  <2> QED BY <1>3, <2>1 DEF CallOK, ServerMoves
<1>4. c.kind = "ticket" /\ Said(c, "ticket") => c.reservation \in sold'
  BY DEF CallOK, ServerMoves
<1> QED BY <1>1, <1>2, <1>3, <1>4 DEF CallOK, Said

\* Calls are kept, given up, or true after the step.
LEMMA CallsMade ==
  ASSUME CallsOK, ServerOK, ServerMoves, NEW f, calls' = [n \in Slots |-> f[n]],
         \A n \in Slots : f[n] = calls[n] \/ f[n] = None \/ CallOK(f[n])'
  PROVE  CallsOK'
<1>1. ASSUME NEW n \in Slots
      PROVE  f[n] = None \/ CallOK(f[n])'
  <2>1. PICK c : c = calls[n] OBVIOUS
  <2>2. c = None \/ CallOK(c) BY <2>1 DEF CallsOK
  <2>3. c = None \/ CallOK(c)' BY <2>2, CallStays
  <2> QED BY <2>1, <2>3
<1>2. \A n \in Slots : f[n] \in OrNone(Call)
  BY <1>1, Optional DEF CallOK
<1>3. \A n \in Slots : calls'[n] # None => CallOK(calls[n])'
  <2>1. ASSUME NEW n \in Slots, calls'[n] # None
        PROVE  CallOK(calls[n])'
    <3>1. PICK c : c = f[n] OBVIOUS
    <3>2. calls'[n] = c /\ CallOK(c)' BY <1>1, <2>1, <3>1
    <3> QED BY <3>2
  <2> QED BY <2>1
<1> QED BY <1>2, <1>3 DEF CallsOK

\* No call changes, or one.
LEMMA OneCallChanges ==
  ASSUME CallsOK, ServerOK, ServerMoves, NEW n \in Slots, NEW c,
         c = None \/ CallOK(c)' \/ CallOK(c), calls' = [calls EXCEPT ![n] = c]
  PROVE  CallsOK'
<1>1. c = None \/ CallOK(c)'
  BY CallStays
<1>2. PICK f : f = [m \in Slots |-> IF m = n THEN c ELSE calls[m]] OBVIOUS
<1>3. calls' = [m \in Slots |-> f[m]]
  BY <1>2 DEF CallsOK
<1>4. \A m \in Slots : f[m] = calls[m] \/ f[m] = None \/ CallOK(f[m])'
  <2>1. ASSUME NEW m \in Slots
        PROVE  f[m] = calls[m] \/ f[m] = None \/ CallOK(f[m])'
    <3>1. CASE m = n
      <4>1. f[m] = c BY <1>2, <3>1
      <4> QED BY <1>1, <4>1
    <3>2. CASE m # n BY <1>2, <3>2
    <3> QED BY <3>1, <3>2
  <2> QED BY <2>1
<1> QED BY <1>3, <1>4, CallsMade

\* Calls that stay as they are stay true.
LEMMA CallsStay ==
  ASSUME CallsOK, ServerOK, ServerMoves, UNCHANGED calls
  PROVE  CallsOK'
<1>1. calls' = [n \in Slots |-> calls[n]]
  BY DEF CallsOK
<1>2. PICK f : f = calls OBVIOUS
<1>3. calls' = [n \in Slots |-> f[n]] /\ \A n \in Slots : f[n] = calls[n]
  BY <1>1, <1>2
<1> QED BY <1>3, CallsMade

\* The answer that the server gives to the call in slot n, true of the server
\* after the step.
LEMMA ReplyStep ==
  ASSUME CallsOK, ServerOK, ServerMoves, NEW n \in Slots, calls[n] # None,
         NEW status \in Statuses, NEW r \in OrNone(Reservation),
         NEW booked \in SUBSET Seats, NEW locked \in SUBSET Seats,
         Reply(n, status, r, booked, locked),
         calls[n].kind = "lock" /\ status = "granted" =>
           /\ r # None /\ grants'[r.id] = r
           /\ r.user = calls[n].user /\ r.event = calls[n].event /\ r.seats = calls[n].seats,
         calls[n].kind = "pay" /\ status = "succeeded" => calls[n].reservation \in sold',
         \A q : calls[n].kind = "pay" /\ status = "failed" /\ q = calls[n].reservation =>
           Inventory!SeatsOf(q)' = {} /\ q \notin sold',
         calls[n].kind = "ticket" /\ status = "ticket" => calls[n].reservation \in sold'
  PROVE  CallsOK'
<1>1. PICK c : c = calls[n] OBVIOUS
<1>2. PICK a : a = [status |-> status, reservation |-> r, booked |-> booked, locked |-> locked]
  OBVIOUS
<1>3. PICK d : d = [c EXCEPT !.answer = a] OBVIOUS
<1>4. calls' = [calls EXCEPT ![n] = IF c.heard THEN d ELSE None]
  BY <1>1, <1>2, <1>3 DEF Reply, CallsOK
<1>5. c \in Call /\ CallOK(c) /\ CallOK(c)'
  BY <1>1, CallStays DEF CallsOK, CallOK
<1>6. CallOK(d)'
  <2>1. d \in Call
    BY <1>2, <1>3, <1>5, Optional, Zenon DEF Call
  <2>2. /\ d.kind = c.kind /\ d.user = c.user /\ d.event = c.event /\ d.seats = c.seats
        /\ d.reservation = c.reservation /\ d.answer = a
    BY <1>3, <1>5 DEF Call
  <2>3. a.status = status /\ a.reservation = r
    BY <1>2
  <2>4. \A x : Said(d, x) => x = status
    BY <2>2, <2>3 DEF Said
  <2>5. ASSUME d.kind = "lock", Said(d, "granted")
        PROVE  /\ r # None /\ Granted(r)'
               /\ r.user = d.user /\ r.event = d.event /\ r.seats = d.seats
    BY <1>1, <2>2, <2>4, <2>5 DEF Granted
  <2>6. d.kind = "lock" => d.user # None /\ d.event # None
    BY <1>5, <2>2 DEF CallOK
  <2>7. /\ d.kind = "pay" => d.reservation # None /\ grants'[d.reservation] # None
        /\ d.kind = "ticket" => d.reservation # None
    BY <1>5, <2>2 DEF CallOK
  <2>8. /\ d.kind = "pay" /\ Said(d, "succeeded") => d.reservation \in sold'
        /\ d.kind = "pay" /\ Said(d, "failed") =>
             Inventory!SeatsOf(d.reservation)' = {} /\ d.reservation \notin sold'
        /\ d.kind = "ticket" /\ Said(d, "ticket") => d.reservation \in sold'
    BY <1>1, <2>2, <2>4
  <2>9. Said(d, "granted") = Said(d, "granted")' /\ d.answer.reservation = r
    BY <2>2, <2>3 DEF Said
  <2> QED BY <2>1, <2>2, <2>5, <2>6, <2>7, <2>8, <2>9 DEF CallOK
<1>7. CASE c.heard
  <2>1. calls' = [calls EXCEPT ![n] = d] BY <1>4, <1>7
  <2> QED BY <1>6, <2>1, OneCallChanges
<1>8. CASE ~c.heard
  <2>1. calls' = [calls EXCEPT ![n] = None] BY <1>4, <1>8
  <2>2. PICK x : x = None OBVIOUS
  <2> QED BY <2>1, <2>2, OneCallChanges
<1> QED BY <1>7, <1>8

\* An answer that grants nothing.
LEMMA SayStep ==
  ASSUME CallsOK, ServerOK, ServerMoves, NEW n \in Slots, calls[n] # None,
         NEW status \in Statuses \ {"granted"}, Say(n, status),
         calls[n].kind = "pay" /\ status = "succeeded" => calls[n].reservation \in sold',
         \A q : calls[n].kind = "pay" /\ status = "failed" /\ q = calls[n].reservation =>
           Inventory!SeatsOf(q)' = {} /\ q \notin sold',
         calls[n].kind = "ticket" /\ status = "ticket" => calls[n].reservation \in sold'
  PROVE  CallsOK'
<1>1. PICK E : E = {} OBVIOUS
<1>2. PICK r : r = None OBVIOUS
<1>3. Reply(n, status, r, E, E)
  BY <1>1, <1>2 DEF Say
<1>4. r \in OrNone(Reservation) /\ E \in SUBSET Seats
  BY <1>1, <1>2, Optional
<1> QED BY <1>3, <1>4, ReplyStep

\* Every answer of the server is true when it is given.
LEMMA ServerKeepsCalls ==
  ASSUME CallsOK, ServerOK, NEW n \in Slots, Server(n)
  PROVE  CallsOK'
<1> USE DEF Statuses
<1>1. ServerMoves
  BY ServerSteps DEF ServerGoesOn
<1>2. calls[n] # None
  BY DEF Server, GrantLock, RefuseLock, SettleSuccess, SettleFailure, SettleUnknown,
         RefusePayment, Payable, GetTicket, GetSeats, Open
<1>3. CASE GrantLock(n)
  <2>1. PICK g \in Reservation :
          /\ g.id \in ReservationIds /\ g # None
          /\ g.user = calls[n].user /\ g.event = calls[n].event /\ g.seats = calls[n].seats
          /\ grants' = [grants EXCEPT ![g.id] = g]
          /\ Reply(n, "granted", g, {}, {})
    BY <1>3, GrantOf
  <2>2. grants'[g.id] = g
    BY <2>1 DEF ServerOK
  <2>3. calls[n].kind = "lock"
    BY <1>3 DEF GrantLock, Open
  <2>4. PICK E : E = {} OBVIOUS
  <2>5. Reply(n, "granted", g, E, E) /\ E \in SUBSET Seats
    BY <2>1, <2>4
  <2> QED BY <1>1, <1>2, <2>1, <2>2, <2>3, <2>5, ReplyStep, Optional
<1>4. CASE Say(n, "conflict") \/ Say(n, "error") \/ Say(n, "unknown")
  BY <1>1, <1>2, <1>4, SayStep
<1>5. CASE SettleSuccess(n) /\ ~Say(n, "error")
  <2>1. Say(n, "succeeded") /\ calls[n].reservation \in sold' /\ calls[n].kind = "pay"
    BY <1>5, BookSells DEF SettleSuccess, Payable, Open
  <2> QED BY <1>1, <1>2, <2>1, SayStep
<1>6. CASE SettleFailure(n) /\ ~Say(n, "error")
  <2>1. PICK q : q = calls[n].reservation OBVIOUS
  <2>2. /\ q \notin sold /\ Inventory!Lapse({q}) /\ Say(n, "failed") /\ calls[n].kind = "pay"
    BY <1>6, <2>1 DEF SettleFailure, Payable, Open
  <2>3. q # None BY <1>2, <2>1, <2>2 DEF CallsOK, CallOK
  <2>4. PICK L : L = {q} OBVIOUS
  <2>5. Inventory!Lapse(L) BY <2>2, <2>4
  <2>6. Inventory!SeatsOf(q)' = {} /\ q \notin sold' BY <2>2, <2>3, <2>4, <2>5, LapseFrees
  <2> QED BY <1>1, <1>2, <2>1, <2>2, <2>6, SayStep
<1>7. CASE GetTicket(n)
  <2>1. sold' = sold BY <1>7 DEF GetTicket, server
  <2>2. CASE calls[n].reservation \in sold
    <3>1. Say(n, "ticket") BY <1>7, <2>2 DEF GetTicket
    <3>2. calls[n].kind = "ticket" BY <1>7 DEF GetTicket, Open
    <3> QED BY <1>1, <1>2, <2>1, <2>2, <3>1, <3>2, SayStep
  <2>3. CASE calls[n].reservation \notin sold
    <3>1. Say(n, "error") BY <1>7, <2>3 DEF GetTicket
    <3> QED BY <1>4, <3>1
  <2> QED BY <2>2, <2>3
<1>8. CASE GetSeats(n)
  <2>1. PICK r : r = None OBVIOUS
  <2>2. PICK booked, locked \in SUBSET Seats : Reply(n, "statuses", r, booked, locked)
    <3> DEFINE held == {s \in Seats : Inventory!After(Overdue)[<<calls[n].event, s>>] # None}
               sold1 == {s \in held : Inventory!After(Overdue)[<<calls[n].event, s>>] \in sold}
    <3>1. Reply(n, "statuses", None, sold1, held \ sold1)
      BY <1>8 DEF GetSeats
    <3>2. PICK S, T : S = sold1 /\ T = held \ sold1 OBVIOUS
    <3>3. S \in SUBSET Seats /\ T \in SUBSET Seats BY <3>2
    <3>4. Reply(n, "statuses", r, S, T)
      <4> HIDE DEF held, sold1
      <4> QED BY <2>1, <3>1, <3>2
    <3> QED BY <3>3, <3>4
  <2>3. calls[n].kind = "seats" BY <1>8 DEF GetSeats, Open
  <2> QED BY <1>1, <1>2, <2>1, <2>2, <2>3, ReplyStep, Optional
<1> QED BY <1>3, <1>4, <1>5, <1>6, <1>7, <1>8
     DEF Server, RefuseLock, SettleUnknown, RefusePayment

\* What a request carries is what was on the screen.
LEMMA RequestFields ==
  ASSUME NEW kind, NEW b
  PROVE  /\ Request(kind, b).kind = kind /\ Request(kind, b).user = b.user
         /\ Request(kind, b).event = b.activeEvent /\ Request(kind, b).seats = b.selectedSeats
         /\ b.reservation # None => Request(kind, b).reservation = b.reservation.id
         /\ Request(kind, b).answer = None
  BY DEF Request

\* A reservation on the screen is one that the server granted.
LEMMA ShownReservation ==
  ASSUME NEW b, TabOK(b), ServerOK, b.reservation # None
  PROVE  /\ b.reservation \in Reservation /\ b.reservation.id \in ReservationIds
         /\ grants[b.reservation.id] = b.reservation
<1>1. b.reservation \in OrNone(Reservation) /\ Granted(b.reservation)
  <2>1. b \in Browser BY DEF TabOK
  <2>2. b.reservation \in OrNone(Reservation) BY <2>1, Zenon DEF Browser
  <2> QED BY <2>2 DEF TabOK
<1>2. b.reservation \in Reservation
  BY <1>1 DEF OrNone
<1> QED BY <1>1, <1>2 DEF Reservation, Granted

\* Requests name what they must.
LEMMA RequestIsOK ==
  ASSUME NEW b, b \in Browser, ServerOK, NEW kind \in {"lock", "pay", "ticket", "seats"},
         kind = "lock" => b.user # None /\ b.activeEvent # None,
         kind \in {"pay", "ticket"} =>
           /\ b.reservation # None /\ b.reservation.id \in ReservationIds
           /\ grants[b.reservation.id] # None
  PROVE  CallOK(Request(kind, b))
<1>1. PICK c : c = Request(kind, b) OBVIOUS
<1>2. c \in Call
  BY <1>1, RequestType
<1>3. /\ c.kind = kind /\ c.user = b.user /\ c.event = b.activeEvent /\ c.answer = None
      /\ b.reservation # None => c.reservation = b.reservation.id
  BY <1>1, RequestFields
<1>4. c.kind \in {"pay", "ticket"} => c.reservation # None /\ grants[c.reservation] # None
  BY <1>3, FrontendAssumption
<1> QED BY <1>1, <1>2, <1>3, <1>4 DEF CallOK, Said

\* A poll names nothing that the server must have.
LEMMA StatusRequestIsOK ==
  ASSUME NEW b \in Browser, ServerOK
  PROVE  /\ StatusRequest(b) = None \/ CallOK(StatusRequest(b))
         /\ StatusRequest(b) # None => StatusRequest(b).kind = "seats"
  BY RequestIsOK, RequestFields DEF StatusRequest

\* d is the call c at a later time.
Comes(d, c) ==
  /\ c # None /\ d.kind = c.kind /\ d.event = c.event /\ d.seats = c.seats
  /\ d.reservation = c.reservation /\ (d.heard => c.heard) /\ (c.left => d.left)

\* Where the call d, in slot n after a step, comes from.
From(d, n) ==
  \/ Comes(d, calls[n])
  \/ d.kind \in {"lock", "seats"}
  \/ PayAndIssue /\ d = Request("pay", browser)
  \/ \E m \in Slots : /\ PaySucceeded(m) /\ browser.reservation # None
                      /\ d = Request("ticket", browser')

CallsGoOn == CallsOK' /\ \A n \in Slots : calls'[n] # None => From(calls'[n], n)

\* A slot is filled with a new call, or emptied, in cs, calls that go on.
LEMMA SlotFilled ==
  ASSUME CallsOK, ServerOK, ServerMoves, NEW f, NEW n \in Slots, NEW c,
         calls' = [f EXCEPT ![n] = c], f \in [Slots -> OrNone(Call)],
         \A m \in Slots : f[m] # None => (f[m] = calls[m] \/ CallOK(f[m])) /\ Comes(f[m], calls[m]),
         c # None => CallOK(c) /\ From(c, n)
  PROVE  CallsGoOn
<1>1. PICK g : g = [m \in Slots |-> IF m = n THEN c ELSE f[m]] OBVIOUS
<1>2. calls' = [m \in Slots |-> g[m]]
  BY <1>1
<1>3. ASSUME NEW m \in Slots
      PROVE  g[m] = calls[m] \/ g[m] = None \/ CallOK(g[m])'
  <2>1. PICK d : d = g[m] OBVIOUS
  <2>2. d = calls[m] \/ d = None \/ CallOK(d) BY <1>1, <2>1
  <2>3. CallOK(d) => CallOK(d)' BY CallStays
  <2> QED BY <2>1, <2>2, <2>3
<1>4. CallsOK'
  BY <1>2, <1>3, CallsMade
<1>5. \A m \in Slots : calls'[m] # None => From(calls'[m], m)
  <2>1. ASSUME NEW m \in Slots, calls'[m] # None
        PROVE  From(calls'[m], m)
    <3>1. CASE m = n
      <4>1. calls'[m] = c BY <3>1
      <4> QED BY <2>1, <3>1, <4>1
    <3>2. CASE m # n
      <4>1. calls'[m] = f[m] BY <3>2
      <4> QED BY <2>1, <4>1 DEF From
    <3> QED BY <3>1, <3>2
  <2> QED BY <2>1
<1> QED BY <1>4, <1>5 DEF CallsGoOn

\* A call is itself at a later time.
LEMMA CallsAreThemselves ==
  ASSUME CallsOK
  PROVE  /\ calls \in [Slots -> OrNone(Call)]
         /\ \A m \in Slots : calls[m] # None => CallOK(calls[m]) /\ Comes(calls[m], calls[m])
  BY DEF CallsOK, Comes

\* Nothing is sent.
LEMMA NothingSent ==
  ASSUME CallsOK, ServerOK, ServerMoves, UNCHANGED calls
  PROVE  CallsGoOn
  BY CallsStay, CallsAreThemselves DEF CallsGoOn, From

\* The calls after the user has left go on, and no ticket is awaited any more.
LEMMA CallsLeftGoOn ==
  ASSUME CallsOK
  PROVE  /\ CallsLeft \in [Slots -> OrNone(Call)]
         /\ \A m \in Slots : CallsLeft[m] # None =>
              CallOK(CallsLeft[m]) /\ Comes(CallsLeft[m], calls[m])
         /\ \A m \in Slots : ~Awaits(CallsLeft[m])
<1>1. ASSUME NEW m \in Slots
      PROVE  /\ CallsLeft[m] \in OrNone(Call)
             /\ CallsLeft[m] # None => CallOK(CallsLeft[m]) /\ Comes(CallsLeft[m], calls[m])
             /\ ~Awaits(CallsLeft[m])
  <2>1. PICK c : c = calls[m] OBVIOUS
  <2>2. c \in OrNone(Call) /\ (c # None => CallOK(c) /\ c \in Call)
    BY <2>1 DEF CallsOK, CallOK
  <2>3. CASE c # None /\ c.kind = "ticket"
    <3>1. PICK d : d = [c EXCEPT !.left = TRUE] OBVIOUS
    <3>2. CallsLeft[m] = d BY <2>1, <2>3, <3>1 DEF CallsLeft
    <3>3. d \in Call BY <2>2, <2>3, <3>1, Zenon DEF Call
    <3>4. /\ d.kind = "ticket" /\ d.event = c.event /\ d.seats = c.seats
          /\ d.reservation = c.reservation /\ d.heard = c.heard /\ d.left
          /\ d.answer = c.answer
      BY <2>2, <2>3, <3>1 DEF Call
    <3>5. CallOK(d) BY <2>2, <2>3, <3>3, <3>4 DEF CallOK, Said
    <3>6. Comes(d, c) BY <2>3, <3>4 DEF Comes
    <3> QED BY <2>1, <3>2, <3>3, <3>4, <3>5, <3>6, Optional DEF Awaits
  <2>4. CASE ~(c # None /\ c.kind = "ticket")
    <3>1. CallsLeft[m] = c BY <2>1, <2>4 DEF CallsLeft
    <3> QED BY <2>1, <2>2, <2>4, <3>1 DEF Comes, Awaits
  <2> QED BY <2>3, <2>4
<1>2. CallsLeft = [m \in Slots |-> CallsLeft[m]]
  BY DEF CallsLeft
<1> QED BY <1>1, <1>2

\* A request is put under way, by a click or by a timer.
LEMMA SendStep ==
  ASSUME CallsOK, ServerOK, UNCHANGED <<server, now>>, NEW c, Send(c),
         c # None => CallOK(c) /\ (c.kind \in {"lock", "seats"} \/ \A n \in Slots : From(c, n))
  PROVE  CallsGoOn
<1>1. PICK n \in Slots : calls' = [calls EXCEPT ![n] = c]
  BY DEF Send, SendAmong
<1>2. ServerMoves
  BY ServerStill DEF ServerGoesOn
<1>3. c # None => CallOK(c) /\ From(c, n)
  BY DEF From
<1>4. PICK f : f = calls OBVIOUS
<1> QED BY <1>1, <1>2, <1>3, <1>4, CallsAreThemselves, SlotFilled

\* A slot is emptied or used again.
LEMMA ContinueStep ==
  ASSUME CallsOK, ServerOK, NEW n \in Slots, NEW c, Continue(n, c),
         c # None => CallOK(c) /\ From(c, n)
  PROVE  CallsGoOn
<1>1. calls' = [calls EXCEPT ![n] = c] /\ UNCHANGED <<server, now>>
  BY DEF Continue
<1>2. ServerMoves
  BY <1>1, ServerStill DEF ServerGoesOn
<1>3. PICK f : f = calls OBVIOUS
<1> QED BY <1>1, <1>2, <1>3, CallsAreThemselves, SlotFilled

\* What is left of a call when the tab does not wait for it.
LEMMA UnheardIsOK ==
  ASSUME NEW c, c # None => CallOK(c)
  PROVE  /\ Unheard(c) # None => CallOK(Unheard(c)) /\ Comes(Unheard(c), c)
         /\ ~Awaits(Unheard(c))
<1>1. CASE c # None /\ c.kind \in {"lock", "pay"} /\ c.answer = None
  <2>1. PICK d : d = [c EXCEPT !.heard = FALSE] OBVIOUS
  <2>2. c \in Call BY <1>1 DEF CallOK
  <2>3. d \in Call
    BY <2>1, <2>2, Zenon DEF Call
  <2>4. /\ d.kind = c.kind /\ d.user = c.user /\ d.event = c.event /\ d.seats = c.seats
        /\ d.reservation = c.reservation /\ d.heard = FALSE /\ d.left = c.left
        /\ d.answer = None
    BY <1>1, <2>1, <2>2 DEF Call
  <2>5. CallOK(d) /\ Comes(d, c) /\ ~Awaits(d)
    BY <1>1, <2>3, <2>4 DEF CallOK, Said, Awaits, Comes
  <2>6. Unheard(c) = d
    BY <1>1, <2>1 DEF Unheard
  <2> QED BY <2>5, <2>6
<1>2. CASE ~(c # None /\ c.kind \in {"lock", "pay"} /\ c.answer = None)
  BY <1>2 DEF Unheard, Awaits
<1> QED BY <1>1, <1>2

\* Opening an event polls its seats; no ticket is awaited any more.
LEMMA SelectEventCalls ==
  ASSUME Base, NEW e \in Events, SelectEvent(e), browser' \in Browser
  PROVE  CallsGoOn /\ \A n \in Slots : ~Awaits(calls'[n])
<1>1. PICK b : b = browser' OBVIOUS
<1>2. PICK c : c = StatusRequest(b) OBVIOUS
<1>3. c # None => CallOK(c) /\ c.kind = "seats"
  BY <1>1, <1>2, StatusRequestIsOK DEF Base
<1>4. PICK f : f = CallsLeft OBVIOUS
<1>5. PICK n \in Slots : calls' = [f EXCEPT ![n] = c]
  BY <1>1, <1>2, <1>4 DEF SelectEvent, SendAmong
<1>6. ServerMoves
  BY ServerStill DEF Base, ServerGoesOn, SelectEvent
<1>7. /\ f \in [Slots -> OrNone(Call)] /\ \A m \in Slots : ~Awaits(f[m])
      /\ \A m \in Slots : f[m] # None => CallOK(f[m]) /\ Comes(f[m], calls[m])
  BY <1>4, CallsLeftGoOn DEF Base
<1>8. CallsGoOn
  BY <1>3, <1>5, <1>6, <1>7, SlotFilled DEF Base, From
<1>9. \A m \in Slots : ~Awaits(calls'[m])
  BY <1>3, <1>5, <1>7 DEF Awaits
<1> QED BY <1>8, <1>9

\* Nor is one after a logout, a new booking or a reload.
LEMMA LeavingCalls ==
  ASSUME Base, Logout \/ Restart \/ Reload
  PROVE  CallsGoOn /\ \A n \in Slots : ~Awaits(calls'[n])
<1>1. ServerMoves
  BY ServerStill DEF Base, ServerGoesOn, Logout, Restart, Reload
<1>2. PICK f : calls' = [n \in Slots |-> f[n]]
                 /\ \A n \in Slots : /\ ~Awaits(f[n])
                                     /\ f[n] # None => CallOK(f[n]) /\ Comes(f[n], calls[n])
  <2>1. CASE Logout \/ Restart
    <3>1. calls' = CallsLeft BY <2>1 DEF Logout, Restart
    <3>2. CallsLeft = [n \in Slots |-> CallsLeft[n]] BY DEF CallsLeft
    <3> QED BY <3>1, <3>2, CallsLeftGoOn DEF Base
  <2>2. CASE Reload
    <3>1. PICK f : f = [n \in Slots |-> Unheard(calls[n])] OBVIOUS
    <3>2. calls' = [n \in Slots |-> f[n]] BY <2>2, <3>1 DEF Reload
    <3>3. ASSUME NEW n \in Slots
          PROVE  /\ ~Awaits(f[n])
                 /\ f[n] # None => CallOK(f[n]) /\ Comes(f[n], calls[n])
      <4>1. PICK c : c = calls[n] OBVIOUS
      <4>2. c # None => CallOK(c) BY <4>1 DEF Base, CallsOK
      <4>3. f[n] = Unheard(c) BY <3>1, <4>1
      <4> QED BY <4>1, <4>2, <4>3, UnheardIsOK
    <3> QED BY <3>2, <3>3
  <2> QED BY <2>1, <2>2
<1>3. \A n \in Slots : f[n] = None \/ CallOK(f[n])'
  <2>1. ASSUME NEW n \in Slots, f[n] # None
        PROVE  CallOK(f[n])'
    <3>1. PICK c : c = f[n] OBVIOUS
    <3>2. CallOK(c)' BY <1>1, <1>2, <2>1, <3>1, CallStays DEF Base
    <3> QED BY <3>1, <3>2
  <2> QED BY <2>1
<1>4. CallsOK'
  BY <1>1, <1>2, <1>3, CallsMade DEF Base
<1> QED BY <1>2, <1>4 DEF CallsGoOn, From

\* Only an open event can be locked, and only a reservation paid.
LEMMA ClickCalls ==
  ASSUME Base, LockSeats \/ PayAndIssue
  PROVE  CallsGoOn
<1>1. UNCHANGED <<server, now>> /\ TabOK(browser) /\ browser \in Browser /\ ServerOK /\ CallsOK
  BY DEF LockSeats, PayAndIssue, Base, TabOK
<1>2. CASE LockSeats
  <2>1. PICK c : c = Request("lock", browser) OBVIOUS
  <2>2. browser.user # None /\ browser.activeEvent # None /\ Send(c)
    BY <1>1, <1>2, <2>1 DEF LockSeats, TabOK
  <2>3. CallOK(c) /\ c.kind = "lock"
    BY <1>1, <2>1, <2>2, RequestIsOK, RequestFields
  <2> QED BY <1>1, <2>2, <2>3, SendStep
<1>3. CASE PayAndIssue
  <2>1. PICK c : c = Request("pay", browser) OBVIOUS
  <2>2. browser.reservation # None /\ Send(c)
    BY <1>3, <2>1 DEF PayAndIssue
  <2>3. CallOK(c)
    BY <1>1, <2>1, <2>2, ShownReservation, RequestIsOK, FrontendAssumption
  <2>4. \A n \in Slots : From(c, n) BY <1>3, <2>1 DEF From
  <2> QED BY <1>1, <2>2, <2>3, <2>4, SendStep
<1> QED BY <1>2, <1>3

\* Timers poll.
LEMMA TimerCalls ==
  ASSUME Base, CountdownTick \/ SeatPoll, browser' \in Browser
  PROVE  CallsGoOn
<1>1. UNCHANGED <<server, now>> /\ browser \in Browser /\ ServerOK /\ CallsOK
  BY DEF CountdownTick, SeatPoll, Base, TabOK
<1>2. CASE UNCHANGED calls
  BY <1>1, <1>2, NothingSent, ServerStill DEF ServerGoesOn
<1>3. CASE ~UNCHANGED calls
  <2>1. PICK c : (c = StatusRequest(browser) \/ c = StatusRequest(browser')) /\ Send(c)
    BY <1>3 DEF CountdownTick, SeatPoll
  <2>2. PICK b : b = browser' OBVIOUS
  <2>3. c # None => CallOK(c) /\ c.kind = "seats"
    BY <1>1, <2>1, <2>2, StatusRequestIsOK
  <2> QED BY <1>1, <2>1, <2>3, SendStep
<1> QED BY <1>2, <1>3

\* After an answer the handler is done, polls, or asks for the ticket.
LEMMA AnswerCalls ==
  ASSUME Base, NEW n \in Slots, Answer(n) \/ Lose(n) \/ Vanish(n), browser' \in Browser
  PROVE  CallsGoOn
<1>1. browser \in Browser /\ ServerOK /\ CallsOK /\ TabOK(browser)
  BY DEF Base, TabOK
<1>2. ASSUME NEW c, Continue(n, c), c # None => CallOK(c) /\ From(c, n)
      PROVE  CallsGoOn
  BY <1>1, <1>2, ContinueStep
<1>3. CASE Continue(n, None)
  <2>1. PICK c : c = None OBVIOUS
  <2> QED BY <1>2, <1>3, <2>1
<1>4. ASSUME NEW b \in Browser, Continue(n, StatusRequest(b))
      PROVE  CallsGoOn
  <2>1. PICK c : c = StatusRequest(b) OBVIOUS
  <2>2. c # None => CallOK(c) /\ From(c, n)
    BY <1>1, <2>1, StatusRequestIsOK DEF From
  <2> QED BY <1>2, <1>4, <2>1, <2>2
<1>5. CASE LockGranted(n)
  <2>1. Continue(n, None) \/ Continue(n, StatusRequest(browser'))
    BY <1>5 DEF LockGranted
  <2>2. PICK b : b = browser' OBVIOUS
  <2> QED BY <1>3, <1>4, <2>1, <2>2
<1>6. CASE PayFailed(n)
  BY <1>1, <1>4, <1>6 DEF PayFailed
<1>7. CASE PaySucceeded(n) /\ browser.reservation # None
  <2>1. PICK b : b = browser' OBVIOUS
  <2>2. PICK c : c = Request("ticket", b) OBVIOUS
  <2>3. Continue(n, c) /\ b.reservation = browser.reservation
    BY <1>1, <1>7, <2>1, <2>2, PaySucceededMove DEF Pays
  <2>4. CallOK(c)
    BY <1>1, <1>7, <2>1, <2>2, <2>3, ShownReservation, RequestIsOK, FrontendAssumption
  <2>5. From(c, n) BY <1>7, <2>1, <2>2 DEF From
  <2> QED BY <1>2, <2>3, <2>4, <2>5
<1>8. CASE Lose(n)
  <2>1. PICK c : c = Unheard(calls[n]) OBVIOUS
  <2>2. PICK d : d = calls[n] OBVIOUS
  <2>3. d # None => CallOK(d) BY <1>1, <2>2 DEF CallsOK
  <2>4. c # None => CallOK(c) /\ From(c, n)
    BY <2>1, <2>2, <2>3, UnheardIsOK DEF From
  <2>5. Continue(n, c) BY <1>8, <2>1 DEF Lose
  <2> QED BY <1>2, <2>4, <2>5
<1> QED BY <1>1, <1>3, <1>5, <1>6, <1>7, <1>8
     DEF Answer, LockConflict, PaySucceeded, PayUnknown, ShowTicket, SeatStatuses, Refused, Vanish

\* The server answers.
LEMMA ServerCalls ==
  ASSUME Base, NEW n \in Slots, Server(n)
  PROVE  CallsGoOn
<1>1. CallsOK'
  BY ServerKeepsCalls DEF Base
<1>2. PICK status, r, booked, locked : Reply(n, status, r, booked, locked)
  BY DEF Server, GrantLock, RefuseLock, SettleSuccess, SettleFailure, SettleUnknown,
         RefusePayment, GetTicket, GetSeats, Say
<1>3. calls[n] # None
  BY DEF Server, GrantLock, RefuseLock, SettleSuccess, SettleFailure, SettleUnknown,
         RefusePayment, Payable, GetTicket, GetSeats, Open
<1>4. PICK a : a = [status |-> status, reservation |-> r, booked |-> booked, locked |-> locked]
  OBVIOUS
<1>5. PICK d : d = [calls[n] EXCEPT !.answer = a] OBVIOUS
<1>6. calls' = [calls EXCEPT ![n] = IF calls[n].heard THEN d ELSE None]
  BY <1>2, <1>4, <1>5 DEF Reply, Base, CallsOK
<1>7. Comes(d, calls[n])
  <2>1. calls[n] \in Call BY <1>3 DEF Base, CallsOK, CallOK
  <2>2. PICK c : c = calls[n] OBVIOUS
  <2>3. Comes(d, c) BY <1>3, <1>5, <2>1, <2>2 DEF Call, Comes
  <2> QED BY <2>2, <2>3
<1>8. \A m \in Slots : calls'[m] # None => From(calls'[m], m)
  <2>1. ASSUME NEW m \in Slots, calls'[m] # None
        PROVE  Comes(calls'[m], calls[m])
    <3>1. CASE m = n
      <4>1. calls'[m] = d BY <1>6, <2>1, <3>1 DEF Base, CallsOK
      <4> QED BY <1>7, <3>1, <4>1
    <3>2. CASE m # n
      <4>1. calls'[m] = calls[m] BY <1>6, <3>2 DEF Base, CallsOK
      <4> QED BY <2>1, <4>1, CallsAreThemselves DEF Base
    <3> QED BY <3>1, <3>2
  <2> QED BY <2>1 DEF From
<1> QED BY <1>1, <1>8 DEF CallsGoOn

-----------------------------------------------------------------------------
(* Every step of the system. *)

TabStep ==
  \/ Quiet(browser, browser')
  \/ LogsIn(browser, browser')
  \/ (Logout \/ Restart \/ Reload) /\ Leaves(browser, browser')
  \/ \E e \in Events : SelectEvent(e) /\ Opens(browser, browser', e)
  \/ Selects(browser, browser')
  \/ CountdownTick /\ Ends(browser, browser')
  \/ \E n \in Slots :
       \/ LockGranted(n) /\ TakesLock(browser, browser', calls[n].answer.reservation)
       \/ LockConflict(n) /\ LosesSelection(browser, browser')
       \/ PaySucceeded(n) /\ Pays(browser, browser')
       \/ PayFailed(n) /\ Ends(browser, browser')
       \/ ShowTicket(n) /\ ShowsStub(browser, browser', calls[n])

\* Each action is one of these moves.
LEMMA TabSteps ==
  ASSUME Base, [Next]_vars
  PROVE  browser' \in Browser /\ TabStep
<1>1. browser \in Browser /\ CallsOK /\ now \in Nat
  BY DEF Base, TabOK, ServerOK
<1>2. CASE UNCHANGED browser
  BY <1>1, <1>2 DEF TabStep, Quiet, SamePlace, SameScreen, SameMemory
<1>3. CASE User
  <2>1. CASE LockSeats \/ PayAndIssue
    BY <1>1, <2>1, ButtonMoves DEF LockSeats, PayAndIssue, TabStep
  <2>2. CASE Logout \/ Restart \/ Reload
    BY <1>1, <2>2, LogoutMove, RestartMove, ReloadMove DEF TabStep
  <2>3. CASE \E u \in Users : Login(u)
    BY <1>1, <2>3, LoginMove DEF TabStep
  <2>4. CASE \E e \in Events : SelectEvent(e)
    BY <1>1, <2>4, SelectEventMove DEF TabStep
  <2>5. CASE \E s \in Seats : ToggleSeat(s)
    BY <1>1, <2>5, ToggleSeatMove DEF TabStep
  <2> QED BY <1>3, <2>1, <2>2, <2>3, <2>4, <2>5 DEF User
<1>4. CASE CountdownTick
  BY <1>1, <1>4, EndsFields DEF CountdownTick, TabStep
<1>5. ASSUME NEW n \in Slots, Answer(n)
      PROVE  browser' \in Browser /\ TabStep
  <2>1. CASE LockGranted(n)
    BY <1>1, <2>1, LockGrantedMove DEF TabStep
  <2>2. CASE LockConflict(n)
    BY <1>1, <2>2, LockConflictMove DEF TabStep
  <2>3. CASE PaySucceeded(n)
    BY <1>1, <2>3, PaySucceededMove DEF TabStep
  <2>4. CASE PayFailed(n)
    BY <1>1, <2>4, EndsFields DEF PayFailed, TabStep
  <2>5. CASE PayUnknown(n)
    BY <1>1, <2>5, ButtonMoves DEF PayUnknown, TabStep
  <2>6. CASE ShowTicket(n)
    BY <1>1, <2>6, ShowTicketMove DEF TabStep
  <2>7. CASE SeatStatuses(n)
    BY <1>1, <2>7, SeatStatusesMove DEF TabStep
  <2>8. CASE Refused(n)
    <3>1. calls[n] \in Call BY <1>1, <2>8, AnsweredCall DEF Refused
    <3> QED BY <1>1, <2>8, <3>1, CallTypes, AfterErrorMove DEF Refused, TabStep
  <2> QED BY <1>5, <2>1, <2>2, <2>3, <2>4, <2>5, <2>6, <2>7, <2>8 DEF Answer
<1>6. ASSUME NEW n \in Slots, Lose(n)
      PROVE  browser' \in Browser /\ TabStep
  <2>1. calls[n] \in Call BY <1>1, <1>6 DEF Lose, CallsOK, CallOK
  <2> QED BY <1>1, <1>6, <2>1, CallTypes, AfterErrorMove DEF Lose, TabStep
<1>7. CASE SeatPoll \/ Tick \/ OtherCustomers \/ UNCHANGED vars
  BY <1>2, <1>7 DEF SeatPoll, Tick, OtherCustomers, vars
<1>8. ASSUME NEW n \in Slots, Server(n) \/ Vanish(n)
      PROVE  browser' \in Browser /\ TabStep
  <2>1. UNCHANGED browser BY <1>8, ServerSteps DEF Base, Vanish
  <2> QED BY <1>2, <2>1
<1> QED BY <1>3, <1>4, <1>5, <1>6, <1>7, <1>8 DEF Next

\* No step takes back what the server has granted or sold.
LEMMA ServerGoesOnAlways ==
  ASSUME Base, [Next]_vars
  PROVE  ServerGoesOn
<1>1. CASE UNCHANGED <<server, now>>
  BY <1>1, ServerStill DEF Base
<1>2. CASE User \/ CountdownTick \/ SeatPoll \/ UNCHANGED vars
  BY <1>1, <1>2 DEF User, Login, Logout, SelectEvent, ToggleSeat, LockSeats, PayAndIssue,
       Restart, Reload, CountdownTick, SeatPoll, vars, server
<1>3. ASSUME NEW n \in Slots, Answer(n) \/ Lose(n) \/ Vanish(n)
      PROVE  ServerGoesOn
  BY <1>1, <1>3 DEF Answer, LockGranted, LockConflict, PaySucceeded, PayFailed, PayUnknown,
       ShowTicket, SeatStatuses, Refused, Lose, Vanish, Continue
<1>4. ASSUME NEW n \in Slots, Server(n)
      PROVE  ServerGoesOn
  BY <1>4, ServerSteps DEF Base
<1>5. CASE Tick \/ OtherCustomers
  BY <1>5, TickStep, OtherCustomersStep DEF Base
<1> QED BY <1>2, <1>3, <1>4, <1>5 DEF Next

\* Each call after a step was one before it, or is new.
LEMMA CallsGoOnAlways ==
  ASSUME Base, [Next]_vars
  PROVE  CallsGoOn
<1>1. browser' \in Browser /\ ServerMoves /\ ServerOK /\ CallsOK
  BY TabSteps, ServerGoesOnAlways DEF ServerGoesOn, Base
<1>2. CASE UNCHANGED calls
  BY <1>1, <1>2, NothingSent
<1>3. CASE User
  <2>1. CASE \E e \in Events : SelectEvent(e)
    BY <1>1, <2>1, SelectEventCalls
  <2>2. CASE (\E u \in Users : Login(u)) \/ (\E s \in Seats : ToggleSeat(s))
    BY <1>2, <2>2 DEF Login, ToggleSeat
  <2> QED BY <1>3, <2>1, <2>2, LeavingCalls, ClickCalls DEF User
<1>4. CASE CountdownTick \/ SeatPoll
  BY <1>1, <1>4, TimerCalls
<1>5. CASE Tick \/ OtherCustomers \/ UNCHANGED vars
  BY <1>2, <1>5 DEF Tick, OtherCustomers, vars
<1>6. ASSUME NEW n \in Slots, Server(n) \/ Answer(n) \/ Lose(n) \/ Vanish(n)
      PROVE  CallsGoOn
  BY <1>1, <1>6, ServerCalls, AnswerCalls
<1> QED BY <1>3, <1>4, <1>5, <1>6 DEF Next

\* What has been outrun stays so.
LEMMA OutrunGrows ==
  ASSUME [Next]_vars
  PROVE  outrun \subseteq outrun'
<1>1. CASE UNCHANGED outrun
  BY <1>1
<1>2. ASSUME NEW n, Outruns(n) PROVE outrun \subseteq outrun'
  BY <1>2 DEF Outruns
<1>3. CASE User \/ CountdownTick \/ SeatPoll \/ Tick \/ OtherCustomers \/ UNCHANGED vars
  BY <1>1, <1>3 DEF User, Login, Logout, SelectEvent, ToggleSeat, LockSeats, PayAndIssue,
       Restart, Reload, CountdownTick, SeatPoll, Tick, OtherCustomers, vars
<1>4. ASSUME NEW n \in Slots, Answer(n) \/ Lose(n) \/ Vanish(n)
      PROVE  outrun \subseteq outrun'
  BY <1>1, <1>2, <1>4 DEF Answer, LockGranted, LockConflict, PaySucceeded, PayFailed,
       PayUnknown, ShowTicket, SeatStatuses, Refused, Lose, Vanish
<1>5. ASSUME NEW n \in Slots, Server(n)
      PROVE  outrun \subseteq outrun'
  <2>1. UNCHANGED outrun
    BY <1>5 DEF Server, GrantLock, RefuseLock, SettleSuccess, SettleFailure, SettleUnknown,
         RefusePayment, GetTicket, GetSeats, Say, Reply
  <2> QED BY <2>1
<1> QED BY <1>3, <1>4, <1>5 DEF Next

\* Only answers to locks, payments and tickets are noted.
LEMMA OutrunType ==
  ASSUME Base, [Next]_vars
  PROVE  outrun' \subseteq {"lock", "pay", "ticket"}
<1>1. CASE UNCHANGED outrun
  BY <1>1 DEF Base
<1>2. ASSUME NEW n \in Slots, Outruns(n), NEW kind \in {"lock", "pay", "ticket"}, calls[n].kind = kind
      PROVE  outrun' \subseteq {"lock", "pay", "ticket"}
  BY <1>2 DEF Outruns, Base
<1>3. CASE User \/ CountdownTick \/ SeatPoll \/ Tick \/ OtherCustomers \/ UNCHANGED vars
  BY <1>1, <1>3 DEF User, Login, Logout, SelectEvent, ToggleSeat, LockSeats, PayAndIssue,
       Restart, Reload, CountdownTick, SeatPoll, Tick, OtherCustomers, vars
<1>4. ASSUME NEW n \in Slots, Answer(n) \/ Lose(n) \/ Vanish(n)
      PROVE  outrun' \subseteq {"lock", "pay", "ticket"}
  <2>1. CASE LockGranted(n) \/ LockConflict(n)
    BY <1>1, <1>2, <2>1 DEF LockGranted, LockConflict, Answered
  <2>2. CASE PaySucceeded(n) \/ PayFailed(n) \/ ShowTicket(n)
    BY <1>2, <2>2 DEF PaySucceeded, PayFailed, ShowTicket, Answered
  <2>3. CASE PayUnknown(n) \/ SeatStatuses(n) \/ Refused(n) \/ Lose(n) \/ Vanish(n)
    BY <1>1, <2>3 DEF PayUnknown, SeatStatuses, Refused, Lose, Vanish
  <2> QED BY <1>4, <2>1, <2>2, <2>3 DEF Answer
<1>5. ASSUME NEW n \in Slots, Server(n)
      PROVE  outrun' \subseteq {"lock", "pay", "ticket"}
  BY <1>1, <1>5, ServerSteps DEF Base
<1> QED BY <1>3, <1>4, <1>5 DEF Next

-----------------------------------------------------------------------------
(* What holds whatever is outrun. *)

\* A reservation that was granted can be remembered, or nothing.
LEMMA RecordsGranted ==
  ASSUME NEW b \in Browser, RemembersGranted(b), NEW d, NEW e \in Events, NEW r,
         Records(b, d, e, r), r # None => Granted(r)
  PROVE  RemembersGranted(d)
<1>1. b.reservationsByEvent \in [Events -> OrNone(Reservation)]
  BY Zenon DEF Browser
<1>2. \A f \in Events : d.reservationsByEvent[f] = IF f = e THEN r ELSE b.reservationsByEvent[f]
  BY <1>1 DEF Records
<1>3. \A f \in Events : d.reservationsByEvent[f] # None => Granted(d.reservationsByEvent[f])
  <2>1. ASSUME NEW f \in Events, d.reservationsByEvent[f] # None
        PROVE  Granted(d.reservationsByEvent[f])
    <3>1. CASE f = e
      <4>1. d.reservationsByEvent[f] = r BY <1>2, <3>1
      <4> QED BY <2>1, <4>1
    <3>2. CASE f # e
      <4>1. d.reservationsByEvent[f] = b.reservationsByEvent[f] BY <1>2, <3>2
      <4> QED BY <2>1, <4>1 DEF RemembersGranted
    <3> QED BY <3>1, <3>2
  <2> QED BY <2>1
<1>4. ASSUME NEW u \in Users, NEW f \in Events, d.stored[u][f] # None
      PROVE  Granted(d.stored[u][f])
  <2>1. CASE u = b.user
    <3>1. d.stored[u][f] = d.reservationsByEvent[f] BY <2>1 DEF Records
    <3> QED BY <1>3, <1>4, <3>1
  <2>2. CASE u # b.user
    <3>1. d.stored[u][f] = b.stored[u][f] BY <2>2 DEF Records
    <3> QED BY <1>4, <3>1 DEF RemembersGranted
  <2> QED BY <2>1, <2>2
<1> QED BY <1>3, <1>4 DEF RemembersGranted

\* What is read back was granted.
LEMMA RecallsGranted ==
  ASSUME NEW b, RemembersGranted(b), NEW d, NEW u \in Users, Recalls(b, d, u)
  PROVE  RemembersGranted(d)
<1>1. \A e \in Events : \/ d.reservationsByEvent[e] = b.stored[u][e]
                        \/ d.reservationsByEvent[e] = None
  BY DEF Recalls, Unexpired
<1> QED BY <1>1 DEF RemembersGranted, Recalls

\* So is what is left when something is forgotten.
LEMMA ForgetsGranted ==
  ASSUME NEW b \in Browser, RemembersGranted(b), NEW d, Forgets(b, d)
  PROVE  RemembersGranted(d)
<1>1. CASE b.activeEvent = None
  BY <1>1 DEF Forgets, SameMemory, RemembersGranted
<1>2. CASE b.activeEvent # None
  <2>1. PICK e : e = b.activeEvent OBVIOUS
  <2>2. e \in OrNone(Events) BY <2>1, Zenon DEF Browser
  <2> QED BY <1>2, <2>1, <2>2, RecordsGranted DEF Forgets, OrNone
<1> QED BY <1>1, <1>2

\* A tab that stays in its place keeps what it has, or has no reservation.
LEMMA StaysTab ==
  ASSUME NEW b, TabOK(b), NEW d \in Browser, RemembersGranted(d), SamePlace(b, d),
         d.section = "seats" => b.section = "seats",
         d.reservation = None \/ d.reservation = b.reservation
  PROVE  TabOK(d)
<1>1. d.user = None => d.activeEvent = None
  BY DEF SamePlace, TabOK
<1>2. d.section = "seats" => d.activeEvent # None
  BY DEF SamePlace, TabOK
<1>3. d.reservation # None => Granted(d.reservation)
  <2>1. PICK r : r = b.reservation OBVIOUS
  <2>2. r # None => Granted(r) BY <2>1, Zenon DEF TabOK
  <2> QED BY <2>1, <2>2, Zenon
<1> QED BY <1>1, <1>2, <1>3, Zenon DEF TabOK

\* The tab after a step, before the server has moved.
LEMMA TabStepKeepsTab ==
  ASSUME Base, browser' \in Browser, TabStep
  PROVE  TabOK(browser')
<1>1. PICK b, d : b = browser /\ d = browser' OBVIOUS
<1>2. b \in Browser /\ d \in Browser /\ TabOK(b) /\ RemembersGranted(b) /\ CallsOK
  BY <1>1 DEF Base, TabOK
<1> SUFFICES TabOK(d)
  BY <1>1
<1>3. SameMemory(b, d) => RemembersGranted(d)
  BY <1>2 DEF SameMemory, RemembersGranted
<1>4. CASE Quiet(b, d) \/ Selects(b, d) \/ LosesSelection(b, d)
  <2>1. /\ SamePlace(b, d) /\ SameMemory(b, d) /\ d.section = b.section
        /\ d.reservation = None \/ d.reservation = b.reservation
    BY <1>4 DEF Quiet, SameScreen, Selects, LosesSelection
  <2> QED BY <1>2, <1>3, <2>1, StaysTab
<1>5. CASE LogsIn(b, d)
  <2>1. PICK u \in Users : Recalls(b, d, u) BY <1>5 DEF LogsIn
  <2>2. RemembersGranted(d) BY <1>2, <2>1, RecallsGranted
  <2>3. /\ d.activeEvent = b.activeEvent /\ d.section = b.section
        /\ d.reservation = b.reservation /\ b.activeEvent = None
    BY <1>2, <1>5 DEF LogsIn, SameScreen, TabOK
  <2>4. d.section # "seats" BY <1>2, <2>3 DEF TabOK
  <2>5. d.reservation # None => Granted(d.reservation)
    <3>1. PICK r : r = b.reservation OBVIOUS
    <3>2. r # None => Granted(r) BY <1>2, <3>1, Zenon DEF TabOK
    <3> QED BY <2>3, <3>1, <3>2, Zenon
  <2> QED BY <1>2, <2>2, <2>3, <2>4, <2>5 DEF TabOK
<1>6. CASE Leaves(b, d)
  <2>1. RemembersGranted(d)
    <3>1. CASE d.reservationsByEvent = NothingRemembered /\ d.stored = b.stored
      BY <1>2, <3>1 DEF RemembersGranted, NothingRemembered
    <3> QED BY <1>2, <1>3, <1>6, <3>1, RecallsGranted DEF Leaves
  <2>2. d.activeEvent = None /\ d.reservation = None /\ d.section # "seats"
    BY <1>6 DEF Leaves
  <2> QED BY <1>2, <2>1, <2>2 DEF TabOK
<1>7. ASSUME NEW e \in Events, Opens(b, d, e)
      PROVE  TabOK(d)
  <2>1. RemembersGranted(d)
    <3>1. PICK r : r = None OBVIOUS
    <3>2. SameMemory(b, d) \/ Records(b, d, e, r) BY <1>7, <3>1 DEF Opens
    <3> QED BY <1>2, <1>3, <3>1, <3>2, RecordsGranted
  <2>2. d.reservation # None => Granted(d.reservation)
    BY <1>2, <1>7 DEF Opens, RemembersGranted
  <2>3. d.user # None /\ d.activeEvent # None
    BY <1>7, FrontendAssumption DEF Opens
  <2> QED BY <1>2, <2>1, <2>2, <2>3 DEF TabOK
<1>8. CASE Ends(b, d) \/ Pays(b, d)
  <2>1. /\ SamePlace(b, d) /\ Forgets(b, d) /\ d.section = b.section
        /\ d.reservation = None \/ d.reservation = b.reservation
    BY <1>8 DEF Ends, Pays
  <2>2. RemembersGranted(d)
    BY <1>2, <2>1, ForgetsGranted
  <2> QED BY <1>2, <2>1, <2>2, StaysTab
<1>9. ASSUME NEW n \in Slots, LockGranted(n), TakesLock(b, d, calls[n].answer.reservation)
       PROVE  TabOK(d)
  <2>1. PICK r : r = calls[n].answer.reservation OBVIOUS
  <2>2. Granted(r) /\ r # None
    <3>1. CallOK(calls[n]) /\ calls[n].kind = "lock" /\ Said(calls[n], "granted")
      BY <1>2, <1>9, AnsweredCall DEF LockGranted
    <3>2. PICK c : c = calls[n] OBVIOUS
    <3> QED BY <2>1, <3>1, <3>2, GrantedAnswer
  <2>3. TakesLock(b, d, r) BY <1>9, <2>1
  <2>4. RemembersGranted(d)
    <3>1. CASE SameMemory(b, d) BY <1>3, <3>1
    <3>2. CASE b.activeEvent # None
      <4>1. PICK e : e = b.activeEvent OBVIOUS
      <4>2. e \in OrNone(Events) BY <1>2, <4>1, Zenon DEF Browser
      <4>3. PICK x : x = None OBVIOUS
      <4>4. Records(b, d, e, r) \/ Records(b, d, e, x)
        BY <2>3, <3>2, <4>1, <4>3 DEF TakesLock
      <4> QED BY <1>2, <2>2, <3>2, <4>1, <4>2, <4>3, <4>4, RecordsGranted DEF OrNone
    <3> QED BY <2>3, <3>1, <3>2 DEF TakesLock
  <2>5. /\ d.reservation = None \/ d.reservation = r
        /\ d.user = b.user /\ d.activeEvent = b.activeEvent /\ d.section = b.section
    BY <2>3 DEF TakesLock, SamePlace
  <2>6. d.reservation # None => Granted(d.reservation)
    BY <2>2, <2>5, Zenon
  <2> QED BY <1>2, <2>4, <2>5, <2>6 DEF TabOK
<1>10. ASSUME NEW c, ShowsStub(b, d, c)
       PROVE  TabOK(d)
  <2>1. /\ SamePlace(b, d) /\ SameMemory(b, d) /\ d.section # "seats"
        /\ d.reservation = b.reservation
    BY <1>10 DEF ShowsStub
  <2> QED BY <1>2, <1>3, <2>1, StaysTab
<1>11. TabOK(d)
  BY <1>1, <1>4, <1>5, <1>6, <1>7, <1>8, <1>9, <1>10 DEF TabStep
<1> QED BY <1>1, <1>11

\* What the server has granted to a tab it keeps.
LEMMA TabStays ==
  ASSUME NEW b, TabOK(b), ServerOK, ServerMoves
  PROVE  TabOK(b)'
<1>1. /\ b \in Browser /\ b.reservation \in OrNone(Reservation)
      /\ b.reservationsByEvent \in [Events -> OrNone(Reservation)]
      /\ b.stored \in [Users -> [Events -> OrNone(Reservation)]]
  <2>1. b \in Browser BY DEF TabOK
  <2> QED BY <2>1, Zenon DEF Browser
<1>2. ASSUME NEW r \in OrNone(Reservation), r # None => Granted(r)
      PROVE  r # None => Granted(r)'
  BY <1>2, GrantedStays DEF OrNone
<1>3. b.reservation # None => Granted(b.reservation)'
  <2>1. PICK r : r = b.reservation OBVIOUS
  <2>2. r # None => Granted(r)' BY <1>1, <1>2, <2>1 DEF TabOK
  <2> QED BY <2>1, <2>2
<1>4. ASSUME NEW e \in Events
      PROVE  b.reservationsByEvent[e] # None => Granted(b.reservationsByEvent[e])'
  <2>1. PICK r : r = b.reservationsByEvent[e] OBVIOUS
  <2>2. r \in OrNone(Reservation) BY <1>1, <2>1
  <2>3. r # None => Granted(r)' BY <1>2, <2>1, <2>2 DEF TabOK, RemembersGranted
  <2> QED BY <2>1, <2>3
<1>5. ASSUME NEW u \in Users, NEW e \in Events
      PROVE  b.stored[u][e] # None => Granted(b.stored[u][e])'
  <2>1. PICK r : r = b.stored[u][e] OBVIOUS
  <2>2. r \in OrNone(Reservation) BY <1>1, <2>1
  <2>3. r # None => Granted(r)' BY <1>2, <2>1, <2>2 DEF TabOK, RemembersGranted
  <2> QED BY <2>1, <2>3
<1>6. RemembersGranted(b)'
  BY <1>4, <1>5 DEF RemembersGranted
<1> QED BY <1>1, <1>3, <1>6 DEF TabOK

\* All of this holds after every step.
LEMMA BaseStep ==
  ASSUME Base, [Next]_vars
  PROVE  Base'
<1>1. ServerOK /\ ServerOK' /\ ServerMoves /\ CallsOK'
  BY ServerGoesOnAlways, CallsGoOnAlways DEF ServerGoesOn, CallsGoOn, Base
<1>2. PICK d : d = browser' OBVIOUS
<1>3. TabOK(d)'
  BY <1>1, <1>2, TabSteps, TabStepKeepsTab, TabStays
<1>4. TabOK(browser)'
  BY <1>2, <1>3
<1> QED BY <1>1, <1>4, OutrunType DEF Base

-----------------------------------------------------------------------------
(* What holds until the answer to a lock finds the tab elsewhere. *)

\* An event's reservation of the user can be remembered, or nothing.
LEMMA RecordsInPlace ==
  ASSUME NEW b \in Browser, Own(b), Kept(b), NEW d, NEW e \in Events, NEW r,
         Records(b, d, e, r), d.user = b.user, b.user # None,
         r # None => r.user = b.user /\ r.event = e
  PROVE  Own(d) /\ Kept(d) /\ d.reservationsByEvent[e] = r
<1>1. /\ b.reservationsByEvent \in [Events -> OrNone(Reservation)] /\ b.user \in Users
  <2>1. b.reservationsByEvent \in [Events -> OrNone(Reservation)] /\ b.user \in OrNone(Users)
    BY Zenon DEF Browser
  <2> QED BY <2>1 DEF OrNone
<1>2. \A f \in Events : d.reservationsByEvent[f] = IF f = e THEN r ELSE b.reservationsByEvent[f]
  BY <1>1 DEF Records
<1>3. \A f \in Events : d.stored[b.user][f] = d.reservationsByEvent[f]
  BY <1>1 DEF Records
<1>4. ASSUME NEW f \in Events, b.reservationsByEvent[f] # None
      PROVE  b.reservationsByEvent[f].user = b.user /\ b.reservationsByEvent[f].event = f
  <2>1. b.reservationsByEvent[f] = b.stored[b.user][f] BY <1>4 DEF Kept
  <2> QED BY <1>1, <1>4, <2>1 DEF Own
<1>5. ASSUME NEW u \in Users, NEW f \in Events, d.stored[u][f] # None
      PROVE  d.stored[u][f].user = u /\ d.stored[u][f].event = f
  <2>1. CASE u = b.user
    <3>1. d.stored[u][f] = IF f = e THEN r ELSE b.reservationsByEvent[f] BY <1>2, <1>3, <2>1
    <3> QED BY <1>4, <1>5, <2>1, <3>1
  <2>2. CASE u # b.user
    <3>1. d.stored[u][f] = b.stored[u][f] BY <2>2 DEF Records
    <3> QED BY <1>5, <3>1 DEF Own
  <2> QED BY <2>1, <2>2
<1>6. Own(d) BY <1>5 DEF Own
<1>7. Kept(d) BY <1>3 DEF Kept
<1> QED BY <1>2, <1>6, <1>7

\* A step that writes nothing keeps what is kept.
LEMMA MemoryInPlace ==
  ASSUME NEW b, Own(b), Kept(b), NEW d, d.user = b.user, SameMemory(b, d)
  PROVE  Own(d) /\ Kept(d)
  BY DEF SameMemory, Own, Kept

\* So does reading it back.
LEMMA RecallsInPlace ==
  ASSUME NEW b, Own(b), NEW d, NEW u \in Users, Recalls(b, d, u)
  PROVE  Own(d) /\ Kept(d)
<1>1. Own(d) BY DEF Recalls, Own
<1>2. \A e \in Events : \/ d.reservationsByEvent[e] = d.stored[d.user][e]
                        \/ d.reservationsByEvent[e] = None /\ Over(d.stored[d.user][e])
  BY DEF Recalls, Unexpired, Over
<1> QED BY <1>1, <1>2 DEF Kept

\* So does forgetting what is remembered for the open event.
LEMMA ForgetsInPlace ==
  ASSUME NEW b, TabOK(b), Own(b), Kept(b), NEW d, Forgets(b, d), SamePlace(b, d)
  PROVE  /\ Own(d) /\ Kept(d)
         /\ d.activeEvent # None => d.reservationsByEvent[d.activeEvent] = None
<1>1. CASE b.activeEvent = None
  <2>1. SameMemory(b, d) /\ d.user = b.user /\ d.activeEvent = None
    BY <1>1 DEF Forgets, SamePlace
  <2> QED BY <2>1, MemoryInPlace
<1>2. CASE b.activeEvent # None
  <2>1. PICK e : e = b.activeEvent OBVIOUS
  <2>2. PICK r : r = None OBVIOUS
  <2>3. b \in Browser /\ b.user # None BY <1>2 DEF TabOK
  <2>4. e \in Events
    <3>1. b.activeEvent \in OrNone(Events) BY <2>3, Zenon DEF Browser
    <3> QED BY <1>2, <2>1, <3>1 DEF OrNone
  <2>5. Records(b, d, e, r) /\ d.user = b.user /\ d.activeEvent = e
    BY <1>2, <2>1, <2>2 DEF Forgets, SamePlace
  <2>6. Own(d) /\ Kept(d) /\ d.reservationsByEvent[e] = r
    BY <2>2, <2>3, <2>4, <2>5, RecordsInPlace
  <2> QED BY <2>2, <2>5, <2>6
<1> QED BY <1>1, <1>2

\* An answer to a lock that finds the tab elsewhere is noted.
LEMMA LockInTime ==
  ASSUME CallsOK, NEW n \in Slots, "lock" \notin outrun'
  PROVE  /\ LockGranted(n) =>
              /\ browser.user = calls[n].user /\ browser.activeEvent = calls[n].event
              /\ browser.selectedSeats = calls[n].seats /\ browser.reservation = None
         /\ LockConflict(n) => browser.reservation = None
<1>1. CASE LockGranted(n)
  <2>1. calls[n].kind = "lock" /\ ~Elsewhere(calls[n])
    BY <1>1 DEF LockGranted, Answered, Outruns
  <2>2. /\ browser.reservation = None
        /\ <<browser.user, browser.activeEvent, browser.selectedSeats>> =
             <<calls[n].user, calls[n].event, calls[n].seats>>
    BY <2>1 DEF Elsewhere
  <2>3. ~LockConflict(n)
    BY <1>1 DEF LockGranted, LockConflict, Answered
  <2> QED BY <2>2, <2>3
<1>2. CASE LockConflict(n) /\ browser.reservation # None
  <2>1. calls[n].kind = "lock" /\ Outruns(n)
    BY <1>2 DEF LockConflict, Answered
  <2> QED BY <1>2, <2>1 DEF Outruns, Elsewhere
<1> QED BY <1>1, <1>2

\* An event opens with the reservation that is remembered for it, or without.
LEMMA OpensInPlace ==
  ASSUME NEW b \in Browser, InPlace(b), NEW d, NEW e \in Events, Opens(b, d, e)
  PROVE  InPlace(d)
<1>1. PICK r : r = b.reservationsByEvent[e] OBVIOUS
<1>2. PICK x : x = None OBVIOUS
<1>3. d.user = b.user /\ b.user # None /\ d.activeEvent = e
  BY DEF Opens
<1>4. Own(b) /\ Kept(b) /\ b.user \in Users
  <2>1. b.user \in OrNone(Users) BY Zenon DEF Browser
  <2> QED BY <1>3, <2>1 DEF InPlace, OrNone
<1>5. \/ /\ r # None /\ d.reservation = r /\ d.selectedSeats = r.seats /\ SameMemory(b, d)
      \/ /\ d.reservation = None /\ r = None /\ SameMemory(b, d)
      \/ /\ d.reservation = None /\ Records(b, d, e, x)
  BY <1>1, <1>2 DEF Opens
<1>6. CASE r # None /\ d.reservation = r /\ d.selectedSeats = r.seats /\ SameMemory(b, d)
  <2>1. r.event = e
    <3>1. r = b.stored[b.user][e] BY <1>1, <1>3, <1>4, <1>6 DEF Kept
    <3> QED BY <1>4, <1>6, <3>1 DEF Own
  <2>2. d.reservationsByEvent[e] = r BY <1>1, <1>6 DEF SameMemory
  <2>3. OnScreen(d) /\ Shows(d) BY <1>3, <1>6, <2>1, <2>2 DEF OnScreen, Shows
  <2> QED BY <1>3, <1>4, <1>6, <2>3, MemoryInPlace DEF InPlace
<1>7. CASE d.reservation = None /\ r = None /\ SameMemory(b, d)
  <2>1. d.reservationsByEvent[e] = None BY <1>1, <1>7 DEF SameMemory
  <2>2. OnScreen(d) /\ Shows(d) BY <1>3, <1>7, <2>1 DEF OnScreen, Shows
  <2> QED BY <1>3, <1>4, <1>7, <2>2, MemoryInPlace DEF InPlace
<1>8. CASE d.reservation = None /\ Records(b, d, e, x)
  <2>1. Own(d) /\ Kept(d) /\ d.reservationsByEvent[e] = x
    BY <1>2, <1>3, <1>4, <1>8, RecordsInPlace
  <2>2. OnScreen(d) /\ Shows(d) BY <1>2, <1>3, <1>8, <2>1 DEF OnScreen, Shows
  <2> QED BY <2>1, <2>2 DEF InPlace
<1> QED BY <1>5, <1>6, <1>7, <1>8

\* A lock that is taken in time is for what the tab shows.
LEMMA LockInPlace ==
  ASSUME NEW b \in Browser, InPlace(b), NEW d, NEW r, TakesLock(b, d, r), r # None,
         b.user # None, b.activeEvent \in Events, b.activeEvent # None,
         r.user = b.user, r.event = b.activeEvent, r.seats = b.selectedSeats
  PROVE  InPlace(d)
<1>1. PICK e : e = b.activeEvent OBVIOUS
<1>2. PICK x : x = None OBVIOUS
<1>3. d.user = b.user /\ d.activeEvent = e /\ e \in Events /\ Own(b) /\ Kept(b)
  BY <1>1 DEF TakesLock, SamePlace, InPlace
<1>4. \/ d.reservation = r /\ d.selectedSeats = b.selectedSeats /\ Records(b, d, e, r)
      \/ d.reservation = None /\ Records(b, d, e, x)
  BY <1>1, <1>2 DEF TakesLock
<1>5. CASE d.reservation = r /\ d.selectedSeats = b.selectedSeats /\ Records(b, d, e, r)
  <2>1. Own(d) /\ Kept(d) /\ d.reservationsByEvent[e] = r
    BY <1>1, <1>3, <1>5, RecordsInPlace
  <2>2. OnScreen(d) /\ Shows(d) BY <1>1, <1>3, <1>5, <2>1 DEF OnScreen, Shows
  <2> QED BY <2>1, <2>2 DEF InPlace
<1>6. CASE d.reservation = None /\ Records(b, d, e, x)
  <2>1. Own(d) /\ Kept(d) /\ d.reservationsByEvent[e] = x
    BY <1>2, <1>3, <1>6, RecordsInPlace
  <2>2. OnScreen(d) /\ Shows(d) BY <1>2, <1>3, <1>6, <2>1 DEF OnScreen, Shows
  <2> QED BY <2>1, <2>2 DEF InPlace
<1> QED BY <1>4, <1>5, <1>6

\* No step puts anything out of its place, but an answer to a lock.
LEMMA TabStepInPlace ==
  ASSUME Base, browser' \in Browser, TabStep, InPlace(browser), "lock" \notin outrun'
  PROVE  InPlace(browser')
<1>1. PICK b : b = browser OBVIOUS
<1>2. PICK d : d = browser' OBVIOUS
<1>3. /\ b \in Browser /\ d \in Browser /\ TabOK(b) /\ CallsOK
      /\ InPlace(b) /\ Own(b) /\ Kept(b) /\ OnScreen(b) /\ Shows(b)
  BY <1>1, <1>2 DEF Base, TabOK, InPlace
<1> SUFFICES InPlace(d)
  BY <1>2
<1>4. CASE Quiet(b, d) \/ \E c : ShowsStub(b, d, c)
  <2>1. /\ SamePlace(b, d) /\ SameMemory(b, d)
        /\ d.reservation = b.reservation /\ d.selectedSeats = b.selectedSeats
    BY <1>4 DEF Quiet, SameScreen, ShowsStub
  <2>2. Own(d) /\ Kept(d) BY <1>3, <2>1, MemoryInPlace DEF SamePlace
  <2>3. OnScreen(d) BY <1>3, <2>1 DEF SamePlace, SameMemory, OnScreen
  <2>4. Shows(d) BY <1>3, <2>1 DEF SamePlace, Shows
  <2> QED BY <2>2, <2>3, <2>4 DEF InPlace
<1>5. ASSUME SamePlace(b, d), SameMemory(b, d), b.reservation = None, d.reservation = None
      PROVE  InPlace(d)
  <2>1. Own(d) /\ Kept(d) BY <1>3, <1>5, MemoryInPlace DEF SamePlace
  <2>2. OnScreen(d) BY <1>3, <1>5 DEF SamePlace, SameMemory, OnScreen
  <2>3. Shows(d) BY <1>5 DEF Shows
  <2> QED BY <2>1, <2>2, <2>3 DEF InPlace
<1>6. CASE Selects(b, d)
  BY <1>5, <1>6 DEF Selects
<1>7. CASE LogsIn(b, d)
  <2>1. PICK u \in Users : Recalls(b, d, u) BY <1>7 DEF LogsIn
  <2>2. Own(d) /\ Kept(d) BY <1>3, <2>1, RecallsInPlace
  <2>3. /\ d.activeEvent = None /\ b.activeEvent = None
        /\ d.reservation = b.reservation /\ d.selectedSeats = b.selectedSeats
    BY <1>3, <1>7 DEF LogsIn, SameScreen, TabOK
  <2>4. OnScreen(d) BY <2>3 DEF OnScreen
  <2>5. Shows(d) BY <1>3, <2>3 DEF Shows
  <2> QED BY <2>2, <2>4, <2>5 DEF InPlace
<1>8. CASE Leaves(b, d)
  <2>1. d.activeEvent = None /\ d.reservation = None BY <1>8 DEF Leaves
  <2>2. OnScreen(d) /\ Shows(d) BY <2>1 DEF OnScreen, Shows
  <2>3. Own(d) /\ Kept(d)
    <3>1. CASE d.user = None /\ d.stored = b.stored
      BY <1>3, <3>1 DEF Own, Kept
    <3> QED BY <1>3, <1>8, <3>1, RecallsInPlace, MemoryInPlace DEF Leaves
  <2> QED BY <2>2, <2>3 DEF InPlace
<1>9. ASSUME NEW e \in Events, Opens(b, d, e)
      PROVE  InPlace(d)
  BY <1>3, <1>9, OpensInPlace
<1>10. CASE Ends(b, d) \/ Pays(b, d)
  <2>1. /\ SamePlace(b, d) /\ Forgets(b, d)
        /\ d.reservation = None \/ (d.reservation = b.reservation /\ d.selectedSeats = b.selectedSeats)
    BY <1>10 DEF Ends, Pays
  <2>2. /\ Own(d) /\ Kept(d)
        /\ d.activeEvent # None => d.reservationsByEvent[d.activeEvent] = None
    BY <1>3, <2>1, ForgetsInPlace
  <2>3. OnScreen(d) BY <2>2 DEF OnScreen
  <2>4. Shows(d) BY <1>3, <2>1 DEF SamePlace, Shows
  <2> QED BY <2>2, <2>3, <2>4 DEF InPlace
<1>11. ASSUME NEW n \in Slots, LockConflict(n), LosesSelection(b, d)
       PROVE  InPlace(d)
  <2>1. b.reservation = None BY <1>1, <1>3, <1>11, LockInTime
  <2> QED BY <1>5, <1>11, <2>1 DEF LosesSelection
<1>12. ASSUME NEW n \in Slots, LockGranted(n), TakesLock(b, d, calls[n].answer.reservation)
       PROVE  InPlace(d)
  <2>1. PICK c : c = calls[n] OBVIOUS
  <2>2. PICK r : r = c.answer.reservation OBVIOUS
  <2>3. /\ c.user \in Users /\ c.event \in Events /\ r # None
        /\ r.user = c.user /\ r.event = c.event /\ r.seats = c.seats
    <3>1. CallOK(c) /\ c.kind = "lock" /\ Said(c, "granted")
      BY <1>3, <1>12, <2>1, AnsweredCall DEF LockGranted
    <3> QED BY <2>2, <3>1, GrantedAnswer
  <2>4. b.user = c.user /\ b.activeEvent = c.event /\ b.selectedSeats = c.seats
    BY <1>1, <1>3, <1>12, <2>1, LockInTime
  <2>5. TakesLock(b, d, r) BY <1>12, <2>1, <2>2
  <2>6. b.user # None /\ b.activeEvent # None BY <2>3, <2>4, FrontendAssumption
  <2> QED BY <1>3, <2>3, <2>4, <2>5, <2>6, LockInPlace
<1>13. InPlace(d)
  BY <1>1, <1>2, <1>4, <1>6, <1>7, <1>8, <1>9, <1>10, <1>11, <1>12 DEF TabStep
<1> QED BY <1>2, <1>13

\* What is in its place stays there while time passes.
LEMMA InPlaceStays ==
  ASSUME NEW b, b \in Browser, InPlace(b), ServerOK, ServerMoves
  PROVE  InPlace(b)'
<1>1. b.stored \in [Users -> [Events -> OrNone(Reservation)]] /\ b.user \in OrNone(Users)
  BY Zenon DEF Browser
<1>2. ASSUME NEW r, r \in OrNone(Reservation), Over(r)
      PROVE  Over(r)'
  <2>1. r # None /\ r.expiresAt \in Nat /\ r.expiresAt <= now
    BY <1>2 DEF Over, OrNone, Reservation
  <2>2. now \in Nat /\ now' \in Nat /\ now <= now' BY DEF ServerOK, ServerMoves
  <2>3. r.expiresAt <= now' BY <2>1, <2>2
  <2> QED BY <2>1, <2>3 DEF Over
<1>3. ASSUME b.user # None, NEW e \in Events
      PROVE  \/ b.reservationsByEvent[e] = b.stored[b.user][e]
             \/ b.reservationsByEvent[e] = None /\ Over(b.stored[b.user][e])'
  <2>1. PICK r : r = b.stored[b.user][e] OBVIOUS
  <2>2. r \in OrNone(Reservation) BY <1>1, <1>3, <2>1 DEF OrNone
  <2>3. \/ b.reservationsByEvent[e] = r
        \/ b.reservationsByEvent[e] = None /\ Over(r)
    BY <1>3, <2>1 DEF InPlace, Kept
  <2>4. Over(r) => Over(r)' BY <1>2, <2>2
  <2> QED BY <2>1, <2>3, <2>4
<1>4. Kept(b)' BY <1>3 DEF Kept
<1>5. Own(b)' /\ OnScreen(b)' /\ Shows(b)' BY DEF InPlace, Own, OnScreen, Shows
<1> QED BY <1>4, <1>5 DEF InPlace

\* What is for the seats of a reservation that was granted stays so.
LEMMA ForItsSeatsStays ==
  ASSUME NEW c, c.reservation \in ReservationIds, grants[c.reservation] # None,
         ServerMoves, ForItsSeats(c)
  PROVE  ForItsSeats(c)'
<1>1. grants'[c.reservation] = grants[c.reservation] BY DEF ServerMoves
<1> QED BY <1>1 DEF ForItsSeats

\* A payment under way names a reservation that was granted.
LEMMA PaymentIsGranted ==
  ASSUME CallsOK, NEW n \in Slots, calls[n] # None, calls[n].kind = "pay"
  PROVE  calls[n].reservation \in ReservationIds /\ grants[calls[n].reservation] # None
<1>1. PICK c : c = calls[n] OBVIOUS
<1>2. CallOK(c) /\ c \in Call BY <1>1 DEF CallsOK, CallOK
<1>3. c.reservation # None /\ grants[c.reservation] # None BY <1>1, <1>2 DEF CallOK
<1> QED BY <1>1, <1>2, <1>3, CallTypes DEF OrNone

\* A payment is sent for the seats on the screen, and charges come of payments.
LEMMA PaymentsStayRight ==
  ASSUME Base, ServerMoves, ChargesCome, CallsGoOn, Shows(browser), PaymentsRight
  PROVE  PaymentsRight'
<1>1. TabOK(browser) /\ ServerOK /\ CallsOK BY DEF Base
<1>2. ASSUME NEW n \in Slots, calls'[n] # None, calls'[n].kind = "pay"
      PROVE  ForItsSeats(calls[n])'
  <2>1. PICK d : d = calls'[n] OBVIOUS
  <2>2. From(d, n) /\ d.kind = "pay" BY <1>2, <2>1 DEF CallsGoOn
  <2>3. CASE Comes(d, calls[n])
    <3>1. PICK c : c = calls[n] OBVIOUS
    <3>2. /\ c # None /\ c.kind = "pay" /\ d.reservation = c.reservation
          /\ d.event = c.event /\ d.seats = c.seats
      BY <2>2, <2>3, <3>1 DEF Comes
    <3>3. ForItsSeats(c) BY <3>1, <3>2 DEF PaymentsRight
    <3>4. ForItsSeats(d) BY <3>2, <3>3 DEF ForItsSeats
    <3>5. d.reservation \in ReservationIds /\ grants[d.reservation] # None
      BY <1>1, <3>1, <3>2, PaymentIsGranted
    <3>6. ForItsSeats(d)' BY <3>4, <3>5, ForItsSeatsStays
    <3> QED BY <2>1, <3>6
  <2>4. CASE PayAndIssue /\ d = Request("pay", browser)
    <3>1. browser.reservation # None BY <2>4 DEF PayAndIssue
    <3>2. /\ d.event = browser.activeEvent /\ d.seats = browser.selectedSeats
          /\ d.reservation = browser.reservation.id
      BY <2>4, <3>1, RequestFields
    <3>3. /\ browser.reservation.id \in ReservationIds /\ browser.reservation # None
          /\ grants[browser.reservation.id] = browser.reservation
      BY <1>1, <3>1, ShownReservation
    <3>4. ForItsSeats(d) BY <3>1, <3>2, <3>3 DEF ForItsSeats, Shows
    <3>5. d.reservation \in ReservationIds /\ grants[d.reservation] # None
      BY <3>2, <3>3
    <3>6. ForItsSeats(d)' BY <3>4, <3>5, ForItsSeatsStays
    <3> QED BY <2>1, <3>6
  <2>5. CASE \E b : d = Request("ticket", b)
    BY <2>2, <2>5, RequestFields
  <2> QED BY <2>2, <2>3, <2>4, <2>5 DEF From
<1>3. ASSUME NEW c \in charges' PROVE ForItsSeats(c)'
  <2>1. CASE c \in charges
    <3>1. ForItsSeats(c) BY <2>1 DEF PaymentsRight
    <3>2. c.reservation \in ReservationIds /\ grants[c.reservation] # None
      BY <1>1, <2>1 DEF ServerOK
    <3> QED BY <3>1, <3>2, ForItsSeatsStays
  <2>2. CASE c \notin charges
    <3>1. PICK n \in Slots : /\ calls[n] # None /\ calls[n].kind = "pay"
                             /\ c.reservation = calls[n].reservation
                             /\ c.event = calls[n].event
                             /\ c.seats = calls[n].seats
      BY <1>3, <2>2 DEF ChargesCome
    <3>2. PICK k : k = calls[n] OBVIOUS
    <3>3. ForItsSeats(k) BY <3>1, <3>2 DEF PaymentsRight
    <3>4. ForItsSeats(c) BY <3>1, <3>2, <3>3 DEF ForItsSeats
    <3>5. c.reservation \in ReservationIds /\ grants[c.reservation] # None
      BY <1>1, <3>1, PaymentIsGranted
    <3> QED BY <3>4, <3>5, ForItsSeatsStays
  <2> QED BY <2>1, <2>2
<1> QED BY <1>2, <1>3 DEF PaymentsRight

-----------------------------------------------------------------------------
(* What holds until the answer to a payment or a ticket finds the tab elsewhere. *)

\* Such an answer is noted, too.
LEMMA AnswerInTime ==
  ASSUME CallsOK, NEW n \in Slots
  PROVE  /\ (PaySucceeded(n) \/ PayFailed(n)) /\ "pay" \notin outrun' =>
              browser.reservation = None \/ browser.reservation.id = calls[n].reservation
         /\ ShowTicket(n) /\ "ticket" \notin outrun' =>
              /\ calls[n].heard /\ ~calls[n].left
              /\ browser.reservation = None \/ browser.reservation.id = calls[n].reservation
<1>1. CASE (PaySucceeded(n) \/ PayFailed(n)) /\ "pay" \notin outrun'
  <2>1. calls[n].kind = "pay" /\ Outruns(n)
    BY <1>1 DEF PaySucceeded, PayFailed, Answered
  <2>2. ~ShowTicket(n) BY <2>1 DEF ShowTicket, Answered
  <2>3. ~Elsewhere(calls[n]) BY <1>1, <2>1 DEF Outruns
  <2> QED BY <2>1, <2>2, <2>3 DEF Elsewhere
<1>2. CASE ShowTicket(n) /\ "ticket" \notin outrun'
  <2>1. calls[n].kind = "ticket" /\ calls[n].heard /\ Outruns(n)
    BY <1>2 DEF ShowTicket, Answered
  <2>2. ~(PaySucceeded(n) \/ PayFailed(n))
    BY <2>1 DEF PaySucceeded, PayFailed, Answered
  <2>3. ~Elsewhere(calls[n]) BY <1>2, <2>1 DEF Outruns
  <2> QED BY <2>1, <2>2, <2>3 DEF Elsewhere
<1> QED BY <1>1, <1>2

\* A payment that has succeeded has sold its reservation.
LEMMA PaidIsSold ==
  ASSUME CallsOK, NEW n \in Slots, PaySucceeded(n)
  PROVE  calls[n].reservation \in sold
<1>1. PICK c : c = calls[n] OBVIOUS
<1>2. CallOK(c) /\ c.kind = "pay" /\ Said(c, "succeeded")
  BY <1>1, AnsweredCall DEF PaySucceeded
<1> QED BY <1>1, <1>2 DEF CallOK

\* One that has failed has sold nothing, and freed the seats.
LEMMA FailedIsFree ==
  ASSUME CallsOK, NEW n \in Slots, PayFailed(n)
  PROVE  calls[n].reservation \notin sold /\ Inventory!SeatsOf(calls[n].reservation) = {}
<1>1. PICK c : c = calls[n] OBVIOUS
<1>2. CallOK(c) /\ c.kind = "pay" /\ Said(c, "failed")
  BY <1>1, AnsweredCall DEF PayFailed
<1>3. c.reservation \notin sold /\ Inventory!SeatsOf(c.reservation) = {}
  BY <1>2 DEF CallOK
<1> QED BY <1>1, <1>3

\* The tab that takes a lock in time shows an open event and no reservation.
LEMMA LockAnswerInTime ==
  ASSUME CallsOK, NEW n \in Slots, LockGranted(n), "lock" \notin outrun'
  PROVE  browser.reservation = None /\ browser.activeEvent # None
<1>1. CallOK(calls[n]) /\ calls[n].kind = "lock" /\ Said(calls[n], "granted")
  BY AnsweredCall DEF LockGranted
<1>2. PICK c : c = calls[n] OBVIOUS
<1>3. c.event \in Events BY <1>1, <1>2, GrantedAnswer
<1> QED BY <1>2, <1>3, LockInTime, FrontendAssumption

\* A countdown is stopped with its reservation, or when that is paid.
LEMMA CountsStep ==
  ASSUME Base, ServerMoves, TabStep, Astray' = {}, Counts(browser)
  PROVE  Counts(browser)'
<1>1. PICK b : b = browser OBVIOUS
<1>2. PICK d : d = browser' OBVIOUS
<1>3. CallsOK /\ "lock" \notin outrun' /\ "pay" \notin outrun' /\ Counts(b)
  BY <1>1 DEF Base, Astray
<1> SUFFICES Counts(d)
  <2>1. sold \subseteq sold' BY DEF ServerMoves
  <2> QED BY <1>2, <2>1 DEF Counts
<1>4. CASE d.reservation = None \/ d.countdown = d.reservation.expiresAt
  BY <1>4 DEF Counts
<1>5. CASE d.reservation = b.reservation /\ d.countdown = b.countdown
  BY <1>3, <1>5 DEF Counts
<1>6. CASE Quiet(b, d) \/ LogsIn(b, d) \/ LosesSelection(b, d) \/ \E c : ShowsStub(b, d, c)
  BY <1>5, <1>6 DEF Quiet, LogsIn, SameScreen, LosesSelection, ShowsStub
<1>7. CASE Leaves(b, d) \/ Selects(b, d) \/ Ends(b, d)
  BY <1>4, <1>7 DEF Leaves, Selects, Ends
<1>8. CASE \E e \in Events : Opens(b, d, e)
  BY <1>4, <1>8 DEF Opens
<1>9. ASSUME NEW n \in Slots, LockGranted(n), TakesLock(b, d, calls[n].answer.reservation)
      PROVE  Counts(d)
  <2>1. b.activeEvent # None BY <1>1, <1>3, <1>9, LockAnswerInTime
  <2> QED BY <1>4, <1>9, <2>1 DEF TakesLock
<1>10. ASSUME NEW n \in Slots, PaySucceeded(n), Pays(b, d)
       PROVE  Counts(d)
  <2>1. d.reservation = b.reservation BY <1>10 DEF Pays
  <2>2. d.reservation # None => d.reservation.id \in sold
    BY <1>1, <1>3, <1>10, <2>1, AnswerInTime, PaidIsSold
  <2> QED BY <2>2 DEF Counts
<1> QED BY <1>1, <1>2, <1>6, <1>7, <1>8, <1>9, <1>10 DEF TabStep

\* The ticket that is awaited is that of the reservation on the screen.
LEMMA TicketsStep ==
  ASSUME Base, ServerMoves, CallsGoOn, TabStep, browser' \in Browser, outrun' = {},
         \A n \in Slots : Awaits(calls[n]) => AtTheTicket(browser, calls[n]),
         NEW n \in Slots, Awaits(calls'[n])
  PROVE  AtTheTicket(browser, calls[n])'
<1>1. PICK b : b = browser OBVIOUS
<1>2. PICK d : d = browser' OBVIOUS
<1>3. PICK k : k = calls'[n] OBVIOUS
<1>4. /\ CallsOK /\ sold \subseteq sold' /\ b \in Browser
      /\ k # None /\ k.kind = "ticket" /\ k.heard /\ ~k.left /\ From(k, n)
      /\ "lock" \notin outrun' /\ "pay" \notin outrun'
  BY <1>1, <1>3 DEF Base, TabOK, ServerMoves, Awaits, CallsGoOn
<1> SUFFICES AtTheTicket(d, k)
  BY <1>2, <1>3, <1>4 DEF AtTheTicket
<1>5. CASE Comes(k, calls[n])
  <2>1. PICK c : c = calls[n] OBVIOUS
  <2>2. Awaits(c) /\ c.reservation = k.reservation
    BY <1>4, <1>5, <2>1 DEF Comes, Awaits
  <2>3. AtTheTicket(b, k) BY <1>1, <2>1, <2>2 DEF AtTheTicket
  <2>4. b.reservation # None /\ b.reservation.id = k.reservation /\ k.reservation \in sold
        /\ b.countdown = None
    BY <2>3 DEF AtTheTicket
  <2>5. CASE d.reservation = b.reservation /\ d.countdown \in {b.countdown, None}
    BY <2>4, <2>5 DEF AtTheTicket
  <2>6. CASE Quiet(b, d) \/ LogsIn(b, d) \/ LosesSelection(b, d) \/ Pays(b, d)
             \/ \E x : ShowsStub(b, d, x)
    BY <2>5, <2>6 DEF Quiet, LogsIn, SameScreen, LosesSelection, Pays, ShowsStub
  <2>7. ~Selects(b, d) BY <2>4 DEF Selects
  <2>8. ~(Logout \/ Restart \/ Reload)
    BY <1>3, <1>4, LeavingCalls DEF Awaits
  <2>9. ~\E e \in Events : SelectEvent(e)
    BY <1>3, <1>4, SelectEventCalls DEF Awaits
  <2>10. ~CountdownTick BY <1>1, <2>4 DEF CountdownTick
  <2>11. ASSUME NEW m \in Slots PROVE ~LockGranted(m)
    BY <1>1, <1>4, <2>4, LockAnswerInTime
  <2>12. ASSUME NEW m \in Slots PROVE ~PayFailed(m)
    BY <1>1, <1>4, <2>4, AnswerInTime, FailedIsFree
  <2> QED BY <1>1, <1>2, <2>6, <2>7, <2>8, <2>9, <2>10, <2>11, <2>12 DEF TabStep
<1>6. ASSUME NEW m \in Slots, PaySucceeded(m), browser.reservation # None,
             k = Request("ticket", browser')
      PROVE  AtTheTicket(d, k)
  <2>1. Pays(b, d) BY <1>1, <1>2, <1>4, <1>6, PaySucceededMove
  <2>2. d.reservation = b.reservation /\ d.countdown = None BY <2>1 DEF Pays
  <2>3. k.reservation = d.reservation.id BY <1>1, <1>2, <1>6, <2>2, RequestFields
  <2>4. b.reservation.id \in sold BY <1>1, <1>4, <1>6, AnswerInTime, PaidIsSold
  <2> QED BY <1>1, <1>6, <2>2, <2>3, <2>4 DEF AtTheTicket
<1>7. k # Request("pay", browser) BY <1>4, RequestFields
<1> QED BY <1>4, <1>5, <1>6, <1>7 DEF From

\* The stub is filled with what is on the screen, the reservation of the ticket.
LEMMA StubStep ==
  ASSUME Base, ServerMoves, TabStep, outrun' = {}, Shows(browser),
         \A n \in Slots : Awaits(calls[n]) => AtTheTicket(browser, calls[n]),
         ShowsTheTicket(browser)
  PROVE  ShowsTheTicket(browser)'
<1>1. PICK b : b = browser OBVIOUS
<1>2. PICK d : d = browser' OBVIOUS
<1>3. CallsOK /\ ServerOK /\ TabOK(b) /\ b \in Browser /\ Shows(b) /\ ShowsTheTicket(b)
  BY <1>1 DEF Base, TabOK
<1>4. ASSUME NEW r \in ReservationIds, r \in sold
      PROVE  r \in sold' /\ grants'[r] = grants[r]
  <2>1. grants[r] # None BY <1>3, <1>4 DEF ServerOK
  <2> QED BY <1>4, <2>1 DEF ServerMoves
<1>5. CASE d.section # "ticket"
  BY <1>2, <1>5 DEF ShowsTheTicket
<1>6. CASE d.section = b.section /\ d.stub = b.stub /\ d.section = "ticket"
  <2>1. PICK s : s = b.stub OBVIOUS
  <2>2. /\ s # None /\ s.reservation \in sold /\ s.ticketOf = s.reservation
        /\ s.event = grants[s.reservation].event /\ s.seats = grants[s.reservation].seats
    BY <1>3, <1>6, <2>1 DEF ShowsTheTicket
  <2>3. s.reservation \in ReservationIds
    <3>1. b.stub \in OrNone(Stub) BY <1>3, Zenon DEF Browser
    <3> QED BY <2>1, <2>2, <3>1 DEF OrNone, Stub
  <2>4. s.reservation \in sold' /\ grants'[s.reservation] = grants[s.reservation]
    BY <1>4, <2>2, <2>3
  <2> QED BY <1>2, <1>6, <2>1, <2>2, <2>4 DEF ShowsTheTicket
<1>7. CASE Quiet(b, d) \/ LogsIn(b, d) \/ LosesSelection(b, d) \/ Pays(b, d)
           \/ Selects(b, d) \/ Ends(b, d) \/ \E r : TakesLock(b, d, r)
  <2>1. d.section = b.section /\ d.stub = b.stub
    BY <1>7 DEF Quiet, LogsIn, SameScreen, LosesSelection, Pays, Selects, Ends, TakesLock
  <2> QED BY <1>5, <1>6, <2>1
<1>8. CASE Leaves(b, d) \/ \E e \in Events : Opens(b, d, e)
  BY <1>5, <1>8 DEF Leaves, Opens
<1>9. ASSUME NEW n \in Slots, ShowTicket(n), ShowsStub(b, d, calls[n])
      PROVE  ShowsTheTicket(browser)'
  <2>1. PICK c : c = calls[n] OBVIOUS
  <2>2. c # None /\ c.kind = "ticket" /\ c.heard /\ ~c.left
    BY <1>3, <1>9, <2>1, AnswerInTime, AnsweredCall DEF ShowTicket
  <2>3. AtTheTicket(b, c) BY <1>1, <2>1, <2>2 DEF Awaits
  <2>4. PICK r : r = b.reservation OBVIOUS
  <2>5. r # None /\ r.id = c.reservation /\ r.id \in sold
    BY <2>3, <2>4 DEF AtTheTicket
  <2>6. r \in Reservation /\ r.id \in ReservationIds /\ grants[r.id] = r
    BY <1>3, <2>4, <2>5, ShownReservation
  <2>7. b.activeEvent = r.event /\ b.selectedSeats = r.seats
    BY <1>3, <2>4, <2>5 DEF Shows
  <2>8. b.activeEvent # None
    <3>1. r.event \in Events BY <2>6 DEF Reservation
    <3> QED BY <2>7, <3>1, FrontendAssumption
  <2>9. PICK s : s = [reservation |-> r.id, ticketOf |-> c.reservation,
                      event |-> b.activeEvent, seats |-> b.selectedSeats]
    OBVIOUS
  <2>10. d.stub = s BY <1>9, <2>1, <2>4, <2>5, <2>8, <2>9 DEF ShowsStub
  <2>11. s # None
    <3>1. s \in Stub
      <4>1. r.event \in Events /\ r.seats \in SUBSET Seats BY <2>6 DEF Reservation
      <4> QED BY <2>5, <2>6, <2>7, <2>9, <4>1 DEF Stub
    <3> QED BY <3>1, FrontendAssumption
  <2>12. r.id \in sold' /\ grants'[r.id] = r BY <1>4, <2>5, <2>6
  <2>13. /\ s.reservation = r.id /\ s.ticketOf = r.id /\ s.event = r.event /\ s.seats = r.seats
    BY <2>5, <2>7, <2>9
  <2> QED BY <1>2, <2>10, <2>11, <2>12, <2>13 DEF ShowsTheTicket
<1> QED BY <1>1, <1>2, <1>7, <1>8, <1>9 DEF TabStep

-----------------------------------------------------------------------------
(* The theorems. *)

\* The first page, over an empty server.
LEMMA FrontendInitially ==
  ASSUME Init
  PROVE  FrontendInv
<1>1. ServerOK
  BY FrontendAssumption, Optional DEF Init, Inventory!Init, Inventory!SeatsOf, ServerOK
<1>2. CallsOK /\ \A n \in Slots : calls[n] = None
  BY Optional DEF Init, CallsOK
<1>3. PICK st : st = [u \in Users |-> NothingRemembered] OBVIOUS
<1>4. PICK b : b = FreshPage(st, None) OBVIOUS
<1>5. browser = b BY <1>3, <1>4 DEF Init
<1>6. /\ NothingRemembered \in [Events -> OrNone(Reservation)]
      /\ st \in [Users -> [Events -> OrNone(Reservation)]]
  BY <1>3, Optional DEF NothingRemembered
<1>7. b = [user |-> None, activeEvent |-> None,
           selectedSeats |-> {}, lockedSeats |-> {}, bookedSeats |-> {}, reservation |-> None,
           reservationsByEvent |-> NothingRemembered,
           countdown |-> None, polling |-> FALSE, section |-> "none", boxed |-> FALSE,
           lockEnabled |-> FALSE, payEnabled |-> TRUE, stub |-> None,
           stored |-> st, storedUser |-> None]
  BY <1>4 DEF FreshPage
<1>8. b \in Browser
  <2>1. {} \in SUBSET Seats OBVIOUS
  <2> QED BY <1>6, <1>7, <2>1, Optional, Zenon DEF Browser
<1>9. /\ b.user = None /\ b.activeEvent = None /\ b.reservation = None /\ b.section = "none"
      /\ \A e \in Events : b.reservationsByEvent[e] = None
      /\ \A u \in Users, e \in Events : b.stored[u][e] = None
  BY <1>3, <1>7 DEF NothingRemembered
<1>10. TabOK(b)
  BY <1>8, <1>9 DEF TabOK, RemembersGranted
<1>11. InPlace(b)
  BY <1>9 DEF InPlace, Own, Kept, OnScreen, Shows
<1>12. Counts(b) /\ ShowsTheTicket(b)
  BY <1>9 DEF Counts, ShowsTheTicket
<1>13. PaymentsRight /\ \A n \in Slots : ~Awaits(calls[n])
  BY <1>2 DEF Init, PaymentsRight, Awaits
<1>14. outrun = {} BY DEF Init
<1> QED BY <1>1, <1>2, <1>5, <1>10, <1>11, <1>12, <1>13, <1>14 DEF FrontendInv, Base

\* Every step keeps the invariant.
LEMMA FrontendStep ==
  ASSUME FrontendInv, [Next]_vars
  PROVE  FrontendInv'
<1>1. /\ Base /\ browser' \in Browser /\ TabStep /\ outrun \subseteq outrun'
      /\ ServerOK' /\ ServerMoves /\ ChargesCome /\ CallsGoOn /\ ServerOK
  BY TabSteps, OutrunGrows, ServerGoesOnAlways, CallsGoOnAlways
    DEF FrontendInv, Base, ServerGoesOn
<1>2. Base' BY <1>1, BaseStep
<1>3. ASSUME "lock" \notin outrun'
      PROVE  InPlace(browser)' /\ PaymentsRight'
  <2>1. InPlace(browser) /\ PaymentsRight BY <1>1, <1>3 DEF FrontendInv
  <2>2. PICK d : d = browser' OBVIOUS
  <2>3. InPlace(d) /\ d \in Browser BY <1>1, <1>3, <2>1, <2>2, TabStepInPlace
  <2>4. InPlace(d)' BY <1>1, <2>3, InPlaceStays
  <2>5. InPlace(browser)' BY <2>2, <2>4
  <2>6. PaymentsRight' BY <1>1, <2>1, PaymentsStayRight DEF InPlace
  <2> QED BY <2>5, <2>6
<1>4. ASSUME Astray' = {}
      PROVE  Counts(browser)'
  <2>1. Counts(browser) BY <1>1, <1>4 DEF FrontendInv, Astray
  <2> QED BY <1>1, <1>4, <2>1, CountsStep
<1>5. ASSUME outrun' = {}
      PROVE  /\ \A n \in Slots : Awaits(calls'[n]) => AtTheTicket(browser, calls[n])'
             /\ ShowsTheTicket(browser)'
  <2>1. /\ \A n \in Slots : Awaits(calls[n]) => AtTheTicket(browser, calls[n])
        /\ ShowsTheTicket(browser) /\ Shows(browser)
    BY <1>1, <1>5 DEF FrontendInv, InPlace
  <2> QED BY <1>1, <1>5, <2>1, TicketsStep, StubStep
<1>6. (\A n \in Slots : Awaits(calls[n]) => AtTheTicket(browser, calls[n]))'
        <=> \A n \in Slots : Awaits(calls'[n]) => AtTheTicket(browser, calls[n])'
  BY DEF Awaits
<1> QED BY <1>2, <1>3, <1>4, <1>5, <1>6 DEF FrontendInv

\* The inductive invariant of the tab: what the server granted is what the tab
\* has of it, and all is in its place until an answer finds the tab elsewhere.
THEOREM FrontendInvariant == Spec => []FrontendInv
<1>1. Init => FrontendInv
  BY FrontendInitially
<1>2. FrontendInv /\ [Next]_vars => FrontendInv'
  BY FrontendStep
<1> QED BY <1>1, <1>2, PTL DEF Spec

\* The tab, its requests and the server's records are what app.js can hold.
THEOREM FrontendTypes == Spec => []FrontendTypeOK
<1>1. FrontendInv => FrontendTypeOK
  BY DEF FrontendInv, Base, ServerOK, CallsOK, TabOK, FrontendTypeOK
<1> QED BY <1>1, FrontendInvariant, PTL

\* Only the answer to a lock that finds the tab elsewhere puts a reservation on
\* the wrong screen, or under the wrong user or event in local storage.
THEOREM ScreenStaysConsistent == Spec => []ScreenIsConsistent
<1>1. FrontendInv => ScreenIsConsistent
  BY DEF FrontendInv, InPlace, Own, Shows, ScreenIsConsistent
<1> QED BY <1>1, FrontendInvariant, PTL

\* Only such an answer makes the tab pay for other seats than were granted.
THEOREM ChargesAreRight == Spec => []ChargesAreForTheSeats
<1>1. FrontendInv => ChargesAreForTheSeats
  BY DEF FrontendInv, PaymentsRight, ForItsSeats, ChargesAreForTheSeats
<1> QED BY <1>1, FrontendInvariant, PTL

\* A stub that no answer has spoilt is the paid reservation's own.
THEOREM TicketsAreOfTheReservation == Spec => []TicketIsTheReservation
<1>1. FrontendInv => TicketIsTheReservation
  BY DEF FrontendInv, ShowsTheTicket, TicketIsTheReservation
<1> QED BY <1>1, FrontendInvariant, PTL

\* Only the answer to a lock or to a payment that finds the tab elsewhere
\* leaves an unpaid reservation on the screen without its countdown.
THEOREM CountdownsRun == Spec => []CountdownRuns
<1>1. FrontendInv => CountdownRuns
  BY DEF FrontendInv, Counts, CountdownRuns
<1> QED BY <1>1, FrontendInvariant, PTL

\* What is recorded anew, of what is stored: nothing, but for one event.
LEMMA RecordsLoses ==
  ASSUME NEW b, Kept(b), b.user # None, NEW e \in Events, NEW x, NEW d, Records(b, d, e, x),
         b.reservationsByEvent \in [Events -> OrNone(Reservation)],
         NEW u \in Users, NEW f \in Events
  PROVE  \/ d.stored[u][f] = b.stored[u][f]
         \/ Over(b.stored[u][f])
         \/ f = e /\ b.stored[u][f] = b.reservationsByEvent[e]
<1>1. CASE u # b.user
  BY <1>1 DEF Records
<1>2. CASE u = b.user
  <2>1. d.stored[u][f] = IF f = e THEN x ELSE b.reservationsByEvent[f]
    BY <1>2 DEF Records
  <2>2. b.reservationsByEvent[f] = b.stored[u][f] \/ Over(b.stored[u][f])
    BY <1>2 DEF Kept
  <2> QED BY <2>1, <2>2
<1> QED BY <1>1, <1>2

\* To forget the open event's reservation is to forget the one on the screen.
LEMMA ForgetsLoses ==
  ASSUME NEW b, TabOK(b), InPlace(b), NEW d, Forgets(b, d),
         NEW u \in Users, NEW f \in Events, b.stored[u][f] # None
  PROVE  \/ d.stored[u][f] = b.stored[u][f]
         \/ Over(b.stored[u][f])
         \/ b.stored[u][f] = b.reservation
<1>1. CASE b.activeEvent = None
  BY <1>1 DEF Forgets, SameMemory
<1>2. CASE b.activeEvent # None
  <2>1. PICK e : e = b.activeEvent OBVIOUS
  <2>2. PICK x : x = None OBVIOUS
  <2>3. b \in Browser /\ b.user # None /\ Kept(b) /\ OnScreen(b)
    BY <1>2 DEF TabOK, InPlace
  <2>4. e \in Events /\ b.reservationsByEvent \in [Events -> OrNone(Reservation)]
    <3>1. b.activeEvent \in OrNone(Events) BY <2>3, Zenon DEF Browser
    <3>2. b.reservationsByEvent \in [Events -> OrNone(Reservation)]
      BY <2>3, Zenon DEF Browser
    <3> QED BY <1>2, <2>1, <3>1, <3>2 DEF OrNone
  <2>5. Records(b, d, e, x) BY <1>2, <2>1, <2>2 DEF Forgets
  <2>6. b.reservationsByEvent[e] \in {None, b.reservation}
    BY <1>2, <2>1, <2>3 DEF OnScreen
  <2>7. \/ d.stored[u][f] = b.stored[u][f]
        \/ Over(b.stored[u][f])
        \/ f = e /\ b.stored[u][f] = b.reservationsByEvent[e]
    BY <2>3, <2>4, <2>5, RecordsLoses
  <2> QED BY <2>6, <2>7
<1> QED BY <1>1, <1>2

\* What local storage loses in a step is not pending.
LEMMA StorageStep ==
  ASSUME FrontendInv, [Next]_vars, Astray' = {}, NEW u \in Users, NEW f \in Events,
         browser.stored[u][f] # None, browser'.stored[u][f] # browser.stored[u][f]
  PROVE  ~Pending(browser.stored[u][f])
<1>1. PICK b : b = browser OBVIOUS
<1>2. PICK d : d = browser' OBVIOUS
<1>3. PICK s : s = b.stored[u][f] OBVIOUS
<1>4. /\ Base /\ TabOK(b) /\ b \in Browser /\ CallsOK /\ ServerOK /\ TabStep
      /\ outrun \subseteq outrun' /\ "lock" \notin outrun' /\ "pay" \notin outrun'
  BY <1>1, TabSteps, OutrunGrows DEF FrontendInv, Base, TabOK, Astray
<1>5. InPlace(b) /\ Kept(b) /\ OnScreen(b) /\ Counts(b)
  BY <1>1, <1>4 DEF FrontendInv, InPlace, Astray
<1>6. s \in Reservation /\ s # None /\ d.stored[u][f] # s /\ s.expiresAt \in Nat
  <2>1. b.stored \in [Users -> [Events -> OrNone(Reservation)]] BY <1>4, Zenon DEF Browser
  <2>2. s \in OrNone(Reservation) BY <1>3, <2>1
  <2> QED BY <1>1, <1>2, <1>3, <2>2 DEF OrNone, Reservation
<1>7. b.reservationsByEvent \in [Events -> OrNone(Reservation)]
  BY <1>4, Zenon DEF Browser
<1> SUFFICES ~Pending(s)
  BY <1>1, <1>3
<1>8. CASE Over(s)
  <2>1. now \in Nat BY <1>4 DEF ServerOK
  <2> QED BY <1>6, <1>8, <2>1 DEF Over, Pending
<1>9. CASE s.id \in sold \/ Inventory!SeatsOf(s.id) = {}
  BY <1>9 DEF Pending
<1>10. ~(d.stored = b.stored)
  BY <1>3, <1>6
<1>11. ~(Quiet(b, d) \/ LogsIn(b, d) \/ Leaves(b, d) \/ Selects(b, d)
           \/ LosesSelection(b, d) \/ \E c : ShowsStub(b, d, c))
  BY <1>10 DEF Quiet, LogsIn, Leaves, Selects, LosesSelection, ShowsStub, SameMemory, Recalls
<1>12. ASSUME NEW e \in Events, Opens(b, d, e)
       PROVE  ~Pending(s)
  <2>1. PICK x : x = None OBVIOUS
  <2>2. Records(b, d, e, x) /\ Over(b.reservationsByEvent[e]) /\ b.user # None
    BY <1>10, <1>12, <2>1 DEF Opens, SameMemory
  <2>3. \/ d.stored[u][f] = b.stored[u][f]
        \/ Over(b.stored[u][f])
        \/ f = e /\ b.stored[u][f] = b.reservationsByEvent[e]
    BY <1>5, <1>7, <2>2, RecordsLoses
  <2>4. PICK r : r = b.reservationsByEvent[e] OBVIOUS
  <2>5. Over(s) \/ (s = r /\ Over(r)) BY <1>3, <1>6, <2>2, <2>3, <2>4
  <2> QED BY <1>8, <2>5
<1>13. Forgets(b, d) => Over(s) \/ s = b.reservation
  BY <1>3, <1>4, <1>5, <1>6, ForgetsLoses
<1>14. CASE CountdownTick /\ Ends(b, d)
  <2>1. Over(s) \/ s = b.reservation BY <1>13, <1>14 DEF Ends
  <2>2. CASE s = b.reservation /\ s.id \notin sold
    <3>1. b.countdown = s.expiresAt BY <1>5, <1>6, <2>2 DEF Counts
    <3>2. now >= s.expiresAt BY <1>1, <1>14, <3>1 DEF CountdownTick
    <3>3. now \in Nat BY <1>4 DEF ServerOK
    <3>4. Over(s) BY <1>6, <3>2, <3>3 DEF Over
    <3> QED BY <1>8, <3>4
  <2> QED BY <1>8, <1>9, <2>1, <2>2
<1>15. ASSUME NEW n \in Slots, PayFailed(n), Ends(b, d)
       PROVE  ~Pending(s)
  <2>1. Over(s) \/ s = b.reservation BY <1>13, <1>15 DEF Ends
  <2>2. s = b.reservation => s.id = calls[n].reservation
    BY <1>1, <1>4, <1>6, <1>15, AnswerInTime
  <2>3. Inventory!SeatsOf(calls[n].reservation) = {} BY <1>4, <1>15, FailedIsFree
  <2> QED BY <1>8, <1>9, <2>1, <2>2, <2>3
<1>16. ASSUME NEW n \in Slots, PaySucceeded(n), Pays(b, d)
       PROVE  ~Pending(s)
  <2>1. Over(s) \/ s = b.reservation BY <1>13, <1>16 DEF Pays
  <2>2. s = b.reservation => s.id \in sold
    BY <1>1, <1>4, <1>6, <1>16, AnswerInTime, PaidIsSold
  <2> QED BY <1>8, <1>9, <2>1, <2>2
<1>17. ASSUME NEW n \in Slots, LockGranted(n), TakesLock(b, d, calls[n].answer.reservation)
       PROVE  ~Pending(s)
  <2>1. b.reservation = None /\ b.activeEvent # None
    BY <1>1, <1>4, <1>17, LockAnswerInTime
  <2>2. PICK e : e = b.activeEvent OBVIOUS
  <2>3. e \in Events /\ b.user # None
    <3>1. b.activeEvent \in OrNone(Events) BY <1>4, Zenon DEF Browser
    <3> QED BY <1>4, <2>1, <2>2, <3>1 DEF OrNone, TabOK
  <2>4. PICK x : Records(b, d, e, x) BY <1>17, <2>1, <2>2 DEF TakesLock
  <2>5. b.reservationsByEvent[e] = None BY <1>5, <2>1, <2>2 DEF OnScreen
  <2>6. \/ d.stored[u][f] = b.stored[u][f]
        \/ Over(b.stored[u][f])
        \/ f = e /\ b.stored[u][f] = b.reservationsByEvent[e]
    BY <1>5, <1>7, <2>3, <2>4, RecordsLoses
  <2>7. Over(s) BY <1>3, <1>6, <2>5, <2>6
  <2> QED BY <1>8, <2>7
<1> QED BY <1>1, <1>2, <1>4, <1>11, <1>12, <1>14, <1>15, <1>16, <1>17 DEF TabStep

\* A reservation that is still pending leaves local storage only with the answer
\* to a lock or to a payment that finds the tab elsewhere.
THEOREM PendingStaysRemembered == Spec => PendingIsRemembered
<1>1. FrontendInv /\ [Next]_vars =>
        [Astray' = {} =>
           \A u \in Users, e \in Events :
             LET r == browser.stored[u][e]
             IN  r # None /\ browser'.stored[u][e] # r => ~Pending(r)]_vars
  BY StorageStep
<1> QED BY <1>1, FrontendInvariant, PTL DEF Spec, PendingIsRemembered

=============================================================================
