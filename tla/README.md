# TicketPlus in TLA+

Specifications of the TicketPlus booking backend (`src/ticketplus/`) and of its
browser frontend (`frontend/app.js`), the TLC runs that check them on small instances, and theorems that the TLA+ proof
system checks for instances of any size. `PROJECT.json` lists runs, mutants,
findings, hazards and theorems, and maps every definition to the lines it models.

## 1. The system

One Python process serves HTTP (`ThreadingHTTPServer`: a thread for each
request) on top of SQLite and of services that live in memory.

| Part | State | Operations | Talks to |
|---|---|---|---|
| Reservation service `reservation.py` | tables `reservations`, `reservation_seats` (unique event and seat), `_write_lock` | `lock_seats`, `confirm`, `release`, `expire_due`, `seat_statuses`, `get` | publishes to the bus after it has committed |
| Checkout saga `checkout.py` | `_attempts` (key to attempt), `_lock` | `checkout` | gateway, then `confirm` or `release`, then the bus |
| Ticketing, notifications `checkout.py` | `tickets`, `deliveries` | `_issue`, `_record` | handlers of the bus; `_issue` publishes from inside `publish` |
| Event bus `events.py` | `_events`, `_processed`, handlers, `_lock` | `subscribe`, `publish` | calls its handlers on the publisher's thread |
| HTTP adapter `http_api.py` | the module-level services | GET, POST, PUT | all services; `confirm` and `release` only through `checkout`, `expire_due` never |
| Catalogue `catalog.py` | table `events` | seeding, `create_event`, `update_event`, `get`, `list` | - |
| Authentication `auth.py` | table `users`, signed tokens | `register`, `login`, `issue_token`, `require_admin` | - |
| Frontend `frontend/app.js` | `state`, local storage, timers | seat selection, locking, countdown, seat polling, payment, admin | the HTTP adapter, with awaits between its reads and writes |

What is hard in it:

- the clock is read before the write lock is taken, so every transaction may
  work with an old instant;
- replies and events are produced after the lock is released: `get()` reads
  row and seats in two statements, and publications overtake each other;
- locks run out by themselves, but only requests sweep them, and a refused
  `lock_seats` rolls its sweep back;
- expiry is compared as text in the sweep and as datetime in `confirm`;
- a checkout charges first, records the attempt, and only then confirms, which
  can be refused; clients retry with the same key or with a new one;
- a gateway that raises leaves no attempt behind, though it may have charged;
- attempts, tickets and deliveries are lost on a restart, reservations are not;
- the bus calls handlers that publish again, or raise, under a reentrant lock;
- the handlers of the browser go on after an await with a state that clicks,
  timers and other answers have changed;
- accounts and events are written without a transaction and without a look
  that would still hold: only the index on the email and the primary keys decide
  races, an edit is checked, written and read back in separate statements, a
  list is one read for each event, and seeding can stop in the middle.

What makes it correct: no seat of an event has two live owners; the status of
a reservation and its seat rows agree; a final status is final; a key always
names the same reservation or attempt; a reservation is confirmed only when it
was paid; a ticket is backed by one payment and by booked seats; what has been
published or shown as booked is never contradicted; a subscription sees an
event once and in order; what the browser shows, charges for and remembers is
the reservation that the server granted; a mailbox has one account, and a token
speaks for an account whose password its holder knew; the catalogue is changed
by admins in session only, and shows nothing older than it was when it was asked.

## 2. Modules

| Module | Models |
|---|---|
| `IsoTime` | the text that `isoformat()` writes, as SQLite and as `fromisoformat()` compare it |
| `Reservation` | `ReservationService` with its callers' threads (EXTENDS `IsoTime`) |
| `SeatInventory` | abstract: who holds which seat, and which holders have paid |
| `ReservationRefinement` | the mapping from the tables to `SeatInventory` |
| `Checkout` | `CheckoutService`, `TicketingService`, `NotificationService`, gateway and restarts (EXTENDS `Reservation`) |
| `EventBus` | the bus for any handlers: nested publication, repeated event ids, handlers that raise |
| `Accounts` | `AuthService` behind `/auth/...`, with the bearer tokens and restarts (EXTENDS `IsoTime`) |
| `Catalog` | `EventCatalog` behind `/events`, guarded by `Accounts` (EXTENDS `Accounts`) |
| `Frontend` | one browser tab that runs `app.js`, over `SeatInventory` (INSTANCE) |
| `IsoTime_proofs`, `Reservation_proofs`, `ReservationRefinement_proofs`, `Checkout_proofs`, `EventBus_proofs`, `Accounts_proofs`, `Catalog_proofs`, `Frontend_proofs` | theorems |
| `MCReservation`, `MCCheckout`, `MCEventBus`, `MCCatalog`, `MCFrontend` | model values and symmetry for TLC |

### Reservation

`reservations` is the table as a function on the stored identifiers,
`reservation_seats` the set of rows of the other table. `call[t]` is the point
a thread has reached in its call (`pc`) with the locals it still needs. A call
takes these steps, and other threads and the clock may move between any two:

1. it begins: arguments are chosen, the clock is read (`Begin...`);
2. its transaction, one step: the write lock, `BEGIN IMMEDIATE` and `COMMIT`
   make it atomic, and readers see committed rows only. Each outcome is an
   action: `LockSeatsRetried`, `LockSeatsRefused`, `LockSeatsGranted`,
   `ConfirmGranted`, `ConfirmOverdue`, ...; the sweep (`Due`, `WithStatus`,
   `SeatRowsWithout`) is part of the step, and of its rollback;
3. it publishes (`PublishEvent`; `Announce` for each expired reservation);
4. it reads the reply in two steps (`GetRow`, `GetSeats`), or, for a repeated
   key and a repeated confirmation, in one inside the write lock (`Reply`);
5. it returns (`Return`), and the client learns the reservation.

Clients name reservations that `lock_seats` has told them of, or one that does
not exist. An empty or duplicated seat list is the empty set. User names,
creation times and the payloads of events are left out: no code branches on
them. `granted` is not a column: it keeps the `seat_ids` of the request, which
the properties compare with the rows. `published` is the set of what was
published; none of its handlers concern reservations.

### Checkout

`saga[t]` is the point a checkout has reached; the nested `confirm` or
`release` runs in `call[t]`, with all the steps above. A checkout holds `_lock`
in the points `charging`, `charged` and `settling`. `charges` is the provider's
side and survives a restart; `attempts`, `tickets`, `deliveries`, `published`,
`payment_events` and all threads do not (`Restart`). Between charge and
recorded attempt there is a step boundary, so a restart can come there. The
publication of `PaymentSucceeded`, the ticket and its notification are one
step: they run under the bus lock, and nothing outside it can tell. The gateway
answers each call with any of the three results (`Gateway`); the stub in
`http_api.py` answers what `PAYMENT_OUTCOME` says. Or it raises, or answers what
is no `PaymentResult` (`GatewayRaises`): the exception leaves `_lock` before line
59, so nothing is recorded and the same key calls the gateway again, whether or not
the provider decided and booked the first call. An attempt is therefore a promise
about what comes after it only, and that is what `AnsweredKeysStayUncharged` says.

### EventBus

`log` is `_events`, `processed` is `_processed`, `owner` the thread that holds
`_lock`, and `frames` its nested calls of `publish`: one frame has the event,
its place in the log, and the place of the handler whose turn it is. `Publish`
and `PublishNested` append to the log and push a frame; `Skip`, `Call`,
`Complete` and `Return` are the loop; `HandlerRaises` unwinds all frames,
because no handler of the program catches what a nested `publish` raises.
`Subscribe` takes no lock and may come at any time, as the code's does not. A
subscription is its place in the list of its type: the program subscribes bound
methods, and every `self._record` is another object with an `id()` of its own.
`done` and `failed` are history. `BusAssumption` says that handlers publish
only types that come later in the saga (`Level`): that is so for `_issue` and
`_record`, and a handler that published its own type would never return.
`Reservation` and `Checkout` use the bus by what it promises for the handlers
that are registered.

### Accounts

`users` is the table as a function on the stored identifiers, `tokens` what
clients have been given, `secret` the `AUTH_SECRET` of the running process. A
registration or a login is two steps: the one statement on the table
(`Register`, `EmailTaken`, `LoginGranted`, ...), and `IssueToken`, which reads the
clock and answers. What comes before the statement reads nothing that is shared,
so the arrival of the request is not a step of its own. `user_from_auth_header` verifies
the token and then looks for the user; rows are never deleted or changed, so the
two reads are one (`InSession`, `IsAdmin`), and "user no longer exists" cannot
happen. A hash matches exactly the password it was made from, a signature
exactly the secret. `Canonical` is `strip().lower()`; which texts and passwords
`register` accepts is a set. `issued`, `email` and `password` of a token are
history, for the properties.

### Catalog

`events` is the table in the order of insertion, `boot` how far
`EventCatalog.__init__` has come (0, the demo that is created next, or
`Serving`), `work[t]` the point a request to `/events` has reached. A request is
served when `boot = Serving`; requests to `/auth` are the actions of `Accounts`,
on the same threads (`AccountStep`). An edit takes these steps, and other
requests, the clock and a restart may come between any two:

1. `require_admin` (`BeginEdit`, `EditRefused`);
2. the look at the event, for an update, and the validation, or, for a creation,
   the validation and the clock (`UpdateChecked`, `UpdateNotFound`,
   `CreateChecked`, `EditInvalid`);
3. the statement that writes (`CreateInserted`, `UpdateStored`);
4. `get()`, whose row is the answer (`ReadBack`).

A list is `ListBegins`, which reads the identifiers, and one `ListReads` for each
event. `ORDER BY created_at` is a permutation of the rows (`Orders`); ties come
in the order of insertion, as in SQLite's sorter. Seeding is one step for each
demo, so that a restart can come between them. `journal` is history: each write
of the table, with the token, the clock and the secret its request was checked
with. The content of an event is a title, which stands for its three texts, and
its rows without their labels.

### Frontend

The tab is one record, `browser`: the fields of `state`, which section is shown,
which buttons are enabled, and the part of local storage that it uses. Each
function of `app.js` is an operator from tabs to tabs (`Remember`, `Opened`,
`BackToChoosing`, `StartCountdown`, ...), so that an action can compose them as
the code does. A handler with an await is split there: `LockSeats` ends with the
request, `LockGranted`, `LockConflict`, `Refused` and `Lose` go on with the tab
as it is when the answer comes; the same for `PayAndIssue` and `SeatPoll`.
Exceptions are kept: without an open event `LockGranted` fails after its first
assignment, and `PaySucceeded` fails when the reservation is gone. `calls` holds
the requests under way; a lost answer, or a page loaded again, leaves a request
that the server may still get. The server acts by the actions of
`SeatInventory`, with the expiry and the payment rules of `Reservation` and
`Checkout`; `ChargesAreForTheSeats` compares what it was paid for with what it
granted.

The user may click at any time: `app.js` disables the lock and the pay button
while it waits, and nothing else, so seats, events and logout stay clickable. Two
histories say what such clicks have led to. `left` marks a ticket call since whose
request the user has gone elsewhere. `outrun` collects the kinds of calls whose
answer found the tab elsewhere (`Elsewhere`): a lock that was asked for by another
user, for another event or for other seats than those now on the screen, or that
finds a reservation there; a payment or a ticket that finds another reservation, or
one whose user has left. There the handlers read what the tab shows by now, and
the code goes wrong (section 5). The properties of the browser say that these are
the only ways to go wrong: each names the kinds that can break it, and holds
until one of them is in `outrun`.

Abstractions: an amount is the event and the set of seats it was added up for, and
every seat has a price above zero, so an empty selection is the amount 0 that
`checkout` refuses (`RefusePayment`, which is also a gateway that raises); a seat
button is rendered as the state says at once (`toggleSeat` checks the state again,
not the button); login and registration are one step; the tab and the server read
the same clock; other customers are `Others`.

## 3. Runs

| Run | Shows | Bounds |
|---|---|---|
| `reservation_safety` | `SeatLedger`, `NoDoubleBooking`, `IdempotentReplies`, `NeverExpiredEarly`, `RepliesAreHonest`, `BookedSeatsStayBooked`, `EventsTellTheTruth`, `LegalTransitions`, `RefusalsAreJustified` | 2 threads, 2 reservations and keys, 2 seats, every operation |
| `reservation_polled` | overdue locks are swept while somebody polls; the service implements `SeatInventory` | 2 threads, 2 reservations, 1 seat, no symmetry |
| `checkout_safety` | `TicketsAreBacked`, `FailedPaymentsFreeTheSeats`, `DeliveriesAreExact` | 2 buyers of 1 seat, 2 payment keys; a gateway that raises has booked nothing |
| `checkout_restart` | `TheProviderDecides`, `AttemptsAreFinal` | 1 reservation, 2 payment keys, 1 restart; a gateway that raises has booked nothing |
| `checkout_live` | a confirmed reservation gets its ticket (`ConfirmedGetsTicket`); `AnsweredKeysStayUncharged` | 1 reservation, 2 payment keys, 1 call that raises after it was booked |
| `eventbus` | `OncePerEventId`, `HandledInOrder`, `PublicationOrder`, `EventsGetThrough` | 2 threads, the program's handlers, 3 events, 2 subscriptions of a type |
| `catalog` | `OneAccountPerEmail`, `AccountsArePermanent`, `TokensAreEarned`, `AuthorisedEdits`, `SeededOnce`, `RepliesShowTheEdit`, `ListsAreComplete`, `ListOrderIsStable` | 2 threads, 2 accounts, 3 texts as email, 2 demos, 3 events, 3 writes, 2 tokens, 2 restarts |
| `frontend_visits` | `ScreenIsConsistent`, `ChargesAreForTheSeats`, `TicketIsTheReservation`, `PendingIsRemembered` | 2 events, 2 seats, 1 reservation, no other customer, 2 requests under way, 1 of them a seat poll |
| `frontend_again` | `CountdownRuns` | 1 event, 1 seat, 2 reservations one after the other, 1 other customer, 2 requests under way, 1 of them a seat poll |
| `checkout_unbooked_charge`, `checkout_paid_twice`, `frontend_switched` | statements of the repository that the code does not keep (section 5) | the smallest instance that shows it |

Besides, `reservation_safety`, `checkout_safety`, `eventbus`, `catalog` and
`frontend_again` check the type invariants.

Why the bounds are enough to see the interesting cases: two threads are enough
to put any writer between two steps of any call; the third party is the clock.
`SecondLength = 2` makes whole and fractional seconds alternate, so that both
forms of the text occur and are compared with each other. With `TTL = 1` and
`MaxClock = 2` a lock can be taken, run out, be swept and be taken again by
another key, and a second lock can run out as well. In the checkout runs
`MaxClock = 1` lets the first buyer's lock run out while the second buyer takes
the seat. Three events on the bus are a payment, its ticket, and either of
them again, in another thread or after a handler raised; two subscriptions are
the least that has an order. In the browser two requests under way are a lock or
a payment together with a seat poll, or a second lock asked for while the first
is awaited; two events are one to leave and one to come back to, and two seats one
to reserve and one to toggle meanwhile; with `TTL = 1` the lock runs out at the
next tick. `Unspoilt` cuts these two runs off where `"lock"` enters `outrun`, which
only grows: the properties of `frontend_visits` and `CountdownRuns` say nothing
from there on. `FrontendTypeOK` does, and is proved for all states. In `catalog` two of the three
emails are one mailbox and the third is no address; two demos are the least of
which a crash can leave half, and three writes leave room for two
concurrent edits after such a crash, of the same event or of two; two tokens are an admin and
another account, or an admin under two secrets; `TokenTTL = 1` lets a token run out
at the only tick. The bounds in
guards are `MaxClock`, `MaxRestarts`, `MaxUnanswered` (a call that raises is
booked only while no key has that many charges), `MaxEvents`, `MaxSubscriptions`, `MaxNow`,
`MaxCalls`, `MaxTokens` and `MaxVersions`; the other sets are finite because uuids and keys are drawn from
small sets. `EventBus.cfg` switches the deadlock check off: when the bounded log
is full, and every list of handlers too, the bus rests, as it may. Symmetry is
used where no liveness property is checked.

Every property has a mutant in `PROJECT.json`: an operator beside the original
("Variant: ...") that changes the code the way a plausible bug would, and that
makes the property fail under the same configuration.

### Fairness

`FairSpec` says that a request that has begun goes on and that time passes: a
request has a thread of its own, its transactions do not block for ever (one
writer, short transactions, no lock cycle: `_lock` is taken before
`_write_lock`, and the bus lock is innermost). `PolledSpec` adds strong
fairness of `BeginSeatStatuses`: a client with an open seat map polls every
four seconds and gets a thread; strong, because the threads of the model are a
pool of two. `FairCheckoutSpec` asks that a checkout past the lock, and the
reservation call inside it, go on. It assumes that the gateway answers or raises,
which the stub does; nothing is assumed about who gets `_lock`, and no property needs it.
`EventBus!FairSpec` says that inside `publish` the loop goes on and that a
handler returns or raises. The runs of `Frontend` and `Catalog` assume no fairness.

## 4. Theorems

For every number of threads, reservations, seats, events and keys, every TTL
and every resolution of the clock:

- `FromIsoFormatInverts`, `TextOrderIsTimeOrder` (`IsoTime_proofs`): the order
  of expiry texts is the order of instants. By division with remainder, then by
  cases on the second.
- `TypeInvariance`: `TypeOK`. The lemma `TableSteps` says that a step leaves
  the tables alone, ends pending reservations (`Ends`), confirms a pending one
  (`Confirms`) or inserts one after a sweep (`Inserts`); all later proofs are
  about these four cases and never look at threads again.
- `LedgerIsKept`, `NoSeatIsBookedTwice`: from the inductive invariant
  `Integrity` = types, `SeatLedger` and `SeatsUnique`. `NoDoubleBooking` alone is
  not inductive: it speaks about `granted`, which no statement reads, so it needs
  the ledger that ties it to the rows, and the ledger needs the index to survive
  an insertion.
- `TransitionsAreLegal`: the action property `LegalTransitions`.
- `RepliesAreIdempotent`, `LocksLastTheirTime`, `RepliesAreTrue`,
  `SeatMapsStayTrue`, `EventsStayTrue`, `RefusalsHaveCause`: from one inductive
  invariant, `ServiceInv` = types, `Integrity`, `RowsOK` (keys are unique, an
  expiry is a text of an instant, what is EXPIRED had run out), `CallsBacked` and
  `HistoryOK`. `CallsBacked` is what makes the properties provable, which speak of
  what was answered, shown or published, while the statements that decide it
  are over by then: a thread carries from one step to the next only what
  will stay true whatever other threads commit meanwhile, such as a status that is
  final, the identifier stored under its key, an instant that is not after the clock.
- `Refinement`: `Spec => ImplementsSeatInventory`. `Ends` maps to `Lapse`,
  `Confirms` to `Book`, `Inserts` to `Lock` together with the lapses of its
  sweep. It needs `SomethingGranted`: a reservation without seats could be
  confirmed without booking anything.

- `CheckoutTypes`, `KeysStayUncharged`, `ProviderDecides`, `TicketsStandForSeats`,
  `FailuresFreeSeats`, `AnnouncementsAreExact`, `AttemptsAreKept`,
  `ServiceSurvives`, `TransitionsSurvive`, `ServerRefinement` (`Checkout_proofs`), for any number of restarts as well. The
  lemma `ServiceView` says that a step of the program is, to the reservation
  service, a step of its own specification or `Abandon` (calls that are given
  up by a checkout, or forgotten by a restart); hence `ServiceInv` holds here too,
  and the tables only make the four kinds of steps of `TableSteps`, so that the
  server as a whole implements `SeatInventory` (`ServerRefinement`, from the same
  lemma `InventoryStep` as `Refinement`).
  `CheckoutInv` adds to it that one thread at most is at a point that holds `_lock`
  (`Exclusive`), what a checkout has charged and recorded when it is there
  (`Underway`), where the reservation call on its thread then stands
  (`Nested`), that a payment is for a reservation a client was told of
  (`Tried`), and how many announcements there are (`DeliveriesOK`).
  The last is `DeliveriesAreExact` with a finite `_attempts`: an upper bound on the
  announcements is not inductive, the equality is, because it knows that a checkout
  that is about to announce its failure has not done so. `KeysStayUncharged` is an
  action property: who calls the gateway is past its look at `_attempts` and
  alone in the lock, so there is no attempt for its key and nobody has an
  answer to record.

- `BusTypes`, `Idempotent`, `HandlersInOrder`, `EventsInOrder`
  (`EventBus_proofs`), for any threads, types, handlers and depth of nesting.
  The inductive invariant `IInv` adds to the types how the frames nest (inner
  ones are of a higher `Level`, outer ones wait in a handler), that the handlers
  before the current one of a frame have completed its event and a running one
  has not (`Progressing`), that what is in `done` is in `processed`, and that
  what is done of a type is not ahead of the frame that delivers the type
  (`HistoryIsBehind`). The last one needs `Level`: a handler that published its
  own type would overtake itself.

- `AccountTypes`, `MailboxHasOneAccount`, `TokensNameTheirHolder`, `AccountsStay`
  (`Accounts_proofs`). The inductive invariant `AccountsInv` adds that stored
  emails are canonical, without which the index says nothing about mailboxes,
  and that a request that is about to issue a token names an account it has
  matched.
- `CatalogKeepsAccounts` (`Catalog_proofs`): `CatalogSpec => Spec` of `Accounts`,
  so the four theorems above hold beside the catalogue as well
  (`CatalogAccounts`).
- `CatalogTypes`, `EditsAreAuthorised`, `DemosComeOnce`:
  from `CatalogInv`. The lemma `TableSteps` says that a step leaves table and
  journal alone or writes one version that is allowed (`Writes`);
  `WorkSteps`, that it moves one request, none, or ends all. The invariant says
  what a request has checked and that it is still so (`Checked`: nobody ceases
  to be an admin, no event disappears), that a token is as old as it says
  (`TokenTimes`, with `FromIsoFormatInverts`), and that the journal of a process
  that seeds is as long as what it has seeded (`BootInv`).
- `RepliesAreOfTheEdit`, `ListsHaveThemAll`: from `TableIsLast`, each row is what
  the journal says last of its event, so that a read is never older than any
  write before it. `ListsKeepTheirOrder`: no step moves a row or its time.

- `FrontendTypes`, `ScreenStaysConsistent`, `ChargesAreRight`,
  `TicketsAreOfTheReservation`, `CountdownsRun`, `PendingStaysRemembered`
  (`Frontend_proofs`), for any users, events, seats and requests under way, and for
  every order of clicks, timers and answers; nothing is assumed of the user or
  of the network. The inductive invariant `FrontendInv` was checked by TLC on small
  instances before it was proved. It has four layers, each true for as long as the
  answers that break it have not come:
  - always (`Base`): what the server granted is never changed (`ServerOK`), what a
    request names is on the server and what an answer says still is so (`CallsOK`),
    the tab shows and remembers only what was granted (`TabOK`);
  - until a lock finds the tab elsewhere (`InPlace`, `PaymentsRight`): each user's
    storage has his own reservations under their events (`Own`), memory and
    storage agree but for what has run out (`Kept`), what is remembered for the open
    event is on the screen (`OnScreen`) and is of that event and of the
    selected seats (`Shows`), and payments under way and made are for their seats;
  - until a lock or a payment does (`Counts`): the countdown;
  - until anything does (`AtTheTicket`, `ShowsTheTicket`): a ticket that is
    awaited is that of the reservation on the screen, and the stub is its own.

  The lemma `TabSteps` says that each action makes one of a few moves of the tab
  (`Quiet`, `LogsIn`, `Leaves`, `Opens`, `Selects`, `Ends`, `TakesLock`, `Pays`,
  `ShowsStub`, `LosesSelection`); the layers are proved from the moves and never
  look at the actions again. `PendingStaysRemembered` is an action property: what a
  step removes from local storage has run out, was paid or was given back.

The assumptions are those on the constants: `BusAssumption` for the bus;
`FrontendAssumption` (`null` is no name and no object, other customers have
reservations of their own, `TTL` is a natural); `MaxRestarts` is a natural;
`AccountsAssumption` (`Canonical` is idempotent, the lifetime positive) and
`CatalogAssumption` (the demos are valid and there is one); `TTL` and `MaxClock` are naturals,
`SecondLength` is positive, `UnknownId` and `NoKey` are not an identifier and
not a key.

Every safety invariant and every action property of a passing run is stated by a
theorem. Only model-checked: the liveness properties, because they need ENABLED
and fairness, which the prover does not handle: `OverdueLocksAreSwept`,
`ConfirmedGetsTicket`, `EventsGetThrough`.

## 5. Where code and documents disagree

| Run | The code | The document |
|---|---|---|
| `checkout_unbooked_charge` | a charge for a lock that ran out is neither confirmed nor refunded | QA oracle, item 3 |
| `checkout_paid_twice` | a second key charges a confirmed reservation again | class diagram: at most one payment settles a reservation |
| `frontend_switched` | a lock that is answered after the user opened another event is shown and remembered there | `app.js`: the reservation for the active event, and coming back still shows it |

Seen in the models, and not kept as runs: `get()` answers PENDING without seats
when a release or a sweep commits between its two reads; `ReservationConfirmed`
can be published before `ReservationCreated`; the sweeps that the server runs
publish nothing; nothing sweeps without a
request; a `confirm` that waited for the lock judges expiry by the time it
arrived; an UNKNOWN payment does not keep a second key from charging; a restart
forgets the attempts; after `checkout_unbooked_charge` a retry with the same key
is answered SUCCEEDED, without a ticket; a retry after a gateway call that was
booked and raised charges the same key again; of two admins who edit an event from
the same old content the later one wins, and both may be shown his content; a
catalogue that was half seeded when the process stopped stays so; a list need
not be the table at any one moment. In the browser: a seat that is toggled while
the lock is awaited makes the payment one for other seats than were reserved; a
second lock, which clicking a seat makes possible again, overwrites the first
reservation; an answer to a payment that comes after another event was opened
stops that event's countdown and forgets its reservation; a ticket that comes then
fills the stub from that event. Each of these is a case of `Elsewhere`.

## 6. Not modelled, and the plan

Not modelled: password hashing and token signatures (libraries), JSON and HTTP
framing, styling, the admin form and the list of events in the browser, Terraform and compose files, the SQL migrations of the target
architecture (the program does not run them), and the quality scripts.
SQLite's busy timeout (30 s) is taken as never reached.

The HTTP adapter is modelled by the services that its routes call and the
outcomes they turn into status codes. Several processes on one database are not
modelled: the deployment (`compose.yaml`) has one.

Next, in this order:

1. What local storage still has of a customer after an answer found the tab
   elsewhere, and how a reload repairs it.
2. `RefusalsAreJustified` in the composed server, through `ServiceView`.
3. The admin form and the event list of the browser over `Catalog`.
