------------------------------ MODULE Checkout ------------------------------
(***************************************************************************)
(* The checkout saga of src/ticketplus/checkout.py on top of the           *)
(* reservation service: CheckoutService, TicketingService and              *)
(* NotificationService, as http_api.py wires them.                         *)
(*                                                                         *)
(* A checkout holds CheckoutService._lock from its look at _attempts until *)
(* it replies; reservation calls, sweeps, the clock and restarts of the    *)
(* server go on meanwhile.  It calls the gateway, records the attempt, and *)
(* only then asks the reservation service to confirm or to release, on the *)
(* same thread (call[t]).  PaymentSucceeded runs the ticket and the        *)
(* notification handlers inside publish(), under the bus lock.             *)
(*                                                                         *)
(* Everything but the reservation tables is in memory and is lost when the *)
(* server restarts; SQLite rolls back the transaction it was in.           *)
(***************************************************************************)
EXTENDS Reservation, Sequences, SequencesExt

CONSTANTS
  PayKeys,       \* idempotency keys of checkouts
  MaxRestarts,   \* bound: how often the server restarts
  MaxUnanswered  \* bound: the provider books a call that raises only while every
                 \* key has fewer charges than this

ASSUME MaxRestartsAssumption == MaxRestarts \in Nat

VARIABLES
  saga,            \* saga[t]: where the checkout of thread t is
  charges,         \* the provider's books: charges[k], the calls made with key k
  attempts,        \* _attempts: key -> attempt
  payment_events,  \* payment events handed to the bus: <<type, key>>
  tickets,         \* TicketingService.tickets: reservation -> key it was paid with
  deliveries,      \* NotificationService.deliveries
  restarts

memory == <<attempts, payment_events, tickets, deliveries>>
checkoutVars == <<saga, charges, memory, restarts>>
allVars == <<vars, checkoutVars>>

-----------------------------------------------------------------------------
Results == {"SUCCEEDED", "FAILED", "UNKNOWN"}

Attempt == [rid : Ids, status : Results]

NoSaga == [pc |-> "none"]

Saga ==
  {NoSaga}
  \cup [pc : {"waiting", "charging"}, rid : Ids, key : PayKeys]
  \cup [pc : {"charged", "settling"}, rid : Ids, key : PayKeys, result : Results]
  \cup [pc : {"replying"}, key : PayKeys, attempt : Attempt]
  \cup [pc : {"failing"}, error : Errors \cup {"GatewayError"}]

\* The state of the saga and of the services it feeds has its kinds.
CheckoutTypeOK ==
  /\ TypeOK
  /\ saga \in [Threads -> Saga]
  /\ DOMAIN charges = PayKeys
  /\ \A k \in PayKeys : charges[k] \in Seq([rid : Ids, result : Results])
  /\ DOMAIN attempts \subseteq PayKeys
  /\ attempts \in [DOMAIN attempts -> Attempt]
  /\ payment_events \subseteq
       {"PaymentSucceeded", "PaymentFailed", "PaymentPendingReconciliation"} \X PayKeys
  /\ DOMAIN tickets \subseteq ReservationIds
  /\ tickets \in [DOMAIN tickets -> PayKeys]
  /\ deliveries \in Seq({"TicketIssued", "PaymentFailed"} \X ReservationIds)
  /\ restarts \in 0 .. MaxRestarts

Empty == [x \in {} |-> {}]

\* The function f with x mapped to y.
With(f, x, y) == [z \in DOMAIN f \cup {x} |-> IF z = x THEN y ELSE f[z]]

CheckoutInit ==
  /\ Init
  /\ saga = [t \in Threads |-> NoSaga]
  /\ charges = [k \in PayKeys |-> <<>>]
  /\ attempts = Empty
  /\ payment_events = {}
  /\ tickets = Empty
  /\ deliveries = <<>>
  /\ restarts = 0

-----------------------------------------------------------------------------
(* The lock.  A checkout that is past "waiting" holds _lock until it        *)
(* replies.                                                                 *)

LockHeld == \E u \in Threads : saga[u].pc \in {"charging", "charged", "settling"}

At(t, pc) == saga[t].pc = pc

GoesOn(t, s) == saga' = [saga EXCEPT ![t] = s]

\* A client pays for a reservation it knows of; an amount that is not
\* positive or a currency that is not three letters is rejected at once.
BeginCheckout(t, r) ==
  /\ At(t, "none")
  /\ call[t] = Idle
  /\ \/ \E k \in PayKeys : GoesOn(t, [pc |-> "waiting", rid |-> r, key |-> k])
     \/ GoesOn(t, [pc |-> "failing", error |-> "ValueError"])
  /\ UNCHANGED <<vars, charges, memory, restarts>>

\* The key was used before in this lifetime: its attempt is the reply,
\* whatever became of it, and whatever this request is for.
CheckoutRepeated(t) ==
  /\ At(t, "waiting")
  /\ ~LockHeld
  /\ saga[t].key \in DOMAIN attempts
  /\ GoesOn(t, [pc |-> "replying", key |-> saga[t].key, attempt |-> attempts[saga[t].key]])
  /\ UNCHANGED <<vars, charges, memory, restarts>>

\* Variant: the key is looked up before the lock is taken.
CheckoutEnteredUnlocked(t) ==
  /\ At(t, "waiting")
  /\ saga[t].key \notin DOMAIN attempts
  /\ GoesOn(t, [saga[t] EXCEPT !.pc = "charging"])
  /\ UNCHANGED <<vars, charges, memory, restarts>>

CheckoutEntered(t) ==
  /\ At(t, "waiting")
  /\ ~LockHeld
  /\ saga[t].key \notin DOMAIN attempts
  /\ GoesOn(t, [saga[t] EXCEPT !.pc = "charging"])
  /\ UNCHANGED <<vars, charges, memory, restarts>>

-----------------------------------------------------------------------------
(* The gateway books the call and answers.  The stub of http_api.py answers *)
(* what PAYMENT_OUTCOME says; a provider answers each call as it will.      *)

\* The provider books a call that thread t makes.
Books(t, result) ==
  charges' = [charges EXCEPT ![saga[t].key] = Append(@, [rid |-> saga[t].rid, result |-> result])]

Gateway(t, result) ==
  LET s == saga[t]
  IN  /\ At(t, "charging")
      /\ Books(t, result)
      /\ GoesOn(t, [pc |-> "charged", rid |-> s.rid, key |-> s.key, result |-> result])
      /\ UNCHANGED <<vars, memory, restarts>>

\* The gateway raises (PAYMENT_OUTCOME is no PaymentResult, the provider
\* cannot be reached or does not answer in time), or what it answers is no
\* PaymentResult.  The exception leaves the lock before an attempt is recorded,
\* so the key may be used again, whether or not the provider decided the call
\* and booked it.
GatewayRaises(t) ==
  /\ At(t, "charging")
  /\ \/ UNCHANGED charges
     \/ /\ \A k \in PayKeys : Len(charges[k]) < MaxUnanswered
        /\ \E result \in {"SUCCEEDED", "FAILED"} : Books(t, result)
  /\ GoesOn(t, [pc |-> "failing", error |-> "GatewayError"])
  /\ UNCHANGED <<vars, memory, restarts>>

\* The attempt is recorded as the gateway answered it.
Recorded(t) ==
  attempts' = With(attempts, saga[t].key, [rid |-> saga[t].rid, status |-> saga[t].result])

AttemptReply(t) ==
  [pc |-> "replying", key |-> saga[t].key,
   attempt |-> [rid |-> saga[t].rid, status |-> saga[t].result]]

\* Variant: a payment of unknown outcome gives the seats back.
SettleUnknown(t) ==
  LET s == saga[t]
  IN  /\ At(t, "charged")
      /\ \/ s.result = "SUCCEEDED" /\ BeginConfirm(t, s.rid)
         \/ s.result \in {"FAILED", "UNKNOWN"} /\ BeginRelease(t, s.rid)
      /\ Recorded(t)
      /\ GoesOn(t, [s EXCEPT !.pc = "settling"])
      /\ UNCHANGED <<charges, payment_events, tickets, deliveries, restarts>>

\* The nested call that settles the reservation.  confirm reads the clock
\* as it begins.
Settle(t) ==
  LET s == saga[t]
  IN  /\ At(t, "charged")
      /\ \/ s.result = "SUCCEEDED" /\ BeginConfirm(t, s.rid)
         \/ s.result = "FAILED" /\ BeginRelease(t, s.rid)
      /\ Recorded(t)
      /\ GoesOn(t, [s EXCEPT !.pc = "settling"])
      /\ UNCHANGED <<charges, payment_events, tickets, deliveries, restarts>>

\* Variant: a failed payment is set aside as well.
QuarantineFailed(t) ==
  /\ At(t, "charged")
  /\ saga[t].result \in {"UNKNOWN", "FAILED"}
  /\ Recorded(t)
  /\ payment_events' = payment_events \cup {<<"PaymentPendingReconciliation", saga[t].key>>}
  /\ GoesOn(t, AttemptReply(t))
  /\ UNCHANGED <<vars, charges, tickets, deliveries, restarts>>

\* Neither confirmed nor released: left to a reconciliation.
Quarantine(t) ==
  /\ At(t, "charged")
  /\ saga[t].result = "UNKNOWN"
  /\ Recorded(t)
  /\ payment_events' = payment_events \cup {<<"PaymentPendingReconciliation", saga[t].key>>}
  /\ GoesOn(t, AttemptReply(t))
  /\ UNCHANGED <<vars, charges, tickets, deliveries, restarts>>

-----------------------------------------------------------------------------
(* The nested call has ended. *)

\* TicketingService._issue: one ticket for a reservation, announced once.
Issue(r, k) ==
  IF r \in DOMAIN tickets THEN UNCHANGED <<tickets, deliveries>>
  ELSE /\ tickets' = With(tickets, r, k)
       /\ deliveries' = Append(deliveries, <<"TicketIssued", r>>)

NestedCallEnds(t) ==
  /\ At(t, "settling")
  /\ call' = [call EXCEPT ![t] = Idle]
  /\ UNCHANGED <<tables, clock, published, answers, charges, attempts, restarts>>

\* Variant: an exception of confirm is swallowed.
PaymentSucceededAnyway(t) ==
  /\ NestedCallEnds(t)
  /\ call[t].pc \in {"return", "raise"}
  /\ saga[t].result = "SUCCEEDED" /\ saga[t].rid \in ReservationIds
  /\ payment_events' = payment_events \cup {<<"PaymentSucceeded", saga[t].key>>}
  /\ Issue(saga[t].rid, saga[t].key)
  /\ GoesOn(t, AttemptReply(t))

\* Variant: the success is returned and never published.
PaymentSucceededUnpublished(t) ==
  /\ NestedCallEnds(t)
  /\ call[t].pc = "return"
  /\ saga[t].result = "SUCCEEDED"
  /\ GoesOn(t, AttemptReply(t))
  /\ UNCHANGED <<payment_events, tickets, deliveries>>

PaymentSucceeded(t) ==
  /\ NestedCallEnds(t)
  /\ call[t].pc = "return"
  /\ saga[t].result = "SUCCEEDED"
  /\ payment_events' = payment_events \cup {<<"PaymentSucceeded", saga[t].key>>}
  /\ Issue(saga[t].rid, saga[t].key)
  /\ GoesOn(t, AttemptReply(t))

\* Variant: the reservation is released and nobody is told.
PaymentFailedUnannounced(t) ==
  /\ NestedCallEnds(t)
  /\ call[t].pc = "return"
  /\ saga[t].result = "FAILED"
  /\ GoesOn(t, AttemptReply(t))
  /\ UNCHANGED <<payment_events, tickets, deliveries>>

\* Variant: the failure is published under a type that nobody knows.
PaymentFailedRenamed(t) ==
  /\ NestedCallEnds(t)
  /\ call[t].pc = "return"
  /\ saga[t].result = "FAILED"
  /\ payment_events' = payment_events \cup {<<"PaymentDeclined", saga[t].key>>}
  /\ deliveries' = Append(deliveries, <<"PaymentFailed", saga[t].rid>>)
  /\ UNCHANGED tickets
  /\ GoesOn(t, AttemptReply(t))

PaymentFailed(t) ==
  /\ NestedCallEnds(t)
  /\ call[t].pc = "return"
  /\ saga[t].result = "FAILED"
  /\ payment_events' = payment_events \cup {<<"PaymentFailed", saga[t].key>>}
  /\ deliveries' = Append(deliveries, <<"PaymentFailed", saga[t].rid>>)
  /\ UNCHANGED tickets
  /\ GoesOn(t, AttemptReply(t))

\* Variant: the attempt is forgotten, so that the key can be used again.
SettlementRefusedForgotten(t) ==
  /\ At(t, "settling")
  /\ call[t].pc = "raise"
  /\ call' = [call EXCEPT ![t] = Idle]
  /\ attempts' = [k \in DOMAIN attempts \ {saga[t].key} |-> attempts[k]]
  /\ GoesOn(t, [pc |-> "failing", error |-> call[t].error])
  /\ UNCHANGED <<tables, clock, published, answers, charges, payment_events, tickets,
                 deliveries, restarts>>

\* The reservation service refused: the exception leaves checkout, and the
\* attempt stays recorded.
SettlementRefused(t) ==
  /\ NestedCallEnds(t)
  /\ call[t].pc = "raise"
  /\ GoesOn(t, [pc |-> "failing", error |-> call[t].error])
  /\ UNCHANGED <<payment_events, tickets, deliveries>>

\* The client has its reply, or its error.
CheckoutEnds(t) ==
  /\ saga[t].pc \in {"replying", "failing"}
  /\ GoesOn(t, NoSaga)
  /\ UNCHANGED <<vars, charges, memory, restarts>>

-----------------------------------------------------------------------------
\* The process ends and starts again, between any two steps.
Restart ==
  /\ restarts < MaxRestarts
  /\ restarts' = restarts + 1
  /\ call' = [t \in Threads |-> Idle]
  /\ saga' = [t \in Threads |-> NoSaga]
  /\ attempts' = Empty
  /\ payment_events' = {}
  /\ tickets' = Empty
  /\ deliveries' = <<>>
  /\ published' = {}
  /\ UNCHANGED <<tables, clock, answers, charges>>

\* The reservation calls that http_api.py makes for a request; confirm and
\* release are made by a checkout only, expire_due by nobody.
BeginRequest(t) ==
  \/ BeginLockSeats(t)
  \/ \E r \in Known : BeginGet(t, r)
  \/ BeginSeatStatuses(t)

\* A request other than a checkout begins or ends, or any call takes a step.
ReservationStep ==
  /\ \/ Tick
     \/ \E t \in Threads : At(t, "none") /\ (BeginRequest(t) \/ Return(t))
     \/ \E t \in Threads : Step(t)
  /\ UNCHANGED checkoutVars

\* The steps of a checkout between the lock and its reply.
SagaStep(t) ==
  \/ \E result \in Results : Gateway(t, result)
  \/ GatewayRaises(t)
  \/ Settle(t) \/ Quarantine(t)
  \/ PaymentSucceeded(t) \/ PaymentFailed(t) \/ SettlementRefused(t)
  \/ CheckoutEnds(t)

CheckoutNext ==
  \/ ReservationStep
  \/ \E t \in Threads :
       \/ \E r \in Known : BeginCheckout(t, r)
       \/ CheckoutRepeated(t) \/ CheckoutEntered(t)
       \/ SagaStep(t)
  \/ Restart

CheckoutSpec == CheckoutInit /\ [][CheckoutNext]_allVars

\* Fairness: a thread that can take a step of its own does; the gateway of
\* http_api.py answers at once.  Nothing is asked of the race for _lock.
FairCheckoutSpec ==
  /\ CheckoutSpec
  /\ \A t \in Threads :
       /\ WF_allVars(SagaStep(t))
       /\ WF_allVars(Step(t) /\ UNCHANGED checkoutVars)

-----------------------------------------------------------------------------
(* Properties. *)

\* A call of the gateway for reservation r that had the given result.
Charged(r, result) ==
  \E k \in PayKeys : \E i \in DOMAIN charges[k] : charges[k][i] = [rid |-> r, result |-> result]

\* Every ticket is for a reservation that is confirmed, has its seats, and
\* was paid with the key that issued it (docs/quality/qa-strategy.md, oracle
\* item 5), although payment, confirmation and issue are separate steps that
\* sweeps, other checkouts and restarts come between.
TicketsAreBacked ==
  \A r \in DOMAIN tickets :
    /\ r \in Stored
    /\ reservations[r].status = "CONFIRMED"
    /\ SeatsOf(r) = reservations[r].granted
    /\ \E i \in DOMAIN charges[tickets[r]] :
         charges[tickets[r]][i] = [rid |-> r, result |-> "SUCCEEDED"]

\* The provider has the last word, across restarts as well: a reservation is
\* confirmed only after a charge for it succeeded, and cancelled only after
\* one failed; an unknown outcome leaves it alone.
TheProviderDecides ==
  \A r \in Stored :
    /\ reservations[r].status = "CONFIRMED" => Charged(r, "SUCCEEDED")
    /\ reservations[r].status = "CANCELLED" => Charged(r, "FAILED")

\* A lifetime of the server that has an answer of the gateway to a key, or is
\* about to record it, charges the key no more, however many requests use it at
\* the same time.  Only a call that raised leaves the key free for another.
AnsweredKeysStayUncharged ==
  [][\A k \in PayKeys :
       charges'[k] # charges[k] =>
         /\ k \notin DOMAIN attempts
         /\ \A t \in Threads : ~(At(t, "charged") /\ saga[t].key = k)
    ]_charges

\* No checkout is settling a reservation with key k.
Ended(k) == \A t \in Threads : ~(At(t, "settling") /\ saga[t].key = k)

\* Once a checkout that failed to charge has ended, its reservation no longer
\* holds the seats: it was released, had ended, or another payment
\* confirmed it.
FailedPaymentsFreeTheSeats ==
  \A k \in DOMAIN attempts :
    /\ attempts[k].status = "FAILED"
    /\ attempts[k].rid \in Stored
    /\ Ended(k)
    => reservations[attempts[k].rid].status # "PENDING"

\* The failed attempts for r whose checkout is done with the reservation.
Failures(r) ==
  {k \in DOMAIN attempts : attempts[k] = [rid |-> r, status |-> "FAILED"] /\ Ended(k)}

Sent(type, r) == {i \in DOMAIN deliveries : deliveries[i] = <<type, r>>}

\* A reservation paid for twice is ticketed and announced once.  Each failed
\* attempt is announced once, when its checkout is done with the reservation;
\* but none for a reservation that another payment confirmed, which cannot be
\* released: there the exception takes the announcement with it.
DeliveriesAreExact ==
  \A r \in ReservationIds :
    /\ Cardinality(Sent("TicketIssued", r)) = IF r \in DOMAIN tickets THEN 1 ELSE 0
    /\ Cardinality(Sent("PaymentFailed", r)) =
         IF r \in Stored /\ reservations[r].status = "CONFIRMED" THEN 0
         ELSE Cardinality(Failures(r))

\* While the server lives, the attempt recorded for a key is the answer to
\* that key for good, also when the settlement was refused.
AttemptsAreFinal ==
  [][restarts' = restarts =>
       \A k \in DOMAIN attempts : k \in DOMAIN attempts' /\ attempts'[k] = attempts[k]
    ]_<<attempts, restarts>>

\* A reservation that was confirmed gets its ticket, if the server stays up.
ConfirmedGetsTicket ==
  \A r \in ReservationIds :
    (r \in Stored /\ reservations[r].status = "CONFIRMED") ~> (r \in DOMAIN tickets)

-----------------------------------------------------------------------------
(* Statements of the repository that the code does not keep. *)

Settling(k) == \E t \in Threads : saga[t].pc \in {"charged", "settling"} /\ saga[t].key = k

\* docs/quality/qa-strategy.md, oracle item 3: "Every successful charge maps
\* to one confirmed order or an explicit refund" - once the checkout has ended.
SuccessfulChargesAreConfirmed ==
  \A k \in PayKeys, r \in Stored :
    ~Settling(k) /\ [rid |-> r, result |-> "SUCCEEDED"] \in ToSet(charges[k])
      => reservations[r].status = "CONFIRMED"

\* diagrams/02-class-diagram.puml: a reservation is settled by at most one
\* payment.
SettledByOnePayment ==
  \A r \in Stored :
    Cardinality({k \in PayKeys : [rid |-> r, result |-> "SUCCEEDED"] \in ToSet(charges[k])}) <= 1
=============================================================================
