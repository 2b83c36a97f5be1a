--------------------------- MODULE Checkout_proofs ---------------------------
(***************************************************************************)
(* Theorems about Checkout, for any number of threads, reservations,       *)
(* payment keys and restarts.  The reservation service below it keeps its  *)
(* own invariant, although checkouts end its calls and restarts forget     *)
(* them, so what is proved in Reservation_proofs is used here.             *)
(***************************************************************************)
EXTENDS Checkout, ReservationRefinement_proofs, FiniteSetTheorems

-----------------------------------------------------------------------------
(* The inductive invariant. *)

\* The checkouts that have _lock.
Holding == {"charging", "charged", "settling"}

Exclusive ==
  \A t, u \in Threads : saga[t].pc \in Holding /\ saga[u].pc \in Holding => t = u

\* The provider has booked a call with this key, for this reservation.
Booked(k, r, result) ==
  \E i \in DOMAIN charges[k] : charges[k][i] = [rid |-> r, result |-> result]

\* What a checkout at s has done.
Underway(s) ==
  /\ s.pc \in {"waiting"} \cup Holding => s.rid \in Known
  /\ s.pc \in {"charging", "charged"} => s.key \notin DOMAIN attempts
  /\ s.pc \in {"charged", "settling"} => Booked(s.key, s.rid, s.result)
  /\ s.pc = "settling" =>
       /\ s.result # "UNKNOWN"
       /\ s.key \in DOMAIN attempts
       /\ attempts[s.key] = [rid |-> s.rid, status |-> s.result]

\* The reservation r has been settled as the provider decided.
Settled(r, result) ==
  /\ r \in Stored
  /\ result = "SUCCEEDED" => reservations[r].status = "CONFIRMED"
  /\ result = "FAILED" => reservations[r].status \in {"EXPIRED", "CANCELLED"}

\* The reservation call c of a thread whose checkout is at s.
Nested(c, s) ==
  /\ c.pc \notin {"expire_due", "announce"}
  /\ c.pc = "confirm" => s.pc = "settling" /\ s.result = "SUCCEEDED" /\ c.rid = s.rid
  /\ c.pc = "release" => s.pc = "settling" /\ s.result = "FAILED" /\ c.rid = s.rid
  /\ s.pc = "settling" =>
       /\ c.pc \in {"confirm", "release", "publish", "get", "get_seats", "return", "raise"}
       /\ c.pc \in {"publish", "get", "get_seats", "return"} =>
            c.rid = s.rid /\ Settled(s.rid, s.result)
       /\ c.pc = "raise" /\ s.result = "FAILED" /\ s.rid \in Stored =>
            reservations[s.rid].status = "CONFIRMED"

SagasOK ==
  /\ Exclusive
  /\ \A t \in Threads : Underway(saga[t])
  /\ \A t \in Threads : Nested(call[t], saga[t])

DeliveriesOK == IsFiniteSet(DOMAIN attempts) /\ DeliveriesAreExact

\* A payment is tried for a reservation that a client knows of.
Tried == \A k \in DOMAIN attempts : attempts[k].rid \in Known

\* The inductive invariant of the checkout.
CheckoutInv ==
  /\ ServiceInv
  /\ CheckoutTypeOK
  /\ SagasOK
  /\ Tried
  /\ TheProviderDecides
  /\ TicketsAreBacked
  /\ FailedPaymentsFreeTheSeats
  /\ DeliveriesOK

-----------------------------------------------------------------------------
(* The reservation service under a checkout. *)

\* The point a checkout is at tells what it carries with it.
LEMMA SagaKinds ==
  ASSUME NEW s \in Saga
  PROVE  /\ s.pc \in {"none", "waiting", "replying", "failing"} \cup Holding
         /\ s.pc = "none" <=> s = NoSaga
         /\ s.pc \in {"waiting", "charging"} =>
              s \in [pc : {"waiting", "charging"}, rid : Ids, key : PayKeys]
         /\ s.pc \in {"charged", "settling"} =>
              s \in [pc : {"charged", "settling"}, rid : Ids, key : PayKeys, result : Results]
BY DEF Saga, NoSaga, Holding

\* Calls end before their time, or are forgotten, with what was published.
Abandon ==
  /\ UNCHANGED <<tables, clock, answers>>
  /\ \A t \in Threads : call'[t] \in {call[t], Idle}
  /\ call' \in [Threads -> Call]
  /\ published' \subseteq published

\* A checkout asks the service for nothing but what any caller may ask, and
\* otherwise only gives calls up.
LEMMA ServiceView ==
  ASSUME TypeOK, SagasOK, [CheckoutNext]_allVars
  PROVE  [Next]_vars \/ Abandon
<1>1. CASE ReservationStep
  BY <1>1 DEF ReservationStep, BeginRequest, BeginCall, Next
<1>2. CASE UNCHANGED allVars
  BY <1>2 DEF allVars
<1>3. ASSUME NEW t \in Threads, NEW r, BeginCheckout(t, r)
      PROVE  UNCHANGED vars
  BY <1>3 DEF BeginCheckout
<1>4. ASSUME NEW t \in Threads, NEW result, Gateway(t, result)
      PROVE  UNCHANGED vars
  BY <1>4 DEF Gateway
<1>5. ASSUME NEW t \in Threads,
             \/ CheckoutRepeated(t) \/ CheckoutEntered(t) \/ GatewayRaises(t)
             \/ Quarantine(t) \/ CheckoutEnds(t)
      PROVE  UNCHANGED vars
  BY <1>5 DEF CheckoutRepeated, CheckoutEntered, GatewayRaises, Quarantine, CheckoutEnds
<1>6. ASSUME NEW t \in Threads, Settle(t)
      PROVE  Next
  <2>1. saga[t].rid \in Known
    BY <1>6 DEF Settle, At, SagasOK, Underway, Holding
  <2> QED
    BY <1>6, <2>1 DEF Settle, BeginCall, Next
<1>7. ASSUME NEW t \in Threads, NestedCallEnds(t), published' = published
      PROVE  Abandon
  BY <1>7 DEF NestedCallEnds, Abandon, TypeOK, Call
<1>8. ASSUME NEW t \in Threads,
             PaymentSucceeded(t) \/ PaymentFailed(t) \/ SettlementRefused(t)
      PROVE  Abandon
  BY <1>7, <1>8 DEF PaymentSucceeded, PaymentFailed, SettlementRefused, NestedCallEnds
<1>9. CASE Restart
  BY <1>9 DEF Restart, Abandon, TypeOK, Call
<1> QED
  BY <1>1, <1>2, <1>3, <1>4, <1>5, <1>6, <1>8, <1>9 DEF CheckoutNext, SagaStep

\* The service keeps its invariant when calls are given up.
LEMMA AbandonKeeps ==
  ASSUME ServiceInv, Abandon
  PROVE  ServiceInv'
<1> USE DEF ServiceInv, Abandon, tables
<1>1. TypeOK' /\ Integrity'
  BY DEF TypeOK, Integrity, TablesOK, SeatLedger, SeatsUnique, SeatsOf, Stored
<1>2. RowsOK'
  BY DEF RowsOK, NeverExpiredEarly, Stored
<1>3. \A k, r : Named(k, r)' <=> Named(k, r)
  BY DEF Named, Stored
<1>4. CallsBacked'
  <2>1. SUFFICES ASSUME NEW t \in Threads
                 PROVE  Backed(call[t])'
    BY DEF CallsBacked
  <2>2. PICK c : c = call[t]
    OBVIOUS
  <2>3. Backed(c)
    BY <2>2 DEF CallsBacked
  <2>4. Backed(c)'
    BY <2>3 DEF Backed, Named, Truthful, RowRead, SeatsRead, SeatsWithStatus, Stored
  <2>5. CASE call'[t] = call[t]
    BY <2>2, <2>4, <2>5
  <2>6. CASE call'[t] = Idle
    BY <2>6 DEF Idle, Backed, Timed
  <2> QED
    BY <2>5, <2>6
<1>5. HistoryOK'
  BY <1>3 DEF HistoryOK, EventsTellTheTruth, Stored
<1> QED
  BY <1>1, <1>2, <1>4, <1>5

\* So the service keeps its invariant under every step of the program.
LEMMA ServiceKept ==
  ASSUME ServiceInv, SagasOK, [CheckoutNext]_allVars
  PROVE  ServiceInv'
BY ServiceView, ServiceStep, AbandonKeeps DEF ServiceInv

\* And rows keep what they keep.
LEMMA CheckoutTables ==
  ASSUME ServiceInv, SagasOK, [CheckoutNext]_allVars
  PROVE  TablesStep
BY ServiceView, TableSteps DEF ServiceInv, Abandon, TablesStep

\* What clients know, they go on knowing, and it is stored or is nobody's.
LEMMA KnownStays ==
  ASSUME ServiceInv, SagasOK, [CheckoutNext]_allVars
  PROVE  /\ Known \subseteq Known'
         /\ \A r \in Known : r \in Stored \/ r = UnknownId
<1>1. answers \subseteq answers'
  <2>1. CASE [Next]_vars
    BY <2>1, HistorySteps DEF ServiceInv
  <2>2. CASE Abandon
    BY <2>2 DEF Abandon
  <2> QED
    BY <2>1, <2>2, ServiceView DEF ServiceInv
<1>2. Known \subseteq Known'
  BY <1>1 DEF Known
<1>3. \A r \in Known : r \in Stored \/ r = UnknownId
  BY DEF Known, ServiceInv, HistoryOK, Named
<1> QED
  BY <1>2, <1>3

-----------------------------------------------------------------------------
(* Types. *)

\* What is left of CheckoutTypeOK once the reservation service is done.
SagaTypes ==
  /\ saga \in [Threads -> Saga]
  /\ DOMAIN charges = PayKeys
  /\ \A k \in PayKeys : charges[k] \in Seq([rid : Ids, result : Results])
  /\ restarts \in 0 .. MaxRestarts

MemoryTypes ==
  /\ DOMAIN attempts \subseteq PayKeys
  /\ attempts \in [DOMAIN attempts -> Attempt]
  /\ payment_events \subseteq
       {"PaymentSucceeded", "PaymentFailed", "PaymentPendingReconciliation"} \X PayKeys
  /\ DOMAIN tickets \subseteq ReservationIds
  /\ tickets \in [DOMAIN tickets -> PayKeys]
  /\ deliveries \in Seq({"TicketIssued", "PaymentFailed"} \X ReservationIds)

\* The types of the service, of the sagas, and of the rest.
LEMMA CheckoutTypeParts == CheckoutTypeOK <=> TypeOK /\ SagaTypes /\ MemoryTypes
BY DEF CheckoutTypeOK, SagaTypes, MemoryTypes

\* A function of its kind that gets one more value.
LEMMA WithType ==
  ASSUME NEW S, NEW T, NEW f, DOMAIN f \subseteq S, f \in [DOMAIN f -> T],
         NEW x \in S, NEW y \in T
  PROVE  /\ DOMAIN With(f, x, y) = DOMAIN f \cup {x}
         /\ DOMAIN With(f, x, y) \subseteq S
         /\ With(f, x, y) \in [DOMAIN With(f, x, y) -> T]
         /\ \A z \in DOMAIN f \cup {x} : With(f, x, y)[z] = IF z = x THEN y ELSE f[z]
BY DEF With

\* The empty function is of every kind.
LEMMA EmptyType ==
  ASSUME NEW T
  PROVE  DOMAIN Empty = {} /\ Empty \in [DOMAIN Empty -> T]
BY DEF Empty

\* A sequence of a kind that gets one more element.
LEMMA AppendType ==
  ASSUME NEW T, NEW s \in Seq(T), NEW e \in T
  PROVE  /\ Append(s, e) \in Seq(T)
         /\ Len(Append(s, e)) = Len(s) + 1
         /\ DOMAIN Append(s, e) = DOMAIN s \cup {Len(s) + 1}
         /\ Len(s) + 1 \notin DOMAIN s
         /\ \A i \in DOMAIN s : Append(s, e)[i] = s[i]
         /\ Append(s, e)[Len(s) + 1] = e
OBVIOUS

\* A checkout that goes on to a well-formed point.
LEMMA SagaMoves ==
  ASSUME SagaTypes, NEW t, NEW s \in Saga, GoesOn(t, s), UNCHANGED <<charges, restarts>>
  PROVE  SagaTypes'
BY DEF SagaTypes, GoesOn

\* The points of a checkout before it is charged.
LEMMA BeginSagaType ==
  ASSUME SagaTypes, NEW t \in Threads, At(t, "waiting")
  PROVE  /\ [saga[t] EXCEPT !.pc = "charging"] \in Saga
         /\ saga[t].rid \in Ids /\ saga[t].key \in PayKeys
<1>1. saga[t] \in [pc : {"waiting", "charging"}, rid : Ids, key : PayKeys]
  BY SagaKinds DEF SagaTypes, At
<1> QED
  BY <1>1 DEF Saga

\* What a checkout carries before the gateway has answered.
LEMMA ChargingSagaType ==
  ASSUME SagaTypes, NEW t \in Threads, At(t, "charging")
  PROVE  saga[t].rid \in Ids /\ saga[t].key \in PayKeys
<1>1. saga[t] \in [pc : {"waiting", "charging"}, rid : Ids, key : PayKeys]
  BY SagaKinds DEF SagaTypes, At
<1> QED
  BY <1>1

\* And after.
LEMMA ChargedSagaType ==
  ASSUME SagaTypes, NEW t \in Threads, At(t, "charged") \/ At(t, "settling")
  PROVE  /\ [saga[t] EXCEPT !.pc = "settling"] \in Saga
         /\ saga[t].rid \in Ids /\ saga[t].key \in PayKeys /\ saga[t].result \in Results
         /\ [rid |-> saga[t].rid, status |-> saga[t].result] \in Attempt
         /\ AttemptReply(t) \in Saga
<1>1. saga[t] \in [pc : {"charged", "settling"}, rid : Ids, key : PayKeys, result : Results]
  BY SagaKinds DEF SagaTypes, At
<1>2. [saga[t] EXCEPT !.pc = "settling"] \in Saga
  BY <1>1 DEF Saga
<1>3. [rid |-> saga[t].rid, status |-> saga[t].result] \in Attempt
  BY <1>1 DEF Attempt
<1>4. AttemptReply(t) \in Saga
  BY <1>1, <1>3 DEF AttemptReply, Saga
<1> QED
  BY <1>1, <1>2, <1>3, <1>4

\* The error of a call that raised ends a checkout.
LEMMA FailingSagaType ==
  ASSUME TypeOK, NEW t \in Threads, call[t].pc = "raise"
  PROVE  [pc |-> "failing", error |-> call[t].error] \in Saga
<1>1. call[t] \in RaiseCall
  BY DEF TypeOK, Call, Idle, LockSeatsCall, ConfirmCall, ReleaseCall, ExpireDueCall, AnnounceCall,
         SeatStatusesCall, ReadSeatsCall, PublishCall, GetCall, GetSeatsCall, ReturnCall, ReturnSeatsCall
<1> QED
  BY <1>1 DEF RaiseCall, Saga

\* Steps that move a checkout and leave what the services remember alone.
LEMMA QuietTypes ==
  ASSUME CheckoutTypeOK, NEW t \in Threads,
         \/ \E r \in Known : BeginCheckout(t, r)
         \/ CheckoutRepeated(t) \/ CheckoutEntered(t)
         \/ SettlementRefused(t) \/ CheckoutEnds(t)
  PROVE  SagaTypes' /\ MemoryTypes'
<1> USE CheckoutTypeParts
<1>1. UNCHANGED memory
  BY DEF BeginCheckout, CheckoutRepeated, CheckoutEntered, SettlementRefused, CheckoutEnds,
         NestedCallEnds, memory
<1>2. MemoryTypes'
  BY <1>1 DEF MemoryTypes, memory
<1>3. ASSUME NEW r \in Known, BeginCheckout(t, r)
      PROVE  SagaTypes'
  <2>1. r \in Ids
    BY DEF Known, TypeOK, Ids
  <2>2. [pc |-> "failing", error |-> "ValueError"] \in Saga
    BY DEF Saga, Errors
  <2>3. \A k \in PayKeys : [pc |-> "waiting", rid |-> r, key |-> k] \in Saga
    BY <2>1 DEF Saga
  <2> QED
    BY <1>3, <2>2, <2>3, SagaMoves DEF BeginCheckout
<1>4. CASE CheckoutRepeated(t)
  <2>1. attempts[saga[t].key] \in Attempt /\ saga[t].key \in PayKeys
    BY <1>4 DEF CheckoutRepeated, MemoryTypes
  <2>2. PICK s : s = [pc |-> "replying", key |-> saga[t].key, attempt |-> attempts[saga[t].key]]
    OBVIOUS
  <2>3. s \in Saga
    BY <2>1, <2>2 DEF Saga
  <2>4. GoesOn(t, s) /\ UNCHANGED <<charges, restarts>>
    BY <1>4, <2>2 DEF CheckoutRepeated
  <2> QED
    BY <1>2, <2>3, <2>4, SagaMoves
<1>5. CASE CheckoutEntered(t)
  <2>1. PICK s : s = [saga[t] EXCEPT !.pc = "charging"]
    OBVIOUS
  <2>2. s \in Saga
    BY <1>5, <2>1, BeginSagaType DEF CheckoutEntered
  <2>3. GoesOn(t, s) /\ UNCHANGED <<charges, restarts>>
    BY <1>5, <2>1 DEF CheckoutEntered
  <2> QED
    BY <1>2, <2>2, <2>3, SagaMoves
<1>6. CASE SettlementRefused(t)
  <2>1. PICK s : s = [pc |-> "failing", error |-> call[t].error]
    OBVIOUS
  <2>2. s \in Saga
    BY <1>6, <2>1, FailingSagaType DEF SettlementRefused
  <2>3. GoesOn(t, s) /\ UNCHANGED <<charges, restarts>>
    BY <1>6, <2>1 DEF SettlementRefused, NestedCallEnds
  <2> QED
    BY <1>2, <2>2, <2>3, SagaMoves
<1>7. CASE CheckoutEnds(t)
  <2>1. NoSaga \in Saga
    BY DEF Saga
  <2>2. GoesOn(t, NoSaga) /\ UNCHANGED <<charges, restarts>>
    BY <1>7 DEF CheckoutEnds
  <2> QED
    BY <1>2, <2>1, <2>2, SagaMoves
<1> QED
  BY <1>2, <1>3, <1>4, <1>5, <1>6, <1>7

\* The provider's books.
LEMMA BooksTypes ==
  ASSUME SagaTypes, NEW t \in Threads, At(t, "charging"), NEW result \in Results, Books(t, result)
  PROVE  /\ DOMAIN charges' = PayKeys
         /\ \A k \in PayKeys : charges'[k] \in Seq([rid : Ids, result : Results])
<1>1. PICK n, e : n = saga[t].key /\ e = [rid |-> saga[t].rid, result |-> result]
  OBVIOUS
<1>2. PICK T : T = [rid : Ids, result : Results]
  OBVIOUS
<1>3. n \in PayKeys /\ e \in T
  BY <1>1, <1>2, ChargingSagaType
<1>4. charges' = [charges EXCEPT ![n] = Append(charges[n], e)]
  BY <1>1 DEF Books
<1>5. DOMAIN charges = PayKeys /\ \A k \in PayKeys : charges[k] \in Seq(T)
  BY <1>2 DEF SagaTypes
<1>6. Append(charges[n], e) \in Seq(T)
  BY <1>3, <1>5, AppendType
<1> QED
  BY <1>2, <1>3, <1>4, <1>5, <1>6

\* The gateway is called, and answers or raises.
LEMMA GatewayTypes ==
  ASSUME CheckoutTypeOK, NEW t \in Threads,
         (\E result \in Results : Gateway(t, result)) \/ GatewayRaises(t)
  PROVE  SagaTypes' /\ MemoryTypes'
<1> USE CheckoutTypeParts
<1>1. At(t, "charging") /\ UNCHANGED <<memory, restarts>>
  BY DEF Gateway, GatewayRaises
<1>2. /\ DOMAIN charges' = PayKeys
      /\ \A k \in PayKeys : charges'[k] \in Seq([rid : Ids, result : Results])
  <2>1. ASSUME UNCHANGED charges
        PROVE  /\ DOMAIN charges' = PayKeys
               /\ \A k \in PayKeys : charges'[k] \in Seq([rid : Ids, result : Results])
    BY <2>1 DEF SagaTypes
  <2> QED
    BY <1>1, <2>1, BooksTypes DEF Gateway, GatewayRaises, Results
<1>3. \E s \in Saga : GoesOn(t, s)
  <2>1. ASSUME NEW result \in Results, Gateway(t, result)
        PROVE  \E s \in Saga : GoesOn(t, s)
    <3>1. PICK s : s = [pc |-> "charged", rid |-> saga[t].rid, key |-> saga[t].key, result |-> result]
      OBVIOUS
    <3>2. s \in Saga
      BY <1>1, <3>1, ChargingSagaType DEF Saga
    <3> QED
      BY <2>1, <3>1, <3>2 DEF Gateway
  <2>2. CASE GatewayRaises(t)
    <3>1. [pc |-> "failing", error |-> "GatewayError"] \in Saga
      BY DEF Saga
    <3> QED
      BY <2>2, <3>1 DEF GatewayRaises
  <2> QED
    BY <2>1, <2>2
<1>4. SagaTypes'
  BY <1>1, <1>2, <1>3 DEF SagaTypes, GoesOn
<1> QED
  BY <1>1, <1>4 DEF MemoryTypes, memory

\* The attempt is recorded.
LEMMA RecordedTypes ==
  ASSUME CheckoutTypeOK, NEW t \in Threads, Settle(t) \/ Quarantine(t)
  PROVE  SagaTypes' /\ MemoryTypes'
<1> USE CheckoutTypeParts
<1>1. At(t, "charged")
  BY DEF Settle, Quarantine
<1>2. DOMAIN attempts' \subseteq PayKeys /\ attempts' \in [DOMAIN attempts' -> Attempt]
  <2>1. PICK k, a : k = saga[t].key /\ a = [rid |-> saga[t].rid, status |-> saga[t].result]
    OBVIOUS
  <2>2. k \in PayKeys /\ a \in Attempt
    BY <1>1, <2>1, ChargedSagaType
  <2>3. attempts' = With(attempts, k, a)
    BY <2>1 DEF Settle, Quarantine, Recorded
  <2> QED
    BY <2>2, <2>3, WithType DEF MemoryTypes
<1>3. CASE Settle(t)
  <2>1. PICK s : s = [saga[t] EXCEPT !.pc = "settling"]
    OBVIOUS
  <2>2. s \in Saga
    BY <1>1, <2>1, ChargedSagaType
  <2>3. GoesOn(t, s) /\ UNCHANGED <<charges, restarts, payment_events, tickets, deliveries>>
    BY <1>3, <2>1 DEF Settle
  <2>4. SagaTypes'
    BY <2>2, <2>3, SagaMoves
  <2> QED
    BY <1>2, <2>3, <2>4 DEF MemoryTypes
<1>4. CASE Quarantine(t)
  <2>1. PICK s : s = AttemptReply(t)
    OBVIOUS
  <2>2. s \in Saga
    BY <1>1, <2>1, ChargedSagaType
  <2>3. GoesOn(t, s) /\ UNCHANGED <<charges, restarts, tickets, deliveries>>
    BY <1>4, <2>1 DEF Quarantine
  <2>4. SagaTypes'
    BY <2>2, <2>3, SagaMoves
  <2>5. PICK k : k = saga[t].key
    OBVIOUS
  <2>6. k \in PayKeys /\ payment_events' = payment_events \cup {<<"PaymentPendingReconciliation", k>>}
    BY <1>1, <1>4, <2>5, ChargedSagaType DEF Quarantine
  <2> QED
    BY <1>2, <2>3, <2>4, <2>6 DEF MemoryTypes
<1> QED
  BY <1>3, <1>4

\* Tickets and deliveries.
LEMMA PaidTypes ==
  ASSUME CheckoutTypeOK, NEW t \in Threads, PaymentSucceeded(t) \/ PaymentFailed(t),
         saga[t].rid \in ReservationIds
  PROVE  SagaTypes' /\ MemoryTypes'
<1> USE CheckoutTypeParts
<1>1. At(t, "settling") /\ GoesOn(t, AttemptReply(t)) /\ UNCHANGED <<charges, attempts, restarts>>
  BY DEF PaymentSucceeded, PaymentFailed, NestedCallEnds
<1>2. SagaTypes' /\ saga[t].key \in PayKeys
  BY <1>1, ChargedSagaType, SagaMoves
<1>3. PICK r, k : r = saga[t].rid /\ k = saga[t].key
  OBVIOUS
<1>4. r \in ReservationIds /\ k \in PayKeys
  BY <1>2, <1>3
<1>5. /\ <<"TicketIssued", r>> \in {"TicketIssued", "PaymentFailed"} \X ReservationIds
      /\ <<"PaymentFailed", r>> \in {"TicketIssued", "PaymentFailed"} \X ReservationIds
  BY <1>4
<1>6. CASE PaymentSucceeded(t)
  <2>1. /\ payment_events' = payment_events \cup {<<"PaymentSucceeded", k>>}
        /\ Issue(r, k)
    BY <1>3, <1>6 DEF PaymentSucceeded
  <2>2. CASE r \in DOMAIN tickets
    <3>1. UNCHANGED <<tickets, deliveries>>
      BY <2>1, <2>2 DEF Issue
    <3> QED
      BY <1>1, <1>2, <1>4, <2>1, <3>1 DEF MemoryTypes
  <2>3. CASE r \notin DOMAIN tickets
    <3>1. /\ tickets' = With(tickets, r, k)
          /\ deliveries' = Append(deliveries, <<"TicketIssued", r>>)
      BY <2>1, <2>3 DEF Issue
    <3>2. DOMAIN tickets' \subseteq ReservationIds /\ tickets' \in [DOMAIN tickets' -> PayKeys]
      BY <1>4, <3>1, WithType DEF MemoryTypes
    <3>3. deliveries' \in Seq({"TicketIssued", "PaymentFailed"} \X ReservationIds)
      BY <1>5, <3>1, AppendType DEF MemoryTypes
    <3> QED
      BY <1>1, <1>2, <1>4, <2>1, <3>2, <3>3 DEF MemoryTypes
  <2> QED
    BY <2>2, <2>3
<1>7. CASE PaymentFailed(t)
  <2>1. /\ payment_events' = payment_events \cup {<<"PaymentFailed", k>>}
        /\ deliveries' = Append(deliveries, <<"PaymentFailed", r>>)
        /\ UNCHANGED tickets
    BY <1>3, <1>7 DEF PaymentFailed
  <2>2. deliveries' \in Seq({"TicketIssued", "PaymentFailed"} \X ReservationIds)
    BY <1>5, <2>1, AppendType DEF MemoryTypes
  <2> QED
    BY <1>1, <1>2, <1>4, <2>1, <2>2 DEF MemoryTypes
<1> QED
  BY <1>6, <1>7

\* A restart forgets all but the provider's books.
LEMMA RestartTypes ==
  ASSUME CheckoutTypeOK, Restart
  PROVE  SagaTypes' /\ MemoryTypes'
<1> USE CheckoutTypeParts
<1>1. NoSaga \in Saga
  BY DEF Saga
<1>2. SagaTypes'
  <2>1. restarts' \in 0 .. MaxRestarts
    BY MaxRestartsAssumption DEF Restart, SagaTypes
  <2>2. saga' \in [Threads -> Saga] /\ charges' = charges
    BY <1>1 DEF Restart
  <2> QED
    BY <2>1, <2>2 DEF SagaTypes
<1>3. MemoryTypes'
  BY EmptyType DEF Restart, MemoryTypes
<1> QED
  BY <1>2, <1>3

\* Every step keeps the types.
LEMMA CheckoutTypeStep ==
  ASSUME ServiceInv, SagasOK, CheckoutTypeOK, [CheckoutNext]_allVars
  PROVE  CheckoutTypeOK'
<1>0. TypeOK' /\ SagaTypes' /\ MemoryTypes' => CheckoutTypeOK'
  BY DEF CheckoutTypeOK, SagaTypes, MemoryTypes
<1> USE CheckoutTypeParts
<1>1. TypeOK'
  BY ServiceKept DEF ServiceInv
<1>2. CASE ReservationStep \/ UNCHANGED allVars
  <2>1. UNCHANGED <<saga, charges, restarts>> /\ UNCHANGED memory
    BY <1>2 DEF ReservationStep, allVars, checkoutVars
  <2>2. SagaTypes'
    BY <2>1 DEF SagaTypes
  <2>3. MemoryTypes'
    BY <2>1 DEF MemoryTypes, memory
  <2> QED
    BY <1>0, <1>1, <2>2, <2>3
<1>3. ASSUME NEW t \in Threads, PaymentSucceeded(t) \/ PaymentFailed(t)
      PROVE  saga[t].rid \in ReservationIds
  <2>1. At(t, "settling") /\ call[t].pc = "return"
    BY <1>3 DEF PaymentSucceeded, PaymentFailed, NestedCallEnds
  <2>2. saga[t].rid \in Stored
    BY <2>1 DEF At, SagasOK, Nested, Settled
  <2> QED
    BY <2>2 DEF TypeOK, Stored
<1>4. SUFFICES ASSUME CheckoutNext, ~ReservationStep
               PROVE  SagaTypes' /\ MemoryTypes'
  BY <1>0, <1>1, <1>2
<1>5. ASSUME NEW t \in Threads,
             \/ \E r \in Known : BeginCheckout(t, r)
             \/ CheckoutRepeated(t) \/ CheckoutEntered(t)
             \/ SettlementRefused(t) \/ CheckoutEnds(t)
      PROVE  SagaTypes' /\ MemoryTypes'
  BY <1>5, QuietTypes
<1>6. ASSUME NEW t \in Threads, (\E result \in Results : Gateway(t, result)) \/ GatewayRaises(t)
      PROVE  SagaTypes' /\ MemoryTypes'
  BY <1>6, GatewayTypes
<1>7. ASSUME NEW t \in Threads, Settle(t) \/ Quarantine(t)
      PROVE  SagaTypes' /\ MemoryTypes'
  BY <1>7, RecordedTypes
<1>8. ASSUME NEW t \in Threads, PaymentSucceeded(t) \/ PaymentFailed(t)
      PROVE  SagaTypes' /\ MemoryTypes'
  BY <1>3, <1>8, PaidTypes
<1> QED
  BY <1>4, <1>5, <1>6, <1>7, <1>8, RestartTypes DEF CheckoutNext, SagaStep

-----------------------------------------------------------------------------
(* The checkouts. *)

\* The other threads see nothing of what thread t does.
Acts(t) == \A u \in Threads \ {t} : saga'[u] = saga[u] /\ call'[u] = call[u]

\* The provider's books are only added to.
ChargesGrow ==
  \A k \in PayKeys : \A i \in DOMAIN charges[k] :
    i \in DOMAIN charges'[k] /\ charges'[k][i] = charges[k][i]

\* The provider books a call that a checkout is making.
LEMMA WhoBooks ==
  ASSUME [CheckoutNext]_allVars
  PROVE  \/ UNCHANGED charges
         \/ \E t \in Threads, result \in Results : At(t, "charging") /\ Books(t, result)
BY DEF CheckoutNext, allVars, checkoutVars, ReservationStep, Restart, SagaStep, BeginCheckout,
       CheckoutRepeated, CheckoutEntered, Gateway, GatewayRaises, Results, Settle, Quarantine,
       PaymentSucceeded, PaymentFailed, SettlementRefused, NestedCallEnds, CheckoutEnds

\* The provider only adds to its books.
LEMMA BooksGrow ==
  ASSUME CheckoutTypeOK, [CheckoutNext]_allVars
  PROVE  ChargesGrow
<1>1. CASE UNCHANGED charges
  BY <1>1 DEF ChargesGrow
<1>2. ASSUME NEW t \in Threads, NEW result \in Results, At(t, "charging"), Books(t, result)
      PROVE  ChargesGrow
  <2>1. PICK n, e : n = saga[t].key /\ e = [rid |-> saga[t].rid, result |-> result]
    OBVIOUS
  <2>2. charges' = [charges EXCEPT ![n] = Append(charges[n], e)]
    BY <1>2, <2>1 DEF Books
  <2>3. SUFFICES ASSUME NEW k \in PayKeys, NEW i \in DOMAIN charges[k]
                 PROVE  i \in DOMAIN charges'[k] /\ charges'[k][i] = charges[k][i]
    BY DEF ChargesGrow
  <2>4. PICK T : T = [rid : Ids, result : Results]
    OBVIOUS
  <2>5. charges[k] \in Seq(T) /\ DOMAIN charges = PayKeys
    BY <2>4 DEF CheckoutTypeOK
  <2>6. e \in T
    BY <1>2, <2>1, <2>4, ChargingSagaType, CheckoutTypeParts
  <2>7. CASE k = n
    BY <2>2, <2>5, <2>6, <2>7, AppendType
  <2>8. CASE k # n
    BY <2>2, <2>5, <2>8
  <2> QED
    BY <2>7, <2>8
<1> QED
  BY <1>1, <1>2, WhoBooks

\* What a checkout has done, it has done.
LEMMA UnderwayStays ==
  ASSUME NEW t \in Threads, CheckoutTypeOK, Underway(saga[t]), saga'[t] = saga[t],
         Known \subseteq Known', ChargesGrow,
         saga[t].pc \in Holding =>
           /\ DOMAIN attempts' = DOMAIN attempts
           /\ \A k \in DOMAIN attempts : attempts'[k] = attempts[k]
  PROVE  Underway(saga[t])'
<1>1. PICK s : s = saga[t]
  OBVIOUS
<1>2. Underway(s) /\ s \in Saga
  BY <1>1 DEF CheckoutTypeOK
<1>3. s.pc \in {"charged", "settling"} => s.key \in PayKeys
  BY <1>2, SagaKinds
<1>4. ASSUME Booked(s.key, s.rid, s.result), s.key \in PayKeys
      PROVE  Booked(s.key, s.rid, s.result)'
  BY <1>4 DEF Booked, ChargesGrow
<1>5. Underway(s)'
  BY <1>1, <1>2, <1>3, <1>4 DEF Underway, Holding
<1> QED
  BY <1>1, <1>5

\* Nobody gets a row that clients do not know of.
LEMMA RowsOfKnown ==
  ASSUME ServiceInv, SagasOK, [CheckoutNext]_allVars, NEW r \in Known, r \in Stored'
  PROVE  r \in Stored
<1>1. r \in Stored \/ r = UnknownId
  BY KnownStays
<1>2. Stored' \subseteq ReservationIds
  BY ServiceKept DEF ServiceInv, TypeOK, Stored
<1> QED
  BY <1>1, <1>2, UnknownIdAssumption

\* A call that did not move still stands where its checkout needs it.
LEMMA NestedStays ==
  ASSUME ServiceInv, SagasOK, [CheckoutNext]_allVars, NEW t \in Threads,
         saga'[t] = saga[t], call'[t] = call[t]
  PROVE  Nested(call[t], saga[t])'
<1>1. PICK c, s : c = call[t] /\ s = saga[t]
  OBVIOUS
<1>2. Nested(c, s) /\ Underway(s)
  BY <1>1 DEF SagasOK
<1>3. TablesStep /\ TablesOK
  BY CheckoutTables DEF ServiceInv, Integrity
<1>4. Settled(s.rid, s.result) => Settled(s.rid, s.result)'
  BY <1>3, RowsKept DEF Settled
<1>5. ASSUME s.pc = "settling", s.rid \in Stored', s.rid \in Stored => reservations[s.rid].status = "CONFIRMED"
      PROVE  reservations'[s.rid].status = "CONFIRMED"
  <2>1. s.rid \in Known
    BY <1>2, <1>5 DEF Underway, Holding
  <2>2. s.rid \in Stored
    BY <1>5, <2>1, RowsOfKnown
  <2> QED
    BY <1>3, <1>5, <2>2, RowsKept
<1>6. Nested(c, s)'
  BY <1>2, <1>4, <1>5 DEF Nested
<1> QED
  BY <1>1, <1>6

\* A step of thread t keeps the checkouts in order if it does so for t, if t
\* is alone with the lock when it has it, and if only its holder records.
LEMMA SagasFrame ==
  ASSUME CheckoutInv, [CheckoutNext]_allVars, NEW t \in Threads, Acts(t),
         Underway(saga[t])', Nested(call[t], saga[t])',
         saga'[t].pc \in Holding => \A u \in Threads \ {t} : saga[u].pc \notin Holding,
         attempts' = attempts \/ saga[t].pc \in Holding
  PROVE  SagasOK'
<1> USE DEF CheckoutInv
<1>1. Exclusive'
  BY DEF Exclusive, Acts, SagasOK
<1>2. ASSUME NEW u \in Threads \ {t}
      PROVE  Underway(saga[u])' /\ Nested(call[u], saga[u])'
  <2>1. saga'[u] = saga[u] /\ call'[u] = call[u]
    BY <1>2 DEF Acts
  <2>2. saga[u].pc \in Holding => attempts' = attempts
    BY <1>2 DEF SagasOK, Exclusive
  <2>3. Underway(saga[u])'
    BY <2>1, <2>2, UnderwayStays, KnownStays, BooksGrow DEF SagasOK
  <2> QED
    BY <2>1, <2>3, NestedStays
<1> QED
  BY <1>1, <1>2 DEF SagasOK

\* Where a step of a call leads, as far as the checkout on its thread cares.
LEMMA StepNested ==
  ASSUME ServiceInv, SagasOK, [CheckoutNext]_allVars, NEW t \in Threads,
         Step(t), saga'[t] = saga[t]
  PROVE  Nested(call[t], saga[t])'
<1>1. PICK c, s, d : c = call[t] /\ s = saga[t] /\ d = call'[t]
  OBVIOUS
<1>2. Nested(c, s) /\ c \in Call /\ call \in [Threads -> Call]
  BY <1>1 DEF SagasOK, ServiceInv, TypeOK
<1>3. TablesStep /\ TablesOK
  BY CheckoutTables DEF ServiceInv, Integrity
<1>4. Settled(s.rid, s.result) => Settled(s.rid, s.result)'
  BY <1>3, RowsKept DEF Settled
<1>5. SUFFICES Nested(d, s)'
  BY <1>1
<1>6. ASSUME s.pc # "settling", d.pc \in {"raise", "publish", "get", "get_seats", "return",
                                          "return_seats", "read_seats"}
      PROVE  Nested(d, s)'
  BY <1>6 DEF Nested
<1>7. CASE LockSeats(t)
  <2>1. c.pc = "lock_seats"
    BY <1>1, <1>7 DEF LockSeats, LockSeatsRetried, LockSeatsRefused, LockSeatsGranted
  <2>2. CASE LockSeatsRetried(t)
    <3>1. \E r, R : call' = [call EXCEPT ![t] = Reply(r, c.key, R)]
      BY <1>1, <2>2 DEF LockSeatsRetried, Committed
    <3>2. d.pc = "return"
      BY <1>1, <1>2, <3>1 DEF Reply
    <3> QED
      BY <1>2, <1>6, <2>1, <3>2 DEF Nested
  <2>3. CASE LockSeatsRefused(t)
    <3>1. call' = [call EXCEPT ![t] = Raise("LockConflict")]
      BY <2>3 DEF LockSeatsRefused, Continue
    <3>2. d.pc = "raise"
      BY <1>1, <1>2, <3>1 DEF Raise
    <3> QED
      BY <1>2, <1>6, <2>1, <3>2 DEF Nested
  <2>4. CASE LockSeatsGranted(t)
    <3>1. \E r : call' = [call EXCEPT ![t] = Publish("ReservationCreated", r, c.key)]
      BY <1>1, <2>4 DEF LockSeatsGranted, Committed
    <3>2. d.pc = "publish"
      BY <1>1, <1>2, <3>1 DEF Publish
    <3> QED
      BY <1>2, <1>6, <2>1, <3>2 DEF Nested
  <2> QED
    BY <1>7, <2>2, <2>3, <2>4 DEF LockSeats
<1>8. CASE ExpireDue(t) \/ Announce(t)
  BY <1>1, <1>2, <1>8 DEF ExpireDue, Announce, Nested
<1>9. CASE SeatStatuses(t) \/ ReadSeats(t)
  <2>1. c.pc \in {"seat_statuses", "read_seats"}
    BY <1>1, <1>9 DEF SeatStatuses, ReadSeats
  <2>2. d.pc \in {"read_seats", "return_seats"}
    BY <1>1, <1>2, <1>9 DEF SeatStatuses, ReadSeats, Committed, Continue
  <2> QED
    BY <1>2, <1>6, <2>1, <2>2 DEF Nested
<1>10. CASE Confirm(t)
  <2>1. c.pc = "confirm"
    BY <1>1, <1>10 DEF Confirm, ConfirmUnknown, ConfirmAgain, ConfirmOverdue, ConfirmRefused, ConfirmGranted
  <2>2. s.pc = "settling" /\ s.result = "SUCCEEDED" /\ c.rid = s.rid
    BY <1>2, <2>1 DEF Nested
  <2>3. \/ d = Raise("ReservationNotFound") \/ d = Raise("InvalidReservationState")
        \/ /\ d = Reply(c.rid, NoKey, {})
           /\ c.rid \in Stored /\ reservations[c.rid].status = "CONFIRMED"
        \/ /\ d = Publish("ReservationConfirmed", c.rid, NoKey)
           /\ c.rid \in Stored /\ reservations' = WithStatus({c.rid}, "CONFIRMED")
    BY <1>1, <1>2, <1>10 DEF Confirm, ConfirmUnknown, ConfirmAgain, ConfirmOverdue, ConfirmRefused,
       ConfirmGranted, Continue, Committed
  <2>4. CASE d.pc = "raise"
    BY <2>2, <2>4 DEF Nested
  <2>5. CASE d = Reply(c.rid, NoKey, {}) /\ c.rid \in Stored /\ reservations[c.rid].status = "CONFIRMED"
    <3>1. d.pc = "return" /\ d.rid = s.rid
      BY <2>2, <2>5 DEF Reply
    <3>2. Settled(s.rid, s.result)'
      BY <1>4, <2>2, <2>5 DEF Settled
    <3> QED
      BY <2>2, <3>1, <3>2 DEF Nested
  <2>6. CASE d = Publish("ReservationConfirmed", c.rid, NoKey)
             /\ c.rid \in Stored /\ reservations' = WithStatus({c.rid}, "CONFIRMED")
    <3>1. d.pc = "publish" /\ d.rid = s.rid
      BY <2>2, <2>6 DEF Publish
    <3>2. Stored' = Stored /\ reservations'[s.rid].status = "CONFIRMED"
      BY <1>3, <2>2, <2>6, RowIsWritten DEF WithStatus, Stored, Statuses
    <3>3. Settled(s.rid, s.result)'
      BY <2>2, <2>6, <3>2 DEF Settled
    <3> QED
      BY <2>2, <3>1, <3>3 DEF Nested
  <2> QED
    BY <2>3, <2>4, <2>5, <2>6 DEF Raise
<1>11. CASE Release(t)
  <2>1. c.pc = "release"
    BY <1>1, <1>11 DEF Release, ReleaseUnknown, ReleaseRefused, ReleaseHeld, ReleaseAgain
  <2>2. s.pc = "settling" /\ s.result = "FAILED" /\ c.rid = s.rid
    BY <1>2, <2>1 DEF Nested
  <2>3. \/ /\ d = Raise("ReservationNotFound") \/ d = Raise("InvalidReservationState")
           /\ c.rid \in Stored => reservations[c.rid].status = "CONFIRMED"
           /\ reservations' = reservations
        \/ /\ d = Publish("ReservationReleased", c.rid, NoKey)
           /\ c.rid \in Stored /\ reservations' = WithStatus({c.rid}, "CANCELLED")
        \/ /\ d = Publish("ReservationReleased", c.rid, NoKey)
           /\ c.rid \in Stored /\ reservations[c.rid].status \in {"EXPIRED", "CANCELLED"}
    BY <1>1, <1>2, <1>11 DEF Release, ReleaseUnknown, ReleaseRefused, ReleaseHeld, ReleaseAgain,
       Continue, Committed, tables
  <2>4. CASE /\ d = Raise("ReservationNotFound") \/ d = Raise("InvalidReservationState")
             /\ c.rid \in Stored => reservations[c.rid].status = "CONFIRMED"
             /\ reservations' = reservations
    BY <2>2, <2>4 DEF Nested, Raise, Stored
  <2>5. CASE d = Publish("ReservationReleased", c.rid, NoKey)
             /\ c.rid \in Stored /\ reservations' = WithStatus({c.rid}, "CANCELLED")
    <3>1. d.pc = "publish" /\ d.rid = s.rid
      BY <2>2, <2>5 DEF Publish
    <3>2. Stored' = Stored /\ reservations'[s.rid].status = "CANCELLED"
      BY <1>3, <2>2, <2>5, RowIsWritten DEF WithStatus, Stored, Statuses
    <3>3. Settled(s.rid, s.result)'
      BY <2>2, <2>5, <3>2 DEF Settled
    <3> QED
      BY <2>2, <3>1, <3>3 DEF Nested
  <2>6. CASE d = Publish("ReservationReleased", c.rid, NoKey)
             /\ c.rid \in Stored /\ reservations[c.rid].status \in {"EXPIRED", "CANCELLED"}
    <3>1. d.pc = "publish" /\ d.rid = s.rid
      BY <2>2, <2>6 DEF Publish
    <3>2. Settled(s.rid, s.result)'
      BY <1>4, <2>2, <2>6 DEF Settled
    <3> QED
      BY <2>2, <3>1, <3>2 DEF Nested
  <2> QED
    BY <2>3, <2>4, <2>5, <2>6
<1>12. CASE PublishEvent(t) \/ Get(t)
  <2>1. c.pc \in {"publish", "get", "get_seats"}
    BY <1>1, <1>12 DEF PublishEvent, Get, GetUnknown, GetRow, GetSeats
  <2>2. \/ d.pc \in {"get", "get_seats", "return"} /\ d.rid = c.rid
        \/ d.pc = "raise" /\ c.rid \notin Stored
    BY <1>1, <1>2, <1>12 DEF PublishEvent, Get, GetUnknown, GetRow, GetSeats, Continue, Raise
  <2>3. CASE s.pc # "settling"
    BY <1>6, <2>2, <2>3
  <2>4. CASE s.pc = "settling"
    <3>1. c.rid = s.rid /\ Settled(s.rid, s.result)
      BY <1>2, <2>1, <2>4 DEF Nested
    <3>2. d.pc \in {"get", "get_seats", "return"} /\ d.rid = s.rid
      BY <2>2, <3>1 DEF Settled
    <3> QED
      BY <1>4, <2>4, <3>1, <3>2 DEF Nested
  <2> QED
    BY <2>3, <2>4
<1> QED
  BY <1>7, <1>8, <1>9, <1>10, <1>11, <1>12 DEF Step

\* A thread moves its own call.
LEMMA OneThreadMoves ==
  ASSUME call \in [Threads -> Call], NEW t \in Threads, Step(t) \/ BeginRequest(t) \/ Return(t)
  PROVE  \A u \in Threads \ {t} : call'[u] = call[u]
<1>1. ASSUME BeginRequest(t) \/ Return(t)
      PROVE  \E c : call' = [call EXCEPT ![t] = c]
  BY <1>1 DEF BeginRequest, BeginLockSeats, BeginGet, BeginSeatStatuses, Begin, Continue, Return
<1>2. ASSUME LockSeats(t) \/ Confirm(t) \/ Release(t)
      PROVE  \E c : call' = [call EXCEPT ![t] = c]
  BY <1>2 DEF LockSeats, LockSeatsRetried, LockSeatsRefused, LockSeatsGranted,
     Confirm, ConfirmUnknown, ConfirmAgain, ConfirmOverdue, ConfirmRefused, ConfirmGranted,
     Release, ReleaseUnknown, ReleaseRefused, ReleaseHeld, ReleaseAgain, Continue, Committed
<1>3. ASSUME ExpireDue(t) \/ SeatStatuses(t) \/ ReadSeats(t) \/ PublishEvent(t) \/ Get(t)
      PROVE  \E c : call' = [call EXCEPT ![t] = c]
  BY <1>3 DEF ExpireDue, SeatStatuses, ReadSeats, PublishEvent, Get, GetUnknown, GetRow, GetSeats,
     Continue, Committed
<1>4. ASSUME Announce(t)
      PROVE  \A u \in Threads \ {t} : call'[u] = call[u]
  BY <1>4 DEF Announce
<1> QED
  BY <1>1, <1>2, <1>3, <1>4 DEF Step

\* One step of a reservation call, on any thread.
LEMMA ReservationSagas ==
  ASSUME CheckoutInv, ReservationStep
  PROVE  SagasOK'
<1> USE DEF CheckoutInv
<1>1. [CheckoutNext]_allVars /\ UNCHANGED <<saga, attempts>>
  BY DEF CheckoutNext, ReservationStep, checkoutVars, memory
<1>2. ASSUME NEW t \in Threads
      PROVE  Underway(saga[t])'
  BY <1>1, UnderwayStays, KnownStays, BooksGrow DEF SagasOK
<1>3. Exclusive'
  BY <1>1 DEF Exclusive, SagasOK
<1>4. ASSUME NEW t \in Threads, call'[t] = call[t]
      PROVE  Nested(call[t], saga[t])'
  BY <1>1, <1>4, NestedStays
<1>5. ASSUME NEW t \in Threads, Step(t)
      PROVE  Nested(call[t], saga[t])'
  BY <1>1, <1>5, StepNested
<1>6. call \in [Threads -> Call]
  BY DEF ServiceInv, TypeOK
<1>7. ASSUME NEW t \in Threads, At(t, "none"), BeginRequest(t) \/ Return(t)
      PROVE  Nested(call[t], saga[t])'
  <2>1. call'[t].pc \in {"lock_seats", "raise", "get", "seat_statuses", "idle"}
    BY <1>6, <1>7 DEF BeginRequest, BeginLockSeats, BeginGet, BeginSeatStatuses, Begin, Continue,
       Return, Idle, Raise
  <2>2. saga'[t].pc = "none"
    BY <1>1, <1>7 DEF At
  <2> QED
    BY <2>1, <2>2 DEF Nested
<1>8. ASSUME NEW t \in Threads, Step(t) \/ BeginRequest(t) \/ Return(t), NEW u \in Threads \ {t}
      PROVE  call'[u] = call[u]
  BY <1>6, <1>8, OneThreadMoves
<1>9. ASSUME NEW t \in Threads
      PROVE  Nested(call[t], saga[t])'
  <2>1. CASE Tick
    BY <1>4, <2>1 DEF Tick
  <2>2. ASSUME NEW u \in Threads, (At(u, "none") /\ (BeginRequest(u) \/ Return(u))) \/ Step(u)
        PROVE  Nested(call[t], saga[t])'
    <3>1. CASE u = t
      BY <1>5, <1>7, <2>2, <3>1
    <3>2. CASE u # t
      BY <1>4, <1>8, <2>2, <3>2
    <3> QED
      BY <3>1, <3>2
  <2> QED
    BY <2>1, <2>2 DEF ReservationStep
<1> QED
  BY <1>2, <1>3, <1>9 DEF SagasOK

\* The steps of a checkout that leave the reservation call of its thread alone.
LEMMA QuietSagas ==
  ASSUME CheckoutInv, CheckoutNext, NEW t \in Threads,
         \/ \E r \in Known : BeginCheckout(t, r)
         \/ CheckoutRepeated(t) \/ CheckoutEntered(t)
         \/ \E result \in Results : Gateway(t, result)
         \/ GatewayRaises(t) \/ Quarantine(t) \/ CheckoutEnds(t)
  PROVE  SagasOK'
<1> USE DEF CheckoutInv
<1>1. saga \in [Threads -> Saga] /\ call \in [Threads -> Call] /\ UNCHANGED vars /\ call' = call
  BY DEF CheckoutTypeOK, ServiceInv, TypeOK, vars, BeginCheckout, CheckoutRepeated, CheckoutEntered,
         Gateway, GatewayRaises, Quarantine, CheckoutEnds
<1>2. PICK s : s = saga'[t]
  OBVIOUS
<1>3. Known' = Known
  BY <1>1 DEF Known, vars
<1>4. PICK o, c : o = saga[t] /\ c = call[t]
  OBVIOUS
<1>5. Underway(o) /\ Nested(c, o) /\ o \in Saga
  BY <1>1, <1>4 DEF SagasOK
<1>6. SUFFICES /\ Acts(t) /\ Underway(s)' /\ Nested(c, s)'
               /\ s.pc \in Holding => \A u \in Threads \ {t} : saga[u].pc \notin Holding
               /\ attempts' = attempts \/ o.pc \in Holding
  BY <1>1, <1>2, <1>4, SagasFrame
<1>7. ASSUME GoesOn(t, s)
      PROVE  Acts(t)
  BY <1>1, <1>7 DEF Acts, GoesOn
<1>8. ASSUME s.pc \in {"none", "replying", "failing"}
      PROVE  Underway(s)'
  BY <1>8 DEF Underway, Holding
<1>9. ASSUME o.pc # "settling", s.pc # "settling"
      PROVE  Nested(c, s)'
  BY <1>5, <1>9 DEF Nested
<1>10. ASSUME NEW r \in Known, BeginCheckout(t, r)
       PROVE  /\ Acts(t) /\ Underway(s)' /\ Nested(c, s)'
              /\ s.pc \in Holding => \A u \in Threads \ {t} : saga[u].pc \notin Holding
              /\ attempts' = attempts \/ o.pc \in Holding
  <2>1. GoesOn(t, s) /\ attempts' = attempts /\ o.pc = "none"
    BY <1>1, <1>2, <1>4, <1>10 DEF BeginCheckout, GoesOn, At, memory
  <2>2. s.pc = "failing" \/ (s.pc = "waiting" /\ s.rid = r)
    <3>1. ASSUME NEW k, GoesOn(t, [pc |-> "waiting", rid |-> r, key |-> k])
          PROVE  s.pc = "waiting" /\ s.rid = r
      BY <1>1, <1>2, <3>1 DEF GoesOn
    <3>2. ASSUME GoesOn(t, [pc |-> "failing", error |-> "ValueError"])
          PROVE  s.pc = "failing"
      BY <1>1, <1>2, <3>2 DEF GoesOn
    <3> QED
      BY <1>10, <3>1, <3>2 DEF BeginCheckout
  <2>3. Underway(s)'
    BY <1>3, <1>8, <2>2 DEF Underway, Holding
  <2> QED
    BY <1>7, <1>9, <2>1, <2>2, <2>3 DEF Holding
<1>11. CASE CheckoutRepeated(t)
  <2>1. GoesOn(t, s) /\ attempts' = attempts /\ o.pc = "waiting" /\ s.pc = "replying"
    BY <1>1, <1>2, <1>4, <1>11 DEF CheckoutRepeated, GoesOn, At, memory
  <2> QED
    BY <1>7, <1>8, <1>9, <2>1 DEF Holding
<1>12. CASE CheckoutEntered(t)
  <2>1. GoesOn(t, s) /\ attempts' = attempts /\ o.pc = "waiting" /\ s = [o EXCEPT !.pc = "charging"]
    BY <1>1, <1>2, <1>4, <1>12 DEF CheckoutEntered, GoesOn, At, memory
  <2>2. o \in [pc : {"waiting", "charging"}, rid : Ids, key : PayKeys]
    BY <1>5, <2>1, SagaKinds
  <2>3. s.pc = "charging" /\ s.rid = o.rid /\ s.key = o.key
    BY <2>1, <2>2
  <2>4. o.key \notin DOMAIN attempts /\ ~LockHeld
    BY <1>4, <1>12 DEF CheckoutEntered
  <2>5. Underway(s)'
    BY <1>3, <1>5, <2>1, <2>3, <2>4 DEF Underway, Holding
  <2> QED
    BY <1>7, <1>9, <2>1, <2>3, <2>4, <2>5 DEF Holding, LockHeld
<1>13. ASSUME NEW result \in Results, Gateway(t, result)
       PROVE  /\ Acts(t) /\ Underway(s)' /\ Nested(c, s)'
              /\ s.pc \in Holding => \A u \in Threads \ {t} : saga[u].pc \notin Holding
              /\ attempts' = attempts \/ o.pc \in Holding
  <2>1. /\ GoesOn(t, s) /\ attempts' = attempts /\ o.pc = "charging"
        /\ s = [pc |-> "charged", rid |-> o.rid, key |-> o.key, result |-> result]
    BY <1>1, <1>2, <1>4, <1>13 DEF Gateway, GoesOn, At, memory
  <2>2. o.rid \in Ids /\ o.key \in PayKeys
    BY <1>4, <1>13, ChargingSagaType, CheckoutTypeParts DEF Gateway
  <2>3. s.pc = "charged" /\ s.rid = o.rid /\ s.key = o.key /\ s.result = result
    BY <2>1
  <2>4. Booked(s.key, s.rid, s.result)'
    <3>1. PICK e : e = [rid |-> o.rid, result |-> result]
      OBVIOUS
    <3>2. charges' = [charges EXCEPT ![o.key] = Append(charges[o.key], e)]
      BY <1>4, <1>13, <3>1 DEF Gateway, Books
    <3>3. PICK T : T = [rid : Ids, result : Results]
      OBVIOUS
    <3>4. charges[o.key] \in Seq(T) /\ DOMAIN charges = PayKeys /\ e \in T
      BY <2>2, <3>1, <3>3 DEF CheckoutTypeOK
    <3>5. PICK i : i \in DOMAIN charges'[o.key] /\ charges'[o.key][i] = e
      BY <2>2, <3>2, <3>4, AppendType
    <3> QED
      BY <2>3, <3>1, <3>5 DEF Booked
  <2>5. Underway(s)'
    BY <1>3, <1>5, <2>1, <2>3, <2>4 DEF Underway, Holding
  <2>6. \A u \in Threads \ {t} : saga[u].pc \notin Holding
    BY <1>4, <2>1 DEF SagasOK, Exclusive, Holding
  <2> QED
    BY <1>7, <1>9, <2>1, <2>3, <2>5, <2>6
<1>14. CASE Quarantine(t)
  <2>1. GoesOn(t, s) /\ o.pc = "charged" /\ s.pc = "replying"
    BY <1>1, <1>2, <1>4, <1>14 DEF Quarantine, GoesOn, At, AttemptReply
  <2> QED
    BY <1>7, <1>8, <1>9, <2>1 DEF Holding
<1>15. CASE CheckoutEnds(t)
  <2>1. GoesOn(t, s) /\ attempts' = attempts /\ o.pc \in {"replying", "failing"} /\ s.pc = "none"
    BY <1>1, <1>2, <1>4, <1>15 DEF CheckoutEnds, GoesOn, NoSaga, memory
  <2> QED
    BY <1>7, <1>8, <1>9, <2>1 DEF Holding
<1>16. CASE GatewayRaises(t)
  <2>1. GoesOn(t, s) /\ attempts' = attempts /\ o.pc = "charging" /\ s.pc = "failing"
    BY <1>1, <1>2, <1>4, <1>16 DEF GatewayRaises, GoesOn, At, memory
  <2> QED
    BY <1>7, <1>8, <1>9, <2>1 DEF Holding
<1> QED
  BY <1>10, <1>11, <1>12, <1>13, <1>14, <1>15, <1>16

\* The attempt that is recorded for a key, and the others.
LEMMA RecordedAttempts ==
  ASSUME NEW t, Recorded(t)
  PROVE  /\ DOMAIN attempts' = DOMAIN attempts \cup {saga[t].key}
         /\ attempts'[saga[t].key] = [rid |-> saga[t].rid, status |-> saga[t].result]
         /\ \A k \in DOMAIN attempts : k # saga[t].key => attempts'[k] = attempts[k]
BY DEF Recorded, With

\* The settlement begins.
LEMMA SettleSagas ==
  ASSUME CheckoutInv, CheckoutNext, NEW t \in Threads, Settle(t)
  PROVE  SagasOK'
<1> USE DEF CheckoutInv
<1>1. saga \in [Threads -> Saga] /\ call \in [Threads -> Call]
  BY DEF CheckoutTypeOK, ServiceInv, TypeOK
<1>2. PICK s, o, d : s = saga'[t] /\ o = saga[t] /\ d = call'[t]
  OBVIOUS
<1>3. Underway(o) /\ o \in Saga /\ o.pc = "charged"
  BY <1>1, <1>2 DEF SagasOK, Settle, At
<1>4. o \in [pc : {"charged", "settling"}, rid : Ids, key : PayKeys, result : Results]
  BY <1>3, SagaKinds
<1>5. saga' = [saga EXCEPT ![t] = [o EXCEPT !.pc = "settling"]]
  BY <1>2 DEF Settle, GoesOn
<1>6. s.pc = "settling" /\ s.rid = o.rid /\ s.key = o.key /\ s.result = o.result
  BY <1>1, <1>2, <1>4, <1>5
<1>7. \/ /\ o.result = "SUCCEEDED"
         /\ call' = [call EXCEPT ![t] = [pc |-> "confirm", rid |-> o.rid, now |-> clock]]
      \/ /\ o.result = "FAILED"
         /\ call' = [call EXCEPT ![t] = [pc |-> "release", rid |-> o.rid]]
  BY <1>2 DEF Settle, BeginConfirm, BeginRelease, Begin, Continue
<1>8. answers' = answers /\ charges' = charges
  BY DEF Settle, BeginConfirm, BeginRelease, Begin, Continue
<1>9. Acts(t)
  BY <1>1, <1>5, <1>7 DEF Acts
<1>10. Recorded(t)
  BY DEF Settle
<1>11. /\ s.key \in DOMAIN attempts'
       /\ attempts'[s.key] = [rid |-> s.rid, status |-> s.result]
  BY <1>2, <1>6, <1>10, RecordedAttempts
<1>12. Underway(s)'
  <2>1. Booked(s.key, s.rid, s.result)' /\ s.rid \in Known'
    BY <1>3, <1>6, <1>8 DEF Underway, Booked, Known, Holding
  <2> QED
    BY <1>6, <1>7, <1>11, <2>1 DEF Underway
<1>13. Nested(d, s)'
  <2>1. \/ s.result = "SUCCEEDED" /\ d.pc = "confirm" /\ d.rid = s.rid
        \/ s.result = "FAILED" /\ d.pc = "release" /\ d.rid = s.rid
    BY <1>1, <1>2, <1>6, <1>7
  <2> QED
    BY <1>6, <2>1 DEF Nested
<1>14. \A u \in Threads \ {t} : saga[u].pc \notin Holding
  BY <1>2, <1>3 DEF SagasOK, Exclusive, Holding
<1>15. saga[t].pc \in Holding
  BY <1>2, <1>3 DEF Holding
<1> QED
  BY <1>2, <1>9, <1>12, <1>13, <1>14, <1>15, SagasFrame

\* The settlement ends.
LEMMA SettledSagas ==
  ASSUME CheckoutInv, CheckoutNext, NEW t \in Threads,
         PaymentSucceeded(t) \/ PaymentFailed(t) \/ SettlementRefused(t)
  PROVE  SagasOK'
<1> USE DEF CheckoutInv
<1>1. saga \in [Threads -> Saga] /\ call \in [Threads -> Call]
  BY DEF CheckoutTypeOK, ServiceInv, TypeOK
<1>2. PICK s, d : s = saga'[t] /\ d = call'[t]
  OBVIOUS
<1>3. call' = [call EXCEPT ![t] = Idle] /\ attempts' = attempts
  BY DEF PaymentSucceeded, PaymentFailed, SettlementRefused, NestedCallEnds
<1>4. saga' = [saga EXCEPT ![t] = s] /\ s.pc \in {"replying", "failing"}
  BY <1>1, <1>2 DEF PaymentSucceeded, PaymentFailed, SettlementRefused, GoesOn, AttemptReply
<1>5. Acts(t) /\ d.pc = "idle"
  BY <1>1, <1>2, <1>3, <1>4 DEF Acts, Idle
<1>6. Underway(s)'
  BY <1>4 DEF Underway, Holding
<1>7. Nested(d, s)'
  BY <1>4, <1>5 DEF Nested
<1>8. saga'[t].pc \notin Holding
  BY <1>2, <1>4 DEF Holding
<1> QED
  BY <1>2, <1>3, <1>5, <1>6, <1>7, <1>8, SagasFrame

\* Every step keeps the checkouts in order.
LEMMA SagasStep ==
  ASSUME CheckoutInv, [CheckoutNext]_allVars
  PROVE  SagasOK'
<1>1. CASE UNCHANGED allVars
  BY <1>1 DEF CheckoutInv, SagasOK, Exclusive, Underway, Booked, Nested, Settled, Known, Stored,
     allVars, vars, checkoutVars, memory
<1>2. CASE Restart
  <2>1. \A t \in Threads : saga'[t].pc = "none" /\ call'[t].pc = "idle"
    BY <1>2 DEF Restart, NoSaga, Idle
  <2>2. \A t \in Threads : Underway(saga[t])'
    BY <2>1 DEF Underway, Holding
  <2>3. \A t \in Threads : Nested(call[t], saga[t])'
    BY <2>1 DEF Nested
  <2> QED
    BY <2>1, <2>2, <2>3 DEF SagasOK, Exclusive, Holding
<1>3. CASE CheckoutNext /\ ~ReservationStep /\ ~Restart
  BY <1>3, QuietSagas, SettleSagas, SettledSagas DEF CheckoutNext, SagaStep
<1> QED
  BY <1>1, <1>2, <1>3, ReservationSagas

-----------------------------------------------------------------------------
(* Attempts. *)

\* What a step may do to the attempts, and to the checkouts that are settling.
LEMMA AttemptsSteps ==
  ASSUME CheckoutInv, [CheckoutNext]_allVars
  PROVE  \/ /\ UNCHANGED <<attempts, restarts>>
            /\ \A u \in Threads : saga'[u].pc = "settling" => saga'[u] = saga[u]
         \/ \E t \in Threads : Settle(t) \/ Quarantine(t)
         \/ Restart
<1> DEFINE Same == /\ UNCHANGED <<attempts, restarts>>
                   /\ \A u \in Threads : saga'[u].pc = "settling" => saga'[u] = saga[u]
<1>1. CASE ReservationStep \/ UNCHANGED allVars
  <2>1. UNCHANGED <<saga, charges, restarts>> /\ UNCHANGED memory
    BY <1>1 DEF ReservationStep, allVars, checkoutVars
  <2> QED
    BY <2>1 DEF memory
<1>2. ASSUME NEW t \in Threads, NEW s, GoesOn(t, s), s.pc # "settling",
             UNCHANGED <<attempts, restarts>>
      PROVE  Same
  <2>1. saga \in [Threads -> Saga] /\ saga' = [saga EXCEPT ![t] = s]
    BY <1>2 DEF CheckoutInv, CheckoutTypeOK, GoesOn
  <2> QED
    BY <1>2, <2>1
<1> HIDE DEF Same
<1>3. ASSUME NEW t \in Threads, NEW r, BeginCheckout(t, r)
      PROVE  Same
  <2>1. UNCHANGED <<attempts, restarts>>
    BY <1>3 DEF BeginCheckout, memory
  <2>2. ASSUME NEW k, GoesOn(t, [pc |-> "waiting", rid |-> r, key |-> k])
        PROVE  Same
    <3>1. PICK s : s = [pc |-> "waiting", rid |-> r, key |-> k]
      OBVIOUS
    <3> QED
      BY <1>2, <2>1, <2>2, <3>1
  <2>3. ASSUME GoesOn(t, [pc |-> "failing", error |-> "ValueError"])
        PROVE  Same
    <3>1. PICK s : s = [pc |-> "failing", error |-> "ValueError"]
      OBVIOUS
    <3> QED
      BY <1>2, <2>1, <2>3, <3>1
  <2> QED
    BY <1>3, <2>2, <2>3 DEF BeginCheckout
<1>4. ASSUME NEW t \in Threads, CheckoutRepeated(t)
      PROVE  Same
  <2>1. PICK s : GoesOn(t, s) /\ s.pc = "replying"
    BY <1>4 DEF CheckoutRepeated
  <2> QED
    BY <1>2, <1>4, <2>1 DEF CheckoutRepeated, At, memory
<1>5. ASSUME NEW t \in Threads, CheckoutEntered(t)
      PROVE  Same
  <2>1. saga[t] \in [pc : {"waiting", "charging"}, rid : Ids, key : PayKeys]
    BY <1>5, SagaKinds DEF CheckoutEntered, At, CheckoutInv, CheckoutTypeOK
  <2>2. PICK s : GoesOn(t, s) /\ s.pc = "charging"
    BY <1>5, <2>1 DEF CheckoutEntered
  <2> QED
    BY <1>2, <1>5, <2>2 DEF CheckoutEntered, At, memory
<1>6. ASSUME NEW t \in Threads, PaymentSucceeded(t) \/ PaymentFailed(t)
      PROVE  Same
  <2>1. PICK s : GoesOn(t, s) /\ s.pc = "replying"
    BY <1>6 DEF PaymentSucceeded, PaymentFailed, AttemptReply
  <2> QED
    BY <1>2, <1>6, <2>1 DEF PaymentSucceeded, PaymentFailed, NestedCallEnds, At
<1>7. ASSUME NEW t \in Threads, SettlementRefused(t)
      PROVE  Same
  <2>1. PICK s : GoesOn(t, s) /\ s.pc = "failing"
    BY <1>7 DEF SettlementRefused
  <2> QED
    BY <1>2, <1>7, <2>1 DEF SettlementRefused, NestedCallEnds, At
<1>8. ASSUME NEW t \in Threads, CheckoutEnds(t)
      PROVE  Same
  <2>1. GoesOn(t, NoSaga) /\ NoSaga.pc = "none"
    BY <1>8 DEF CheckoutEnds, NoSaga
  <2> QED
    BY <1>2, <1>8, <2>1 DEF CheckoutEnds, memory
<1>9. ASSUME NEW t \in Threads, (\E result \in Results : Gateway(t, result)) \/ GatewayRaises(t)
      PROVE  Same
  <2>1. PICK s : GoesOn(t, s) /\ s.pc \in {"charged", "failing"}
    <3>1. CASE GatewayRaises(t)
      BY <3>1 DEF GatewayRaises
    <3>2. ASSUME NEW result \in Results, Gateway(t, result)
          PROVE  \E s : GoesOn(t, s) /\ s.pc \in {"charged", "failing"}
      BY <3>2 DEF Gateway
    <3> QED
      BY <1>9, <3>1, <3>2
  <2>2. UNCHANGED <<attempts, restarts>>
    BY <1>9 DEF Gateway, GatewayRaises, memory
  <2> QED
    BY <1>2, <2>1, <2>2
<1> QED
  BY <1>1, <1>3, <1>4, <1>5, <1>6, <1>7, <1>8, <1>9 DEF CheckoutNext, SagaStep, Same

\* Only a restart forgets an attempt.
LEMMA AttemptsStay ==
  ASSUME CheckoutInv, [CheckoutNext]_allVars, ~Restart
  PROVE  /\ restarts' = restarts
         /\ \A k \in DOMAIN attempts : k \in DOMAIN attempts' /\ attempts'[k] = attempts[k]
<1>1. ASSUME NEW t \in Threads, Settle(t) \/ Quarantine(t)
      PROVE  /\ restarts' = restarts
             /\ \A k \in DOMAIN attempts : k \in DOMAIN attempts' /\ attempts'[k] = attempts[k]
  <2>1. saga[t].key \notin DOMAIN attempts
    BY <1>1 DEF CheckoutInv, SagasOK, Underway, Settle, Quarantine, At
  <2>2. Recorded(t) /\ restarts' = restarts
    BY <1>1 DEF Settle, Quarantine
  <2> QED
    BY <2>1, <2>2, RecordedAttempts
<1> QED
  BY <1>1, AttemptsSteps

\* The reservations that were tried are known.
LEMMA TriedStep ==
  ASSUME CheckoutInv, [CheckoutNext]_allVars
  PROVE  Tried'
<1> USE DEF CheckoutInv
<1>1. Known \subseteq Known'
  BY KnownStays
<1>2. CASE attempts' = attempts
  BY <1>1, <1>2 DEF Tried
<1>3. ASSUME NEW t \in Threads, Settle(t) \/ Quarantine(t)
      PROVE  Tried'
  <2>1. Recorded(t) /\ saga[t].pc = "charged"
    BY <1>3 DEF Settle, Quarantine, At
  <2>2. saga[t].rid \in Known
    BY <2>1 DEF SagasOK, Underway, Holding
  <2>3. ASSUME NEW k \in DOMAIN attempts'
        PROVE  attempts'[k].rid \in Known'
    <3>1. CASE k = saga[t].key
      <4>1. attempts'[k] = [rid |-> saga[t].rid, status |-> saga[t].result]
        BY <2>1, <3>1, RecordedAttempts
      <4> QED
        BY <1>1, <2>2, <4>1
    <3>2. CASE k # saga[t].key
      BY <1>1, <2>1, <2>3, <3>2, RecordedAttempts DEF Tried
    <3> QED
      BY <3>1, <3>2
  <2> QED
    BY <2>3 DEF Tried
<1>4. CASE Restart
  BY <1>4 DEF Restart, Tried, Empty
<1> QED
  BY <1>2, <1>3, <1>4, AttemptsSteps

-----------------------------------------------------------------------------
(* The provider decides. *)

\* A reservation is confirmed by a confirm call for it, and cancelled by a
\* release call for it.
LEMMA SettledBy ==
  ASSUME TypeOK, NEW t \in Threads, Step(t), NEW r \in Stored',
         reservations'[r].status \in {"CONFIRMED", "CANCELLED"}
  PROVE  \/ r \in Stored /\ reservations[r].status = reservations'[r].status
         \/ call[t].pc = "confirm" /\ call[t].rid = r /\ reservations'[r].status = "CONFIRMED"
         \/ call[t].pc = "release" /\ call[t].rid = r /\ reservations'[r].status = "CANCELLED"
<1>1. TablesOK
  BY TypeParts
<1>2. ASSUME NEW R \in SUBSET Stored, NEW status \in Statuses, NEW i \in Stored
      PROVE  WithStatus(R, status)[i].status = IF i \in R THEN status ELSE reservations[i].status
  BY <1>1, WithStatusRows
<1>3. \A R, status : DOMAIN WithStatus(R, status) = Stored
  BY DEF WithStatus
<1>4. \A now : Due(now) \in SUBSET Stored
  BY DueArePending
<1>5. "EXPIRED" \in Statuses /\ "CONFIRMED" \in Statuses /\ "CANCELLED" \in Statuses
  BY DEF Statuses
<1>6. CASE reservations' = reservations
  BY <1>6 DEF Stored
<1>7. ASSUME NEW R \in SUBSET Stored, reservations' = WithStatus(R, "EXPIRED")
      PROVE  r \in Stored /\ reservations[r].status = reservations'[r].status
  <2>1. r \in Stored
    BY <1>3, <1>7 DEF Stored
  <2> QED
    BY <1>2, <1>5, <1>7, <2>1
<1>8. CASE LockSeatsGranted(t)
  <2>1. PICK n \in ReservationIds, row \in Row, R \in SUBSET Stored : Inserts(n, row, R)
    BY <1>8, LockSeatsTables
  <2>2. r # n /\ r \in Stored
    BY <2>1 DEF Inserts, Stored
  <2> QED
    BY <1>2, <1>5, <2>1, <2>2 DEF Inserts
<1>9. CASE LockSeatsRetried(t) \/ ExpireDue(t) \/ SeatStatuses(t)
  BY <1>4, <1>7, <1>9 DEF LockSeatsRetried, ExpireDue, SeatStatuses
<1>10. CASE ConfirmOverdue(t)
  BY <1>7, <1>10 DEF ConfirmOverdue
<1>11. CASE ConfirmGranted(t)
  <2>1. PICK q : q = call[t].rid
    OBVIOUS
  <2>2. q \in Stored /\ reservations' = WithStatus({q}, "CONFIRMED") /\ call[t].pc = "confirm"
    BY <1>11, <2>1 DEF ConfirmGranted
  <2>3. r \in Stored
    BY <1>3, <2>2 DEF Stored
  <2> QED
    BY <1>2, <1>5, <2>1, <2>2, <2>3
<1>12. CASE ReleaseHeld(t)
  <2>1. PICK q : q = call[t].rid
    OBVIOUS
  <2>2. q \in Stored /\ reservations' = WithStatus({q}, "CANCELLED") /\ call[t].pc = "release"
    BY <1>12, <2>1 DEF ReleaseHeld
  <2>3. r \in Stored
    BY <1>3, <2>2 DEF Stored
  <2> QED
    BY <1>2, <1>5, <2>1, <2>2, <2>3
<1>13. CASE \/ LockSeatsRefused(t) \/ ConfirmUnknown(t) \/ ConfirmAgain(t) \/ ConfirmRefused(t)
            \/ ReleaseUnknown(t) \/ ReleaseRefused(t) \/ ReleaseAgain(t)
            \/ Announce(t) \/ ReadSeats(t) \/ PublishEvent(t) \/ Get(t)
  <2>1. UNCHANGED tables
    BY <1>13 DEF LockSeatsRefused, ConfirmUnknown, ConfirmAgain, ConfirmRefused, ReleaseUnknown,
       ReleaseRefused, ReleaseAgain, Announce, ReadSeats, PublishEvent, Get, GetUnknown, GetRow,
       GetSeats, Continue, tables
  <2> QED
    BY <1>6, <2>1 DEF tables
<1> QED
  BY <1>8, <1>9, <1>10, <1>11, <1>12, <1>13 DEF Step, LockSeats, Confirm, Release

\* Tables change in the steps of calls only.
LEMMA TablesChangeBy ==
  ASSUME [CheckoutNext]_allVars
  PROVE  UNCHANGED tables \/ \E t \in Threads : Step(t)
<1>1. CASE ReservationStep
  BY <1>1 DEF ReservationStep, Tick, BeginRequest, BeginLockSeats, BeginGet, BeginSeatStatuses, Begin,
     Continue, Return
<1>2. ASSUME NEW t \in Threads, SagaStep(t)
      PROVE  UNCHANGED tables
  BY <1>2 DEF SagaStep, Gateway, GatewayRaises, Settle, BeginConfirm, BeginRelease, Begin, Continue, Quarantine,
     PaymentSucceeded, PaymentFailed, SettlementRefused, NestedCallEnds, CheckoutEnds, vars, tables
<1>3. ASSUME NEW t \in Threads, NEW r, BeginCheckout(t, r) \/ CheckoutRepeated(t) \/ CheckoutEntered(t)
      PROVE  UNCHANGED tables
  BY <1>3 DEF BeginCheckout, CheckoutRepeated, CheckoutEntered, vars, tables
<1>4. CASE Restart \/ UNCHANGED allVars
  BY <1>4 DEF Restart, allVars, vars, tables
<1> QED
  BY <1>1, <1>2, <1>3, <1>4 DEF CheckoutNext

\* A reservation is settled only by a checkout whose charge is in the books.
LEMMA ProviderStep ==
  ASSUME CheckoutInv, [CheckoutNext]_allVars
  PROVE  TheProviderDecides'
<1> USE DEF CheckoutInv
<1>1. ASSUME NEW r, NEW result, Charged(r, result)
      PROVE  Charged(r, result)'
  BY <1>1, BooksGrow DEF Charged, ChargesGrow
<1>2. ASSUME NEW t \in Threads, call[t].pc \in {"confirm", "release"}
      PROVE  /\ call[t].pc = "confirm" => Charged(call[t].rid, "SUCCEEDED")
             /\ call[t].pc = "release" => Charged(call[t].rid, "FAILED")
  <2>1. /\ saga[t].pc = "settling" /\ call[t].rid = saga[t].rid
        /\ call[t].pc = "confirm" => saga[t].result = "SUCCEEDED"
        /\ call[t].pc = "release" => saga[t].result = "FAILED"
    BY <1>2 DEF SagasOK, Nested
  <2>2. Booked(saga[t].key, saga[t].rid, saga[t].result)
    BY <2>1 DEF SagasOK, Underway
  <2>3. saga[t].key \in PayKeys
    BY <2>1, ChargedSagaType, CheckoutTypeParts DEF At
  <2> QED
    BY <2>1, <2>2, <2>3 DEF Booked, Charged
<1>3. ASSUME NEW r \in Stored', reservations'[r].status \in {"CONFIRMED", "CANCELLED"}
      PROVE  /\ reservations'[r].status = "CONFIRMED" => Charged(r, "SUCCEEDED")
             /\ reservations'[r].status = "CANCELLED" => Charged(r, "FAILED")
  <2>1. CASE UNCHANGED tables
    BY <1>3, <2>1 DEF tables, Stored, TheProviderDecides
  <2>2. ASSUME NEW t \in Threads, Step(t)
        PROVE  /\ reservations'[r].status = "CONFIRMED" => Charged(r, "SUCCEEDED")
               /\ reservations'[r].status = "CANCELLED" => Charged(r, "FAILED")
    <3>1. \/ r \in Stored /\ reservations[r].status = reservations'[r].status
          \/ call[t].pc = "confirm" /\ call[t].rid = r /\ reservations'[r].status = "CONFIRMED"
          \/ call[t].pc = "release" /\ call[t].rid = r /\ reservations'[r].status = "CANCELLED"
      BY <1>3, <2>2, SettledBy DEF ServiceInv
    <3> QED
      BY <1>2, <3>1 DEF TheProviderDecides
  <2> QED
    BY <2>1, <2>2, TablesChangeBy
<1> QED
  BY <1>1, <1>3 DEF TheProviderDecides

-----------------------------------------------------------------------------
(* Tickets and failed payments. *)

\* What a settlement that has ended, well or badly, leaves behind.
LEMMA SettlementLeaves ==
  ASSUME CheckoutInv, NEW t \in Threads, saga[t].pc = "settling"
  PROVE  /\ saga[t].key \in PayKeys /\ saga[t].key \in DOMAIN attempts
         /\ attempts[saga[t].key] = [rid |-> saga[t].rid, status |-> saga[t].result]
         /\ Booked(saga[t].key, saga[t].rid, saga[t].result)
         /\ call[t].pc = "return" => Settled(saga[t].rid, saga[t].result)
         /\ call[t].pc = "raise" /\ saga[t].result = "FAILED" /\ saga[t].rid \in Stored =>
              reservations[saga[t].rid].status = "CONFIRMED"
<1>1. Underway(saga[t]) /\ Nested(call[t], saga[t])
  BY DEF CheckoutInv, SagasOK
<1>2. saga[t].key \in PayKeys
  BY ChargedSagaType, CheckoutTypeParts DEF CheckoutInv, At
<1> QED
  BY <1>1, <1>2 DEF Underway, Nested

\* Who writes tickets and deliveries.
LEMMA TicketsSteps ==
  ASSUME [CheckoutNext]_allVars
  PROVE  \/ UNCHANGED <<tickets, deliveries>>
         \/ \E t \in Threads : PaymentSucceeded(t) \/ PaymentFailed(t)
         \/ Restart
BY DEF CheckoutNext, allVars, checkoutVars, memory, ReservationStep, SagaStep, BeginCheckout,
       CheckoutRepeated, CheckoutEntered, Gateway, GatewayRaises, Settle, Quarantine, SettlementRefused,
       NestedCallEnds, CheckoutEnds

\* A ticket for a confirmed reservation that was charged is backed.
LEMMA TicketStays ==
  ASSUME CheckoutInv, [CheckoutNext]_allVars, NEW r \in Stored, NEW k \in PayKeys,
         reservations[r].status = "CONFIRMED", Booked(k, r, "SUCCEEDED")
  PROVE  /\ r \in Stored'
         /\ reservations'[r].status = "CONFIRMED"
         /\ SeatsOf(r)' = reservations'[r].granted
         /\ \E i \in DOMAIN charges'[k] : charges'[k][i] = [rid |-> r, result |-> "SUCCEEDED"]
<1>1. r \in Stored' /\ reservations'[r].status = "CONFIRMED"
  BY CheckoutTables, RowsKept DEF CheckoutInv, ServiceInv, Integrity
<1>2. SeatLedger'
  BY ServiceKept DEF CheckoutInv, ServiceInv, Integrity
<1>3. SeatsOf(r)' = reservations'[r].granted
  BY <1>1, <1>2 DEF SeatLedger, Live
<1>4. \E i \in DOMAIN charges'[k] : charges'[k][i] = [rid |-> r, result |-> "SUCCEEDED"]
  BY BooksGrow DEF CheckoutInv, Booked, ChargesGrow
<1> QED
  BY <1>1, <1>3, <1>4

\* A ticket is issued only for what has just been confirmed and paid.
LEMMA TicketsStep ==
  ASSUME CheckoutInv, [CheckoutNext]_allVars
  PROVE  TicketsAreBacked'
<1>1. ASSUME NEW r, r \in DOMAIN tickets' => /\ tickets'[r] \in PayKeys /\ r \in Stored
                                            /\ reservations[r].status = "CONFIRMED"
                                            /\ Booked(tickets'[r], r, "SUCCEEDED")
      PROVE  r \in DOMAIN tickets' =>
               /\ r \in Stored'
               /\ reservations'[r].status = "CONFIRMED"
               /\ SeatsOf(r)' = reservations'[r].granted
               /\ \E i \in DOMAIN charges'[tickets'[r]] :
                    charges'[tickets'[r]][i] = [rid |-> r, result |-> "SUCCEEDED"]
  <2>1. PICK k : k = tickets'[r]
    OBVIOUS
  <2> QED
    BY <1>1, <2>1, TicketStays
<1>2. SUFFICES ASSUME NEW r, r \in DOMAIN tickets'
               PROVE  /\ tickets'[r] \in PayKeys /\ r \in Stored
                      /\ reservations[r].status = "CONFIRMED"
                      /\ Booked(tickets'[r], r, "SUCCEEDED")
  BY <1>1 DEF TicketsAreBacked
<1>3. ASSUME r \in DOMAIN tickets, tickets'[r] = tickets[r]
      PROVE  /\ tickets'[r] \in PayKeys /\ r \in Stored
             /\ reservations[r].status = "CONFIRMED"
             /\ Booked(tickets'[r], r, "SUCCEEDED")
  BY <1>3 DEF CheckoutInv, CheckoutTypeOK, TicketsAreBacked, Booked
<1>4. CASE UNCHANGED <<tickets, deliveries>>
  BY <1>2, <1>3, <1>4
<1>5. ASSUME NEW t \in Threads, PaymentSucceeded(t)
      PROVE  /\ tickets'[r] \in PayKeys /\ r \in Stored
             /\ reservations[r].status = "CONFIRMED"
             /\ Booked(tickets'[r], r, "SUCCEEDED")
  <2>1. PICK q, k : q = saga[t].rid /\ k = saga[t].key
    OBVIOUS
  <2>2. /\ saga[t].pc = "settling" /\ call[t].pc = "return" /\ saga[t].result = "SUCCEEDED"
        /\ Issue(q, k)
    BY <1>5, <2>1 DEF PaymentSucceeded, NestedCallEnds, At
  <2>3. k \in PayKeys /\ q \in Stored /\ reservations[q].status = "CONFIRMED" /\ Booked(k, q, "SUCCEEDED")
    BY <2>1, <2>2, SettlementLeaves DEF Settled
  <2>4. CASE r \in DOMAIN tickets /\ tickets'[r] = tickets[r]
    BY <1>3, <2>4
  <2>5. CASE r = q /\ tickets'[r] = k
    BY <2>3, <2>5
  <2> QED
    BY <1>2, <2>2, <2>4, <2>5 DEF Issue, With
<1>6. ASSUME NEW t \in Threads, PaymentFailed(t)
      PROVE  tickets' = tickets
  BY <1>6 DEF PaymentFailed
<1>7. ~Restart
  BY <1>2 DEF Restart, Empty
<1> QED
  BY <1>2, <1>3, <1>4, <1>5, <1>6, <1>7, TicketsSteps

\* A settlement starts with a key that has no attempt yet.
LEMMA EndedStays ==
  ASSUME CheckoutInv, [CheckoutNext]_allVars, NEW k \in DOMAIN attempts, Ended(k)
  PROVE  Ended(k)'
<1>1. CASE \A u \in Threads : saga'[u].pc = "settling" => saga'[u] = saga[u]
  BY <1>1 DEF Ended, At
<1>2. ASSUME NEW t \in Threads, Settle(t) \/ Quarantine(t)
      PROVE  Ended(k)'
  <2>1. \A u \in Threads \ {t} : saga'[u] = saga[u]
    BY <1>2 DEF Settle, Quarantine, GoesOn, CheckoutInv, CheckoutTypeOK
  <2>2. saga'[t].pc = "settling" => saga'[t].key # k
    <3>1. CASE Settle(t)
      <4>1. PICK o : o = saga[t]
        OBVIOUS
      <4>2. o \in [pc : {"charged", "settling"}, rid : Ids, key : PayKeys, result : Results]
        BY <3>1, <4>1, SagaKinds DEF Settle, At, CheckoutInv, CheckoutTypeOK
      <4>3. saga' = [saga EXCEPT ![t] = [o EXCEPT !.pc = "settling"]]
        BY <3>1, <4>1 DEF Settle, GoesOn
      <4>4. saga'[t].key = o.key
        BY <4>2, <4>3 DEF CheckoutInv, CheckoutTypeOK
      <4>5. o.key \notin DOMAIN attempts
        BY <3>1, <4>1 DEF CheckoutInv, SagasOK, Underway, Settle, At
      <4> QED
        BY <4>4, <4>5
    <3>2. CASE Quarantine(t)
      BY <3>2 DEF Quarantine, GoesOn, AttemptReply, CheckoutInv, CheckoutTypeOK
    <3> QED
      BY <1>2, <3>1, <3>2
  <2> QED
    BY <2>1, <2>2 DEF Ended, At
<1>3. CASE Restart
  BY <1>3 DEF Restart, Ended, At, NoSaga
<1> QED
  BY <1>1, <1>2, <1>3, AttemptsSteps

\* A settlement that ends has settled, or been refused.
LEMMA SettlementEnds ==
  ASSUME CheckoutInv, [CheckoutNext]_allVars, ~Restart, NEW t \in Threads,
         saga[t].pc = "settling", saga'[t] # saga[t]
  PROVE  PaymentSucceeded(t) \/ PaymentFailed(t) \/ SettlementRefused(t)
<1>1. ASSUME NEW u \in Threads, NEW s, GoesOn(u, s)
      PROVE  u = t
  BY <1>1 DEF GoesOn, CheckoutInv, CheckoutTypeOK
<1>2. ASSUME NEW u \in Threads, NEW r, BeginCheckout(u, r)
      PROVE  FALSE
  BY <1>1, <1>2 DEF BeginCheckout, At
<1>3. ASSUME NEW u \in Threads, CheckoutRepeated(u) \/ CheckoutEntered(u)
      PROVE  FALSE
  BY <1>1, <1>3 DEF CheckoutRepeated, CheckoutEntered, At
<1>4. ASSUME NEW u \in Threads, (\E result \in Results : Gateway(u, result)) \/ GatewayRaises(u)
      PROVE  FALSE
  BY <1>1, <1>4 DEF Gateway, GatewayRaises, At
<1>5. ASSUME NEW u \in Threads, Settle(u) \/ Quarantine(u) \/ CheckoutEnds(u)
      PROVE  FALSE
  BY <1>1, <1>5 DEF Settle, Quarantine, CheckoutEnds, At
<1>6. ASSUME NEW u \in Threads, PaymentSucceeded(u) \/ PaymentFailed(u) \/ SettlementRefused(u)
      PROVE  u = t
  BY <1>1, <1>6 DEF PaymentSucceeded, PaymentFailed, SettlementRefused
<1>7. ~ReservationStep /\ ~UNCHANGED allVars
  BY DEF ReservationStep, allVars, checkoutVars
<1> QED
  BY <1>2, <1>3, <1>4, <1>5, <1>6, <1>7 DEF CheckoutNext, SagaStep

\* A failed attempt that is recorded has yet to be settled.
LEMMA FailureBegins ==
  ASSUME CheckoutInv, [CheckoutNext]_allVars, ~Restart,
         NEW k \in DOMAIN attempts', k \notin DOMAIN attempts, attempts'[k].status = "FAILED"
  PROVE  ~Ended(k)'
<1>1. PICK t \in Threads : Settle(t) \/ Quarantine(t)
  BY AttemptsSteps
<1>2. saga[t].key = k /\ attempts'[k].status = saga[t].result
  <2>1. Recorded(t)
    BY <1>1 DEF Settle, Quarantine
  <2>2. saga[t].key = k
    BY <2>1, RecordedAttempts
  <2>3. attempts'[k] = [rid |-> saga[t].rid, status |-> saga[t].result]
    BY <2>1, <2>2, RecordedAttempts
  <2> QED
    BY <2>2, <2>3
<1>3. Settle(t)
  BY <1>1, <1>2 DEF Quarantine
<1>4. saga'[t].pc = "settling" /\ saga'[t].key = k
  <2>1. PICK o : o = saga[t]
    OBVIOUS
  <2>2. o \in [pc : {"charged", "settling"}, rid : Ids, key : PayKeys, result : Results]
    BY <1>3, <2>1, SagaKinds DEF Settle, At, CheckoutInv, CheckoutTypeOK
  <2>3. saga' = [saga EXCEPT ![t] = [o EXCEPT !.pc = "settling"]]
    BY <1>3, <2>1 DEF Settle, GoesOn
  <2> QED
    BY <1>2, <2>1, <2>2, <2>3 DEF CheckoutInv, CheckoutTypeOK
<1> QED
  BY <1>4 DEF Ended, At

\* A failed attempt whose settlement has ended, or ends in this step.
LEMMA FailedStep ==
  ASSUME CheckoutInv, [CheckoutNext]_allVars
  PROVE  FailedPaymentsFreeTheSeats'
<1>1. SUFFICES ASSUME NEW k \in DOMAIN attempts', attempts'[k].status = "FAILED",
                      attempts'[k].rid \in Stored', Ended(k)'
               PROVE  reservations'[attempts'[k].rid].status # "PENDING"
  BY DEF FailedPaymentsFreeTheSeats, Ended
<1>2. ~Restart
  BY <1>1 DEF Restart, Empty
<1>3. CASE k \in DOMAIN attempts
  <2>1. PICK r : r = attempts[k].rid
    OBVIOUS
  <2>2. attempts'[k] = attempts[k]
    BY <1>2, <1>3, AttemptsStay
  <2>3. r \in Stored
    BY <1>1, <1>3, <2>1, <2>2, RowsOfKnown DEF CheckoutInv, Tried
  <2>4. reservations[r].status # "PENDING"
    <3>1. CASE Ended(k)
      BY <1>1, <1>3, <2>1, <2>2, <2>3, <3>1 DEF CheckoutInv, FailedPaymentsFreeTheSeats, Ended
    <3>2. ASSUME NEW t \in Threads, saga[t].pc = "settling", saga[t].key = k
          PROVE  reservations[r].status # "PENDING"
      <4>1. saga'[t] # saga[t]
        BY <1>1, <3>2 DEF Ended, At
      <4>2. attempts[k] = [rid |-> saga[t].rid, status |-> saga[t].result]
        BY <3>2, SettlementLeaves
      <4>3. saga[t].rid = r /\ saga[t].result = "FAILED"
        BY <1>1, <2>1, <2>2, <4>2
      <4>4. call[t].pc = "return" \/ call[t].pc = "raise"
        BY <1>2, <3>2, <4>1, SettlementEnds
           DEF PaymentSucceeded, PaymentFailed, SettlementRefused
      <4> QED
        BY <2>3, <3>2, <4>3, <4>4, SettlementLeaves DEF Settled
    <3> QED
      BY <3>1, <3>2 DEF Ended, At
  <2> QED
    BY <2>1, <2>2, <2>3, <2>4, CheckoutTables, RowsKept DEF CheckoutInv, ServiceInv, Integrity
<1>4. k \in DOMAIN attempts
  BY <1>1, <1>2, FailureBegins
<1> QED
  BY <1>3, <1>4

-----------------------------------------------------------------------------
(* Deliveries. *)

\* Deliveries of a kind can be counted.
LEMMA SentFinite ==
  ASSUME CheckoutTypeOK, NEW type, NEW r
  PROVE  IsFiniteSet(Sent(type, r)) /\ Cardinality(Sent(type, r)) \in Nat
<1>1. DOMAIN deliveries = 1 .. Len(deliveries) /\ Len(deliveries) \in Nat
  BY DEF CheckoutTypeOK
<1>2. IsFiniteSet(DOMAIN deliveries)
  BY <1>1, FS_Interval
<1>3. Sent(type, r) \in SUBSET DOMAIN deliveries
  BY DEF Sent
<1> QED
  BY <1>2, <1>3, FS_Subset, FS_CardinalityType

\* One delivery more.
LEMMA OneMoreSent ==
  ASSUME CheckoutTypeOK, NEW kind \in {"TicketIssued", "PaymentFailed"}, NEW q \in ReservationIds,
         deliveries' = Append(deliveries, <<kind, q>>), NEW type, NEW r
  PROVE  Cardinality(Sent(type, r)') =
           IF type = kind /\ r = q THEN Cardinality(Sent(type, r)) + 1 ELSE Cardinality(Sent(type, r))
<1>1. PICK e, n : e = <<kind, q>> /\ n = Len(deliveries) + 1
  OBVIOUS
<1>2. PICK T : T = {"TicketIssued", "PaymentFailed"} \X ReservationIds
  OBVIOUS
<1>3. deliveries \in Seq(T) /\ e \in T /\ deliveries' = Append(deliveries, e)
  BY <1>1, <1>2 DEF CheckoutTypeOK
<1>4. /\ DOMAIN deliveries' = DOMAIN deliveries \cup {n} /\ n \notin DOMAIN deliveries
      /\ deliveries'[n] = e
      /\ \A i \in DOMAIN deliveries : deliveries'[i] = deliveries[i]
  BY <1>1, <1>3, AppendType
<1>5. n \notin Sent(type, r)
  BY <1>4 DEF Sent
<1>6. IsFiniteSet(Sent(type, r))
  BY SentFinite
<1>7. CASE type = kind /\ r = q
  <2>1. Sent(type, r)' = Sent(type, r) \cup {n}
    BY <1>1, <1>4, <1>7 DEF Sent
  <2> QED
    BY <1>5, <1>6, <1>7, <2>1, FS_AddElement
<1>8. CASE ~(type = kind /\ r = q)
  <2>1. e # <<type, r>>
    BY <1>1, <1>8
  <2>2. Sent(type, r)' = Sent(type, r)
    BY <1>4, <2>1 DEF Sent
  <2> QED
    BY <1>8, <2>2
<1> QED
  BY <1>7, <1>8

\* Failed attempts that have ended are not forgotten before a restart.
LEMMA FailuresStay ==
  ASSUME CheckoutInv, [CheckoutNext]_allVars, ~Restart, NEW r
  PROVE  Failures(r) \subseteq Failures(r)'
<1>1. SUFFICES ASSUME NEW k \in Failures(r)
               PROVE  k \in Failures(r)'
  OBVIOUS
<1>2. k \in DOMAIN attempts /\ attempts[k] = [rid |-> r, status |-> "FAILED"] /\ Ended(k)
  BY <1>1 DEF Failures, Ended
<1>3. k \in DOMAIN attempts' /\ attempts'[k] = attempts[k]
  BY <1>2, AttemptsStay
<1>4. Ended(k)'
  BY <1>2, EndedStays
<1> QED
  BY <1>2, <1>3, <1>4 DEF Failures, Ended

\* The attempts stay finitely many.
LEMMA AttemptsFinite ==
  ASSUME CheckoutInv, [CheckoutNext]_allVars
  PROVE  IsFiniteSet(DOMAIN attempts')
<1>1. IsFiniteSet(DOMAIN attempts)
  BY DEF CheckoutInv, DeliveriesOK
<1>2. CASE attempts' = attempts
  BY <1>1, <1>2
<1>3. ASSUME NEW t \in Threads, Settle(t) \/ Quarantine(t)
      PROVE  IsFiniteSet(DOMAIN attempts')
  <2>1. Recorded(t)
    BY <1>3 DEF Settle, Quarantine
  <2>2. PICK k : DOMAIN attempts' = DOMAIN attempts \cup {k}
    BY <2>1, RecordedAttempts
  <2> QED
    BY <1>1, <2>2, FS_AddElement
<1>4. CASE Restart
  <2>1. DOMAIN attempts' = {}
    BY <1>4 DEF Restart, Empty
  <2> QED
    BY <2>1, FS_EmptySet
<1> QED
  BY <1>2, <1>3, <1>4, AttemptsSteps

\* A failed attempt that is one more to be announced has just been settled.
LEMMA FailuresGrow ==
  ASSUME CheckoutInv, [CheckoutNext]_allVars, ~Restart, NEW r, NEW k \in Failures(r)', k \notin Failures(r)
  PROVE  \E t \in Threads : /\ saga[t].pc = "settling" /\ saga[t].key = k
                            /\ saga[t].rid = r /\ saga[t].result = "FAILED"
                            /\ PaymentFailed(t) \/ SettlementRefused(t)
<1>1. k \in DOMAIN attempts' /\ attempts'[k] = [rid |-> r, status |-> "FAILED"] /\ Ended(k)'
  BY DEF Failures
<1>2. k \in DOMAIN attempts
  BY <1>1, FailureBegins
<1>3. attempts[k] = [rid |-> r, status |-> "FAILED"]
  BY <1>1, <1>2, AttemptsStay
<1>4. PICK t \in Threads : saga[t].pc = "settling" /\ saga[t].key = k
  BY <1>2, <1>3 DEF Failures, Ended, At
<1>5. saga'[t] # saga[t]
  BY <1>1, <1>4 DEF Ended, At
<1>6. attempts[k] = [rid |-> saga[t].rid, status |-> saga[t].result]
  BY <1>4, SettlementLeaves
<1>7. saga[t].rid = r /\ saga[t].result = "FAILED"
  BY <1>3, <1>6
<1> QED
  BY <1>4, <1>5, <1>7, SettlementEnds DEF PaymentSucceeded

\* One failed attempt more.
LEMMA FailuresFinite ==
  ASSUME NEW S, IsFiniteSet(S), NEW B \in SUBSET S, NEW k, k \notin B
  PROVE  Cardinality(B) \in Nat /\ Cardinality(B \cup {k}) = Cardinality(B) + 1
BY FS_Subset, FS_CardinalityType, FS_AddElement

\* Another payment has confirmed r.
Confirmed(r) == r \in Stored /\ reservations[r].status = "CONFIRMED"

\* A reservation that is being confirmed has no failed attempt behind it.
LEMMA ConfirmedAreClean ==
  ASSUME CheckoutInv, [CheckoutNext]_allVars, NEW r, ~Confirmed(r), Confirmed(r)'
  PROVE  Failures(r) = {}
<1>1. SUFFICES ASSUME NEW k \in Failures(r)
               PROVE  FALSE
  OBVIOUS
<1>2. k \in DOMAIN attempts /\ attempts[k].rid = r /\ attempts[k].status = "FAILED" /\ Ended(k)
  BY <1>1 DEF Failures
<1>3. r \in Stored
  BY <1>2, RowsOfKnown DEF CheckoutInv, Tried, Confirmed
<1>4. reservations[r].status # "PENDING"
  BY <1>2, <1>3 DEF CheckoutInv, FailedPaymentsFreeTheSeats
<1>5. reservations'[r].status = reservations[r].status
  BY <1>3, <1>4, CheckoutTables, RowsKept DEF CheckoutInv, ServiceInv, Integrity
<1> QED
  BY <1>3, <1>5 DEF Confirmed

\* A confirmed reservation stays confirmed.
LEMMA ConfirmedStays ==
  ASSUME CheckoutInv, [CheckoutNext]_allVars, NEW r, Confirmed(r)
  PROVE  Confirmed(r)'
BY CheckoutTables, RowsKept DEF CheckoutInv, ServiceInv, Integrity, Confirmed

\* How many failures of r are to be announced.
Announced(r) == IF Confirmed(r) THEN 0 ELSE Cardinality(Failures(r))

\* While nothing is announced, nothing more is to be announced.
LEMMA NothingToAnnounce ==
  ASSUME CheckoutInv, [CheckoutNext]_allVars, ~Restart, NEW r \in ReservationIds,
         \A t \in Threads : PaymentFailed(t) => saga[t].rid # r
  PROVE  Announced(r)' = Announced(r)
<1>1. PICK E : E = {}
  OBVIOUS
<1>2. Cardinality(E) = 0
  BY <1>1, FS_EmptySet
<1>3. CASE Confirmed(r)
  BY <1>3, ConfirmedStays DEF Announced
<1>4. CASE ~Confirmed(r) /\ Confirmed(r)'
  BY <1>1, <1>2, <1>4, ConfirmedAreClean DEF Announced
<1>5. CASE ~Confirmed(r) /\ ~Confirmed(r)'
  <2>1. Failures(r) \subseteq Failures(r)'
    BY FailuresStay
  <2>2. ASSUME NEW k \in Failures(r)', k \notin Failures(r)
        PROVE  FALSE
    <3>1. PICK t \in Threads : /\ saga[t].pc = "settling" /\ saga[t].rid = r
                               /\ saga[t].result = "FAILED" /\ SettlementRefused(t)
      BY <2>2, FailuresGrow
    <3>2. call[t].pc = "raise"
      BY <3>1 DEF SettlementRefused
    <3>3. r \in Known
      BY <3>1 DEF CheckoutInv, SagasOK, Underway, Holding
    <3>4. r \in Stored
      BY <3>3, KnownStays, UnknownIdAssumption DEF CheckoutInv
    <3> QED
      BY <1>5, <3>1, <3>2, <3>4, SettlementLeaves DEF Confirmed
  <2>3. Failures(r)' = Failures(r)
    BY <2>1, <2>2
  <2> QED
    BY <1>5, <2>3 DEF Announced
<1> QED
  BY <1>3, <1>4, <1>5

\* A step announces a ticket or a failure together with what it records.
LEMMA DeliveriesStep ==
  ASSUME CheckoutInv, [CheckoutNext]_allVars
  PROVE  DeliveriesOK'
<1>1. IsFiniteSet(DOMAIN attempts')
  BY AttemptsFinite
<1>2. SUFFICES ASSUME NEW r \in ReservationIds
               PROVE  /\ Cardinality(Sent("TicketIssued", r)') = IF r \in DOMAIN tickets' THEN 1 ELSE 0
                      /\ Cardinality(Sent("PaymentFailed", r)') = Announced(r)'
  BY <1>1 DEF DeliveriesOK, DeliveriesAreExact, Announced, Confirmed
<1>3. CheckoutTypeOK
  BY DEF CheckoutInv
<1>4. /\ Cardinality(Sent("TicketIssued", r)) = IF r \in DOMAIN tickets THEN 1 ELSE 0
      /\ Cardinality(Sent("PaymentFailed", r)) = Announced(r)
  BY DEF CheckoutInv, DeliveriesOK, DeliveriesAreExact, Announced, Confirmed
<1>5. CASE Restart
  <2>1. deliveries' = <<>> /\ DOMAIN tickets' = {} /\ DOMAIN attempts' = {}
    BY <1>5 DEF Restart, Empty
  <2>2. PICK E : E = {}
    OBVIOUS
  <2>3. Sent("TicketIssued", r)' = E /\ Sent("PaymentFailed", r)' = E /\ Failures(r)' = E
    BY <2>1, <2>2 DEF Sent, Failures
  <2>4. Cardinality(E) = 0
    BY <2>2, FS_EmptySet
  <2> QED
    BY <2>1, <2>3, <2>4 DEF Announced
<1>6. CASE ~Restart
  <2>1. (\A t \in Threads : PaymentFailed(t) => saga[t].rid # r) => Announced(r)' = Announced(r)
    BY <1>6, NothingToAnnounce
  <2>2. CASE UNCHANGED <<tickets, deliveries>>
    <3>1. \A type : Sent(type, r)' = Sent(type, r)
      BY <2>2 DEF Sent
    <3>2. ~\E t \in Threads : PaymentFailed(t) /\ saga[t].rid = r
      <4>1. SUFFICES ASSUME NEW t \in Threads, PaymentFailed(t)
                     PROVE  FALSE
        OBVIOUS
      <4>2. PICK e : e = <<"PaymentFailed", saga[t].rid>>
        OBVIOUS
      <4>3. deliveries' = Append(deliveries, e)
        BY <4>1, <4>2 DEF PaymentFailed
      <4>4. Len(deliveries) \in Nat /\ Len(deliveries') = Len(deliveries) + 1
        BY <1>3, <4>3 DEF CheckoutTypeOK
      <4> QED
        BY <2>2, <4>4
    <3> QED
      BY <1>4, <2>1, <2>2, <3>1, <3>2
  <2>3. ASSUME NEW t \in Threads, PaymentSucceeded(t)
        PROVE  /\ Cardinality(Sent("TicketIssued", r)') = IF r \in DOMAIN tickets' THEN 1 ELSE 0
               /\ Cardinality(Sent("PaymentFailed", r)') = Announced(r)'
    <3>1. PICK q, k : q = saga[t].rid /\ k = saga[t].key
      OBVIOUS
    <3>2. Issue(q, k) /\ saga[t].pc = "settling" /\ call[t].pc = "return" /\ saga[t].result = "SUCCEEDED"
      BY <2>3, <3>1 DEF PaymentSucceeded, NestedCallEnds, At
    <3>3. CASE q \in DOMAIN tickets
      BY <2>2, <3>2, <3>3 DEF Issue
    <3>4. CASE q \notin DOMAIN tickets
      <4>1. q \in ReservationIds
        BY <3>1, <3>2, SettlementLeaves DEF Settled, CheckoutInv, ServiceInv, TypeOK, Stored
      <4>2. tickets' = With(tickets, q, k) /\ deliveries' = Append(deliveries, <<"TicketIssued", q>>)
        BY <3>2, <3>4 DEF Issue
      <4>3. DOMAIN tickets' = DOMAIN tickets \cup {q}
        BY <4>2 DEF With
      <4>4. /\ Cardinality(Sent("TicketIssued", r)') =
                 IF r = q THEN Cardinality(Sent("TicketIssued", r)) + 1
                          ELSE Cardinality(Sent("TicketIssued", r))
            /\ Cardinality(Sent("PaymentFailed", r)') = Cardinality(Sent("PaymentFailed", r))
        BY <1>3, <4>1, <4>2, OneMoreSent
      <4>5. Cardinality(Sent("TicketIssued", r)') = IF r \in DOMAIN tickets' THEN 1 ELSE 0
        BY <1>4, <3>4, <4>3, <4>4
      <4>6. \A u \in Threads : ~PaymentFailed(u)
        <5>1. ASSUME NEW u \in Threads, PaymentFailed(u)
              PROVE  FALSE
          <6>1. saga[u].pc = "settling" /\ saga[u].result = "FAILED"
            BY <5>1 DEF PaymentFailed, NestedCallEnds, At
          <6>2. u = t
            BY <3>2, <6>1 DEF CheckoutInv, SagasOK, Exclusive, Holding
          <6> QED
            BY <3>2, <6>1, <6>2
        <5> QED
          BY <5>1
      <4> QED
        BY <1>4, <2>1, <4>4, <4>5, <4>6
    <3> QED
      BY <3>3, <3>4
  <2>4. ASSUME NEW t \in Threads, PaymentFailed(t)
        PROVE  /\ Cardinality(Sent("TicketIssued", r)') = IF r \in DOMAIN tickets' THEN 1 ELSE 0
               /\ Cardinality(Sent("PaymentFailed", r)') = Announced(r)'
    <3>1. PICK q, k : q = saga[t].rid /\ k = saga[t].key
      OBVIOUS
    <3>2. /\ saga[t].pc = "settling" /\ call[t].pc = "return" /\ saga[t].result = "FAILED"
          /\ deliveries' = Append(deliveries, <<"PaymentFailed", q>>)
          /\ tickets' = tickets /\ attempts' = attempts /\ GoesOn(t, AttemptReply(t))
          /\ UNCHANGED tables
      BY <2>4, <3>1 DEF PaymentFailed, NestedCallEnds, At
    <3>3. q \in ReservationIds /\ ~Confirmed(q)
      BY <3>1, <3>2, SettlementLeaves DEF Settled, CheckoutInv, ServiceInv, TypeOK, Stored, Confirmed
    <3>4. /\ Cardinality(Sent("TicketIssued", r)') = Cardinality(Sent("TicketIssued", r))
          /\ Cardinality(Sent("PaymentFailed", r)') =
               IF r = q THEN Cardinality(Sent("PaymentFailed", r)) + 1
                        ELSE Cardinality(Sent("PaymentFailed", r))
      BY <1>3, <3>2, <3>3, OneMoreSent
    <3>5. \A u \in Threads : saga[u].pc = "settling" => u = t
      BY <3>2 DEF CheckoutInv, SagasOK, Exclusive, Holding
    <3>6. CASE r # q
      <4>1. \A u \in Threads : PaymentFailed(u) => saga[u].rid # r
        BY <3>1, <3>5, <3>6 DEF PaymentFailed, NestedCallEnds, At
      <4> QED
        BY <1>4, <2>1, <3>2, <3>4, <3>6, <4>1
    <3>7. CASE r = q
      <4>1. k \in DOMAIN attempts /\ attempts[k] = [rid |-> r, status |-> "FAILED"]
        BY <3>1, <3>2, <3>7, SettlementLeaves
      <4>2. k \notin Failures(r)
        BY <3>1, <3>2 DEF Failures, Ended, At
      <4>3. saga' = [saga EXCEPT ![t] = AttemptReply(t)] /\ AttemptReply(t).pc = "replying"
        BY <3>2 DEF GoesOn, AttemptReply
      <4>4. saga'[t].pc = "replying" /\ \A u \in Threads \ {t} : saga'[u] = saga[u]
        BY <1>3, <4>3 DEF CheckoutTypeOK
      <4>5. \A u \in Threads : saga'[u].pc # "settling"
        BY <3>5, <4>4
      <4>6. k \in Failures(r)'
        BY <3>2, <4>1, <4>5 DEF Failures, Ended, At
      <4>7. Failures(r) \subseteq Failures(r)'
        BY <1>6, FailuresStay
      <4>8. ASSUME NEW n \in Failures(r)', n \notin Failures(r)
            PROVE  n = k
        BY <1>6, <3>1, <3>5, <4>8, FailuresGrow
      <4>9. Failures(r)' = Failures(r) \cup {k}
        BY <4>6, <4>7, <4>8
      <4>10. Failures(r) \in SUBSET DOMAIN attempts /\ IsFiniteSet(DOMAIN attempts)
        BY DEF Failures, CheckoutInv, DeliveriesOK
      <4>11. Cardinality(Failures(r)') = Cardinality(Failures(r)) + 1
        BY <4>2, <4>9, <4>10, FailuresFinite
      <4>12. ~Confirmed(r) /\ ~Confirmed(r)'
        BY <3>2, <3>3, <3>7 DEF Confirmed, Stored, tables
      <4>13. Cardinality(Sent("PaymentFailed", r)') = Cardinality(Sent("PaymentFailed", r)) + 1
        BY <3>4, <3>7
      <4>14. Announced(r) = Cardinality(Failures(r)) /\ Announced(r)' = Cardinality(Failures(r)')
        BY <4>12 DEF Announced
      <4> QED
        BY <1>4, <3>2, <3>4, <4>11, <4>13, <4>14
    <3> QED
      BY <3>6, <3>7
  <2> QED
    BY <1>6, <2>2, <2>3, <2>4, TicketsSteps
<1> QED
  BY <1>5, <1>6

-----------------------------------------------------------------------------
(* The theorems. *)

\* Every step of the program keeps the invariant.
LEMMA CheckoutInvStep ==
  ASSUME CheckoutInv, [CheckoutNext]_allVars
  PROVE  CheckoutInv'
<1>1. ServiceInv' /\ CheckoutTypeOK'
  BY ServiceKept, CheckoutTypeStep DEF CheckoutInv
<1>2. SagasOK' /\ Tried' /\ TheProviderDecides'
  BY SagasStep, TriedStep, ProviderStep
<1>3. TicketsAreBacked' /\ FailedPaymentsFreeTheSeats' /\ DeliveriesOK'
  BY TicketsStep, FailedStep, DeliveriesStep
<1> QED
  BY <1>1, <1>2, <1>3 DEF CheckoutInv

\* It holds when the server starts for the first time.
LEMMA CheckoutInitially ==
  ASSUME CheckoutInit
  PROVE  CheckoutInv
<1>1. ServiceInv
  BY ServiceInit DEF CheckoutInit
<1>2. Stored = {} /\ answers = {}
  BY DEF CheckoutInit, Init, Stored
<1>3. DOMAIN Empty = {} /\ \A T : Empty \in [DOMAIN Empty -> T]
  BY EmptyType
<1>4. CheckoutTypeOK
  <2>1. SagaTypes
    BY MaxRestartsAssumption DEF CheckoutInit, SagaTypes, Saga
  <2>2. MemoryTypes
    BY <1>3 DEF CheckoutInit, MemoryTypes
  <2> QED
    BY <1>1, <2>1, <2>2, CheckoutTypeParts DEF ServiceInv
<1>5. \A t \in Threads : saga[t].pc = "none" /\ call[t].pc = "idle"
  BY DEF CheckoutInit, Init, NoSaga, Idle
<1>6. SagasOK
  BY <1>5 DEF SagasOK, Exclusive, Underway, Nested, Holding
<1>7. Tried /\ TheProviderDecides /\ TicketsAreBacked /\ FailedPaymentsFreeTheSeats
  BY <1>2, <1>3 DEF CheckoutInit, Tried, TheProviderDecides, TicketsAreBacked, FailedPaymentsFreeTheSeats
<1>8. DeliveriesOK
  <2>1. PICK E : E = {}
    OBVIOUS
  <2>2. DOMAIN attempts = E /\ DOMAIN tickets = E
    BY <1>3, <2>1 DEF CheckoutInit
  <2>3. ASSUME NEW r
        PROVE  Failures(r) = E /\ Sent("TicketIssued", r) = E /\ Sent("PaymentFailed", r) = E
    BY <1>3, <2>1, <2>2 DEF CheckoutInit, Failures, Sent
  <2>4. IsFiniteSet(E) /\ Cardinality(E) = 0
    BY <2>1, FS_EmptySet
  <2>5. ASSUME NEW r
        PROVE  /\ Cardinality(Sent("TicketIssued", r)) = IF r \in DOMAIN tickets THEN 1 ELSE 0
               /\ Cardinality(Sent("PaymentFailed", r)) =
                    IF r \in Stored /\ reservations[r].status = "CONFIRMED" THEN 0
                    ELSE Cardinality(Failures(r))
    <3>1. r \notin DOMAIN tickets
      BY <2>1, <2>2
    <3>2. Cardinality(Sent("TicketIssued", r)) = 0 /\ Cardinality(Sent("PaymentFailed", r)) = 0
          /\ Cardinality(Failures(r)) = 0
      BY <2>3, <2>4
    <3> QED
      BY <3>1, <3>2
  <2>6. IsFiniteSet(DOMAIN attempts)
    BY <2>2, <2>4
  <2> QED
    BY <2>5, <2>6 DEF DeliveriesOK, DeliveriesAreExact
<1> QED
  BY <1>1, <1>4, <1>6, <1>7, <1>8 DEF CheckoutInv

\* The invariant holds in every state of the program.
LEMMA CheckoutInvariant == CheckoutSpec => []CheckoutInv
BY CheckoutInitially, CheckoutInvStep, PTL DEF CheckoutSpec

\* The saga, the provider's books and the services' memory hold values of
\* their kinds under any interleaving of checkouts, calls and restarts.
THEOREM CheckoutTypes == CheckoutSpec => []CheckoutTypeOK
BY CheckoutInvariant, PTL DEF CheckoutInv

\* checkout() does not charge a key that has an attempt, or whose answer it is
\* about to record: _lock is held from the look at _attempts until the attempt
\* is recorded, or the gateway has raised.
THEOREM KeysStayUncharged == CheckoutSpec => AnsweredKeysStayUncharged
<1>1. ASSUME CheckoutInv, [CheckoutNext]_allVars, NEW k \in PayKeys, charges'[k] # charges[k]
      PROVE  /\ k \notin DOMAIN attempts
             /\ \A u \in Threads : ~(At(u, "charged") /\ saga[u].key = k)
  <2>1. PICK t \in Threads, result \in Results : At(t, "charging") /\ Books(t, result)
    BY <1>1, WhoBooks
  <2>2. saga[t].key = k
    BY <1>1, <2>1 DEF Books, CheckoutInv, CheckoutTypeOK
  <2>3. k \notin DOMAIN attempts
    BY <1>1, <2>1, <2>2 DEF CheckoutInv, SagasOK, Underway, At
  <2>4. \A u \in Threads : saga[u].pc # "charged"
    BY <1>1, <2>1 DEF CheckoutInv, SagasOK, Exclusive, Holding, At
  <2> QED
    BY <2>3, <2>4 DEF At
<1>2. CheckoutInv /\ [CheckoutNext]_allVars =>
        [\A k \in PayKeys :
           charges'[k] # charges[k] =>
             /\ k \notin DOMAIN attempts
             /\ \A t \in Threads : ~(At(t, "charged") /\ saga[t].key = k)
        ]_charges
  BY <1>1
<1> QED
  BY <1>2, CheckoutInvariant, PTL DEF CheckoutSpec, AnsweredKeysStayUncharged

\* A reservation is confirmed only after a charge for it succeeded and
\* cancelled only after one failed, over any number of restarts: confirm and
\* release are only called by a checkout with the gateway's answer.
THEOREM ProviderDecides == CheckoutSpec => []TheProviderDecides
BY CheckoutInvariant, PTL DEF CheckoutInv

\* A ticket stands for a confirmed reservation that has its seats and was
\* paid with the key that issued it (checkout.py, TicketingService._issue).
THEOREM TicketsStandForSeats == CheckoutSpec => []TicketsAreBacked
BY CheckoutInvariant, PTL DEF CheckoutInv

\* A checkout whose charge failed leaves its reservation settled when it
\* ends, whatever else was settling it.
THEOREM FailuresFreeSeats == CheckoutSpec => []FailedPaymentsFreeTheSeats
BY CheckoutInvariant, PTL DEF CheckoutInv

\* Tickets are announced once for each reservation, and failures once for each
\* failed attempt that has been settled, but never for a reservation that
\* another payment confirmed (checkout.py, NotificationService).
THEOREM AnnouncementsAreExact == CheckoutSpec => []DeliveriesAreExact
BY CheckoutInvariant, PTL DEF CheckoutInv, DeliveriesOK

\* Only a restart forgets the attempt that was recorded for a key
\* (checkout.py, CheckoutService._attempts).
THEOREM AttemptsAreKept == CheckoutSpec => AttemptsAreFinal
<1>1. CheckoutInv /\ [CheckoutNext]_allVars =>
        [restarts' = restarts =>
           \A k \in DOMAIN attempts : k \in DOMAIN attempts' /\ attempts'[k] = attempts[k]
        ]_<<attempts, restarts>>
  <2>1. SUFFICES ASSUME CheckoutInv, [CheckoutNext]_allVars, restarts' = restarts
                 PROVE  \A k \in DOMAIN attempts : k \in DOMAIN attempts' /\ attempts'[k] = attempts[k]
    OBVIOUS
  <2>2. ~Restart
    BY <2>1, MaxRestartsAssumption DEF Restart, CheckoutInv, CheckoutTypeOK
  <2> QED
    BY <2>1, <2>2, AttemptsStay
<1> QED
  BY <1>1, CheckoutInvariant, PTL DEF CheckoutSpec, AttemptsAreFinal

\* The reservation service keeps its promises under checkouts and restarts:
\* its tables, the replies it builds and the events it publishes.
THEOREM ServiceSurvives ==
  CheckoutSpec => [](/\ SeatLedger /\ NoDoubleBooking /\ IdempotentReplies /\ NeverExpiredEarly
                     /\ RepliesAreHonest /\ BookedSeatsStayBooked /\ EventsTellTheTruth)
<1>1. ASSUME CheckoutInv
      PROVE  /\ SeatLedger /\ NoDoubleBooking /\ IdempotentReplies /\ NeverExpiredEarly
             /\ RepliesAreHonest /\ BookedSeatsStayBooked /\ EventsTellTheTruth
  <2>1. SeatLedger /\ NoDoubleBooking
    BY <1>1, SeatsAreApart DEF CheckoutInv, ServiceInv, Integrity
  <2>2. IdempotentReplies /\ RepliesAreHonest
    BY <1>1, OneReservationPerKey, RepliesAreBacked DEF CheckoutInv
  <2>3. NeverExpiredEarly /\ EventsTellTheTruth
    BY <1>1 DEF CheckoutInv, ServiceInv, RowsOK, HistoryOK
  <2>4. BookedSeatsStayBooked
    BY <1>1 DEF CheckoutInv, ServiceInv, CallsBacked, Backed, BookedSeatsStayBooked
  <2> QED
    BY <2>1, <2>2, <2>3, <2>4
<1> QED
  BY <1>1, CheckoutInvariant, PTL

\* No checkout and no restart revives or forgets a reservation either.
THEOREM TransitionsSurvive == CheckoutSpec => LegalTransitions
<1>1. CheckoutInv /\ [CheckoutNext]_allVars =>
        \A r \in Stored : r \in Stored' /\ Follows(reservations[r], reservations'[r])
  BY CheckoutTables, RowsFollow, TypeParts DEF CheckoutInv, ServiceInv
<1>2. CheckoutInv /\ [CheckoutNext]_allVars =>
        [\A r \in Stored :
           /\ r \in Stored'
           /\ \E s \in Statuses : reservations'[r] = [reservations[r] EXCEPT !.status = s]
           /\ reservations'[r].status # reservations[r].status => reservations[r].status = "PENDING"
        ]_reservations
  BY <1>1 DEF Follows
<1> QED
  BY <1>2, CheckoutInvariant, PTL DEF CheckoutSpec, LegalTransitions

\* The whole server implements the seat inventory: what threads, checkouts and
\* restarts do to the tables together are lapses, locks and bookings.
THEOREM ServerRefinement == CheckoutSpec => ImplementsSeatInventory
<1>1. CheckoutInit => Inventory!Init /\ SomethingGranted
  BY InventoryInitially DEF CheckoutInit
<1>2. CheckoutInv /\ SomethingGranted /\ [CheckoutNext]_allVars =>
        SomethingGranted' /\ [Inventory!Next]_(Inventory!vars)
  BY CheckoutTables, SomethingGrantedStep, InventoryStep, TypeParts
     DEF CheckoutInv, ServiceInv, Strong
<1> QED
  BY <1>1, <1>2, CheckoutInvariant, PTL
     DEF CheckoutSpec, ImplementsSeatInventory, Inventory!Spec
=============================================================================
