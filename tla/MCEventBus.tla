----------------------------- MODULE MCEventBus -----------------------------
(* The bus of the program: a payment's event leads to a ticket's event. *)
EXTENDS EventBus

CONSTANTS p1, p2, i1, i2, i3, issue, record

\* Ticketing issues on PaymentSucceeded, notification records both types.
MCSubscribable ==
  {<<"PaymentSucceeded", issue>>, <<"PaymentSucceeded", record>>, <<"TicketIssued", record>>}
MCPublishes == [h \in {issue, record} |-> IF h = issue THEN {"TicketIssued"} ELSE {}]
MCLevel == [y \in {"PaymentSucceeded", "TicketIssued"} |-> IF y = "TicketIssued" THEN 1 ELSE 0]
=============================================================================
