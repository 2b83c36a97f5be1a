\* Two buyers of one seat, two payments, every request of the HTTP server.
SPECIFICATION CheckoutSpec
CONSTANTS
  t1 = t1  t2 = t2  r1 = r1  r2 = r2  k1 = k1  k2 = k2  p1 = p1  p2 = p2  s1 = s1  e1 = e1
  Threads = {t1, t2}
  ReservationIds = {r1, r2}
  UnknownId = UnknownId
  Events = {e1}
  Seats = {s1}
  Keys = {k1, k2}
  NoKey = NoKey
  PayKeys = {p1, p2}
  Operations = {"lock_seats", "confirm", "release", "seat_statuses", "get"}
  TTL = 1
  MaxClock = 1
  MaxRestarts = 0
  MaxUnanswered = 0
  SecondLength = 2
SYMMETRY Symmetry
INVARIANTS CheckoutTypeOK TicketsAreBacked FailedPaymentsFreeTheSeats DeliveriesAreExact
