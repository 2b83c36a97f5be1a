\* The lock runs out while the gateway is called: a charge without an order.
SPECIFICATION CheckoutSpec
CONSTANTS
  t1 = t1  t2 = t2  r1 = r1  r2 = r2  k1 = k1  k2 = k2  p1 = p1  p2 = p2  s1 = s1  e1 = e1
  Threads = {t1, t2}
  ReservationIds = {r1}
  UnknownId = UnknownId
  Events = {e1}
  Seats = {s1}
  Keys = {k1}
  NoKey = NoKey
  PayKeys = {p1}
  Operations = {"lock_seats", "confirm", "release"}
  TTL = 1
  MaxClock = 1
  MaxRestarts = 0
  MaxUnanswered = 0
  SecondLength = 2
INVARIANTS SuccessfulChargesAreConfirmed
