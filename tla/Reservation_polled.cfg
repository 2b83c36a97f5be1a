\* A client polls a seat map; the service implements SeatInventory.
SPECIFICATION PolledSpec
CONSTANTS
  t1 = t1  t2 = t2  r1 = r1  r2 = r2  k1 = k1  k2 = k2  s1 = s1  s2 = s2  e1 = e1  e2 = e2
  Threads = {t1, t2}
  ReservationIds = {r1, r2}
  UnknownId = UnknownId
  Events = {e1}
  Seats = {s1}
  Keys = {k1, k2}
  NoKey = NoKey
  Operations = {"lock_seats", "confirm", "release", "seat_statuses"}
  TTL = 1
  MaxClock = 2
  SecondLength = 2
PROPERTIES OverdueLocksAreSwept ImplementsSeatInventory
