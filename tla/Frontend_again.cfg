\* A user locks the seat of an event again after a lock ended, or loses it to
\* another customer.
SPECIFICATION Spec
CONSTANTS
  u1 = u1  u2 = u2  e1 = e1  e2 = e2  s1 = s1  s2 = s2  r1 = r1  r2 = r2  o1 = o1
  Users = {u1}
  Events = {e1}
  Seats = {s1}
  ReservationIds = {r1, r2}
  Others = {o1}
  None = None
  TTL = 1
  MaxNow = 1
  MaxCalls = 2
SYMMETRY Symmetry
INVARIANTS FrontendTypeOK CountdownRuns
CONSTRAINTS Unspoilt OnePoll
