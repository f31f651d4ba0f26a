SPECIFICATION Spec
CONSTANTS
  Users = {u1}
  Passwords = {p1, p2}
  Calls = {c1, c2}
  MaxInFlight = 2
  Guarded = {}
  Failures = {}
  Gone = Gone
  Nothing = Nothing
INVARIANT NoStaleSession
CHECK_DEADLOCK FALSE
