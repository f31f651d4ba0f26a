SPECIFICATION Spec
CONSTANTS
  Users = {u1}
  Passwords = {p1, p2}
  Calls = {c1, c2, c3}
  MaxInFlight = 2
  Guarded = {}
  Failures = {}
  Gone = Gone
  Nothing = Nothing
INVARIANT RedeemedOnce
CHECK_DEADLOCK FALSE
