SPECIFICATION Spec
CONSTANTS
  Users = {u1}
  Passwords = {p1, p2}
  Calls = {c1, c2}
  MaxInFlight = 1
  Guarded = {}
  Failures = {"statement", "commit"}
  Gone = Gone
  Nothing = Nothing
PROPERTY SuccessIsStored
CHECK_DEADLOCK FALSE
