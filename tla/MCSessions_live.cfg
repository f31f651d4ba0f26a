SPECIFICATION FairSpec
CONSTANTS
  Users = {u1}
  Passwords = {p1, p2}
  Calls = {c1, c2, c3}
  MaxInFlight = 3
  Guarded = {"logout", "delete"}
  Failures = {"statement"}
  Gone = Gone
  Nothing = Nothing
PROPERTIES CallsEnd RedeemedIsRefused
CHECK_DEADLOCK FALSE
