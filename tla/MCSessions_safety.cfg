SPECIFICATION Spec
CONSTANTS
  Users = {u1}
  Passwords = {p1, p2}
  Calls = {c1, c2, c3, c4}
  MaxInFlight = 4
  Guarded = {"change", "logout", "delete"}
  Failures = {"statement", "commit"}
  Gone = Gone
  Nothing = Nothing
SYMMETRY Symmetry
INVARIANTS TypeOK StoreInv NoCircleOfChanges
PROPERTIES ChangeRevokes ImplementsStore
CHECK_DEADLOCK FALSE
