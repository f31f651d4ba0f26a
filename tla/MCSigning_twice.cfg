SPECIFICATION Spec
CONSTANTS
  Users = {u1, u2, u3}
  Requests = {r1}
  Calls = {c1, c2, c3}
  Threshold = 2
  MaxInFlight = 2
  Failures = FALSE
  NoSig = NoSig
SYMMETRY Symmetry
INVARIANTS SignedAtMostOnce
CHECK_DEADLOCK FALSE
