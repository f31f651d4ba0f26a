SPECIFICATION FairSpec
CONSTANTS
  Checks = {"h1"}
  Paths = 1
  Requests = {"r1", "r2"}
  Calls = {"c1", "c2"}
INVARIANTS TypeOK UpMeansProbed DrainedBeforeEnd
PROPERTIES EverythingEnds
CHECK_DEADLOCK FALSE
