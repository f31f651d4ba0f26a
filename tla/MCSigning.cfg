SPECIFICATION FairSpec
CONSTANTS
  Users = {u1, u2, u3}
  Requests = {r1, r2}
  Calls = {c1, c2, c3}
  Threshold = 2
  MaxInFlight = 3
  Failures = TRUE
  NoSig = NoSig
INVARIANTS TypeOK SigningInv SignedByQuorum CompletedIsSigned RejectedByVote EveryoneVotedIsDecided
PROPERTIES NeverReopened DecisionReplacedByOverlap SignedAgainByOverlap ImplementsVoting QuorumIsDecided
CHECK_DEADLOCK FALSE
