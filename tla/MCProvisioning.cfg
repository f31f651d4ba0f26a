SPECIFICATION Spec
CONSTANTS
  Users = {ann, bob}
  Orgs = {acme}
  Chains = {"eth"}
  ChainLists <- MCLists
  MaxCalls = 3
  MaxInFlight = 2
  Nobody = nobody
  Failures = TRUE
INVARIANTS TypeOK WalletHasKey RefusedIsServed AnswersTrue KeysAccountedFor
PROPERTIES ProvisionedByMembers
SYMMETRY UserSymmetry
CHECK_DEADLOCK FALSE
