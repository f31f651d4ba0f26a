SPECIFICATION FairSpec
CONSTANTS
  Users = {"ann", "bob"}
  Tokens = {"t", "u"}
  Providers = {"fcm", "apn"}
  Offers <- MCOffers
  Earlier <- MCEarlier
  MaxCalls = 3
  MaxInFlight = 3
  Conns = 3
  None = "none"
  Failures = TRUE
INVARIANTS TypeOK AnswersTrue DeliveryComplete
PROPERTIES RemovedByOwner AnsweredUnlessStarved
CHECK_DEADLOCK FALSE
