SPECIFICATION FairSpec
CONSTANTS
  Names = {"ann"}
  MaxCalls = 3
  MaxInFlight = 2
  MaxTime = 4
  EarlierAge = 2
  Limits = {2, 3}
  ResetValidity = 3
  ResetDebounce = 1
  ResetReuse = 2
  ConfirmValidity = 2
  ConfirmDebounce = 1
  RequiresConfirmation = TRUE
  Failures = TRUE
INVARIANTS TypeOK ActivationAtomic ConfirmedOnce ResetTokensApart ConfirmationTokensApart MailedLinkLives
PROPERTIES AnsweredUnlessStarved
CHECK_DEADLOCK FALSE
