SPECIFICATION FairSpec
CONSTANTS
  LastTurn = 2
  Refusable = {1}
  MaxOffers = 1
  MaxFaults = 1
  MaxCrashes = 1
INVARIANTS TypeOK PromptedOnce RunIsNotAccused
PROPERTIES AnswerIsFinal EventuallyAtRest
CHECK_DEADLOCK FALSE
