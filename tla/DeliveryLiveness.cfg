SPECIFICATION FairSpec
CONSTANTS
  Deliveries = {1}
  Coordinators = {1, 2}
  MaxFaults = 1
  MaxCrashes = 1
  MaxBlocks = 1
  MaxMishaps = 1
  MaxUserTurns = 0
  Boots = {0, 1}
  ClaimIds = {1, 2, 3, 4}
  NoId = NoId
  NoClaim = NoClaim
  MaxAttempts = 2
INVARIANTS NoStrandedClaim PromptedAtMostOnce PromptHoldsClaim
PROPERTIES EventuallyConsumed ContractUntilCrash
CHECK_DEADLOCK FALSE
