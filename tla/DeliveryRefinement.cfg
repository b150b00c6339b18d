SPECIFICATION SteadySpec
CONSTANTS
  Deliveries = {1, 2}
  Coordinators = {1}
  MaxFaults = 1
  MaxCrashes = 0
  MaxBlocks = 1
  MaxUserTurns = 1
  Boots = {0}
  ClaimIds = {1, 2, 3, 4}
  NoId = NoId
  NoClaim = NoClaim
  MaxAttempts = 2
INVARIANT UncertainIsTold
PROPERTY ImplementsContract
CHECK_DEADLOCK FALSE
