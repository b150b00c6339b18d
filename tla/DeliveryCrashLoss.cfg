SPECIFICATION Spec
CONSTANTS
  Deliveries = {1}
  Coordinators = {1, 2}
  MaxFaults = 0
  MaxCrashes = 1
  MaxBlocks = 0
  MaxUserTurns = 0
  Boots = {0, 1}
  ClaimIds = {1, 2, 3, 4}
  NoId = NoId
  NoClaim = NoClaim
  MaxAttempts = 2
INVARIANT ResultPreserved
CHECK_DEADLOCK FALSE
