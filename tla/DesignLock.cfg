SPECIFICATION FairSpec
CONSTANTS
  c1 = c1
  c2 = c2
  c3 = c3
  r0 = r0
  r1 = r1
  r2 = r2
  Calls = {c1, c2}
  NoCall = NoCall
  Revisions = {r0, r1, r2}
  Initial = r0
  Content <- Saves
  Stale = 2
  Timeout = 1
  MaxTime = 4
  MaxCrashes = 1
INVARIANTS Exclusion LossNeedsOpenWindow SafeWhileYoung
PROPERTY EveryCallEnds
CHECK_DEADLOCK FALSE
