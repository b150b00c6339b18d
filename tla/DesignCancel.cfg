\* One user's process and one agent turn: two requests, one fault.
CONSTANTS
  w1 = w1
  w2 = w2
  blank = blank
  c1 = c1
  absent = absent
  broken = broken
  Workers <- OneWorker
  Contents <- SmallContents
  Blank = blank
  Drafts <- SmallDrafts
  Absent = absent
  Broken = broken
  None = None
  MaxRequests = 1
  MaxFaults = 0
SPECIFICATION Spec
INVARIANT CancelledTurnLeavesCanvas

CHECK_DEADLOCK FALSE
