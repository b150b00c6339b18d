\* Two user processes and one agent turn: two requests, one fault.
CONSTANTS
  w1 = w1
  w2 = w2
  blank = blank
  c1 = c1
  absent = absent
  broken = broken
  Workers <- TwoWorkers
  Contents <- SmallContents
  Blank = blank
  Drafts <- SmallDrafts
  Absent = absent
  Broken = broken
  None = None
  MaxRequests = 2
  MaxFaults = 1
SPECIFICATION Spec
INVARIANTS TypeOK NoLostUpdate RestoreKeepsReplaced OneSavedPerRevision VerdictIsTrue
PROPERTY AckedIsProjected
CHECK_DEADLOCK FALSE
SYMMETRY WorkerSymmetry
