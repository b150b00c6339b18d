SPECIFICATION FairSpec
CONSTANTS
  NoOperation = NoOperation
  a = a
  i1 = i1
  Operations = {a}
  Items = {i1}
  Ends = {"succeeded"}
  Remote = TRUE
  MaxMishaps = 1
  MaxCancels = 1
INVARIANTS ResultIsTrue InputWrittenOnce DurableIsWritten
PROPERTIES EventuallyFinished EventuallyMaterialized
CHECK_DEADLOCK FALSE
