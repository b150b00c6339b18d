SPECIFICATION FairSpec
CONSTANTS
  NoOperation = NoOperation
  a = a
  i1 = i1
  Operations = {a}
  Items = {i1}
  Ends = {"succeeded", "failed"}
  Remote = FALSE
  MaxMishaps = 1
  MaxCancels = 0
PROPERTY EventuallyMaterialized
CHECK_DEADLOCK FALSE
