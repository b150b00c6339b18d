SPECIFICATION Spec
CONSTANTS
  s1 = s1
  o1 = o1
  b1 = b1
  b2 = b2
  c1 = c1
  t1 = t1
  t2 = t2
  create = create
  chat = chat
  Sessions = {s1}
  OperationIds = {o1}
  Items = {1}
  Commands = {create, chat}
  CreateCommands = {create}
  Tokens = {t1, t2}
  NoToken = NoToken
  NoCommand = NoCommand
  Boots = {b1, b2}
  ClaimIds = {c1}
  NoClaim = NoClaim
  MaxAttempts = 2
  ClaimDuration = 1
  Retention = 0
  CleanupInterval = 1
  MaxTime = 2
SYMMETRY Symmetry
INVARIANTS DeliveryTellsCompletion ClaimDiscipline StartedAtMostOnce
PROPERTIES OutcomeIsFinal RetentionKeepsObligations
