SPECIFICATION FairSpec
CONSTANTS
  Reasons = {"remote-doc-sync", "remote-meta-sync"}
  MaxChanges = 5
INVARIANTS OneFlush Scheduled NothingDropped
PROPERTY EventuallyDurable
CHECK_DEADLOCK FALSE
