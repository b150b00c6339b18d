SPECIFICATION FairSpec
CONSTANTS
  d = d
  e = e
  NoHost = NoHost
  NoWorker = NoWorker
  Hosts = {d, e}
  Attaching = {e}
  Slots = {1, 2}
  Threshold = 2
  MaxCommands = 3
  MaxFaults = 1
  MaxQueue = 2
  Stubborn = {e}
INVARIANTS LeaseCoversWorker StopLeavesNothing WantedIsPursued
PROPERTY EventuallyServed
CHECK_DEADLOCK FALSE
