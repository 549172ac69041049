SPECIFICATION FairSpec
CONSTANTS
  Note = {n1}
  Worker = {w1, w2}
  NoNote = NoNote
  Lease = 2
  RetryDelay = {1}
  MaxRetries = 2
  Stamp = {1}
  MaxVersion = 3
  MaxFaults = 2
INVARIANTS
  Inv
  BehindIsScheduled
PROPERTIES
  ImplementsIndex
  SearchCatchesUp
