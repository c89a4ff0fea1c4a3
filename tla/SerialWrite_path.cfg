SPECIFICATION FairSpec
CONSTANTS
  a = a
  b = b
  c = c
  Requests = {a, b, c}
  NoRequest = NoRequest
  Batches <- MCBatches
  WriteLengths = {2}
  Counter = 1
  Fifo = 1
  TimeoutsSet = {TRUE, FALSE}
  MaxOrders = 1
INVARIANT TypeOK
INVARIANT RefsAreHeld
INVARIANT CharsQueuedExact
INVARIANT EndsAsPromised
INVARIANT QueueServed
PROPERTY WriteEnds
CHECK_DEADLOCK FALSE
