SPECIFICATION Spec
CONSTANTS
  a = a
  b = b
  c = c
  Requests = {a}
  NoRequest = NoRequest
  Batches <- TimedXoff
  WriteLengths = {1}
  Counter = 1
  Fifo = 1
  TimeoutsSet = {FALSE}
  MaxOrders = 0
INVARIANT TimerGivesBack
CHECK_DEADLOCK FALSE
