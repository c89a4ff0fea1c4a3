SPECIFICATION FairSpec
CONSTANTS
  NoPort = NoPort
  BufSize = 2
  TxSize = 2
  WriteSizes = {2}
  ReadSizes = {1}
  Wirings <- MCWirings
  Flows <- MCFlows
  Outputs = {{"RTS", "OUT1"}}
  MaxOrders = 2
  MaxRounds = 5
INVARIANT TypeOK
INVARIANT StatusFollowsPins
INVARIANT HoldingFollowsStatus
INVARIANT LineTellsReason
INVARIANT XonIsOwed
INVARIANT NothingHeldBack
INVARIANT ReadWriteEnds
PROPERTY HeldWriterResumes
CHECK_DEADLOCK FALSE
