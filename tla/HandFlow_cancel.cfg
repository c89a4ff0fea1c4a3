SPECIFICATION Spec
CONSTANTS
  NoPort = NoPort
  BufSize = 2
  TxSize = 2
  WriteSizes = {2}
  ReadSizes = {1}
  Wirings <- MCWirings
  Flows <- CancelFlows
  Outputs = {{"RTS", "OUT1"}}
  MaxOrders = 4
  MaxRounds = 5
PROPERTY XoffTakenBackInTime
CHECK_DEADLOCK FALSE
