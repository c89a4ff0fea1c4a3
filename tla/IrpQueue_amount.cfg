SPECIFICATION Spec
CONSTANTS
  Irps = {a, b}
  NoIrp = NoIrp
  Kinds = {"write", "xoff"}
  DataLength = 1
  UlongRange = 16
  Cancellable = {a, b}
  MaxIo = 0
  MaxPurges = 0
  MaxRounds = 0
  TotalTimeout = FALSE
  XoffTimeout = TRUE
SYMMETRY Symmetry
CHECK_DEADLOCK FALSE
INVARIANT NothingLeftToSend
