SPECIFICATION Spec
CONSTANTS
  Irps = {a, b, c, d}
  NoIrp = NoIrp
  Kinds = {"write", "immediate", "xoff"}
  DataLength = 1
  UlongRange = 16
  Cancellable = {}
  MaxIo = 0
  MaxPurges = 0
  MaxRounds = 0
  TotalTimeout = FALSE
  XoffTimeout = TRUE
SYMMETRY Symmetry
CHECK_DEADLOCK FALSE
PROPERTY InOrder
