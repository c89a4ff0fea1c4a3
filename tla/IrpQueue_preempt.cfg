SPECIFICATION Spec
CONSTANTS
  Irps = {a, b, c}
  NoIrp = NoIrp
  Kinds = {"write", "flush", "immediate"}
  DataLength = 2
  UlongRange = 16
  Cancellable = {}
  MaxIo = 1
  MaxPurges = 1
  MaxRounds = 1
  TotalTimeout = TRUE
  XoffTimeout = TRUE
SYMMETRY Symmetry
CHECK_DEADLOCK FALSE
INVARIANTS TypeOK AmountExact
PROPERTIES InOrder PendingIsWhole
