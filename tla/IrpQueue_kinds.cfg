SPECIFICATION FairSpec
CONSTANTS
  Irps = {a, b}
  NoIrp = NoIrp
  Kinds = {"write", "flush", "immediate", "xoff", "read", "wait"}
  DataLength = 1
  UlongRange = 16
  Cancellable = {a}
  MaxIo = 1
  MaxPurges = 1
  MaxRounds = 0
  TotalTimeout = TRUE
  XoffTimeout = TRUE
CHECK_DEADLOCK FALSE
INVARIANTS CompletedOnce Released PendingIsOwned FlagsMatch CancelledEnds
PROPERTIES KeepsPromise UntouchedAfterCompletion TimeoutEnds
