SPECIFICATION Spec
CONSTANTS
  Apps = {a1, a2}
  NoApp = none
  Modes <- MCModes
  MaxOpens = 2
INVARIANT TypeOK
INVARIANT OpenCountExact
INVARIANT OneSession
INVARIANT BufferOfSession
INVARIANT PendingCloseHasTimer
INVARIANT ShownWithReason
PROPERTY KeepsSessions
CHECK_DEADLOCK FALSE
SYMMETRY MCSymmetry
