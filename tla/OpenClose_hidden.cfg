SPECIFICATION Spec
CONSTANTS
  Apps = {a1}
  NoApp = none
  Modes <- MCExclusive
  MaxOpens = 1
INVARIANT HiddenWhileOpen
CHECK_DEADLOCK FALSE
