SPECIFICATION Spec
CONSTANTS
  MaxChars = 6
  RxSize = 1
  TxSize = 3
  Lengths = {1, 2, 6}
  MaxReads = 1
  MaxWrites = 3
  MaxAborts = 0
  Settings <- MCStripping
INVARIANT ReadInOrder
