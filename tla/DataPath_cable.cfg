SPECIFICATION FairSpec
CONSTANTS
  MaxChars = 4
  RxSize = 2
  TxSize = 3
  Lengths = {1, 3}
  MaxReads = 2
  MaxWrites = 2
  MaxAborts = 1
  Settings <- MCSettings
INVARIANT TypeOK
INVARIANT NothingWaitsForRoom
INVARIANT PendingReadIsHungry
PROPERTY BehavesAsCable
PROPERTY LostOnlyWhenFull
PROPERTY TransferEnds
PROPERTY ReadGetsData
CHECK_DEADLOCK FALSE
