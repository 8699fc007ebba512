SPECIFICATION FairSpec
CONSTANTS
  a = a
  b = b
  x = x
  y = y
  Luids <- TwoModules
  Addrs <- TwoAddrs
  MaxInputs = 5
  MaxLists = 2
INVARIANTS
  SettledModal
  AwaitedHasTimer
PROPERTIES
  SyncIsOfTheSave
  TransitionsEnd
CHECK_DEADLOCK FALSE
