SPECIFICATION FairSpec
CONSTANTS
  Caller = {c1, c2, c3}
  Entry = {e1, e2}
  LockMod = 256
  NoCaller = NoCaller
  NoEntry = NoEntry
INVARIANTS
  NoUseAfterFree
  RemovedOnce
  QueuesDrained
  CountIsLength
  RefCountExact
PROPERTIES
  FrozenWhileLocked
  UnreferencedIsFreed
  ImplementsDeferredList
