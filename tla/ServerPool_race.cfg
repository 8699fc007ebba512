SPECIFICATION Spec
CONSTANTS
  Mac = {m1, m2}
  Slot = {s1, s2}
  Conn = {c1}
  Ctl = {t1}
  rx = rx
  wk = wk
  AddInfo <- Online
  Algorithms <- Polling
  VipHash = 1
  ReAdd = FALSE
  LockMod = 256
  MaxDel = 1
  MaxQueue = 2
  None = None
CHECK_DEADLOCK FALSE
INVARIANTS
  RemovedAreUnused
