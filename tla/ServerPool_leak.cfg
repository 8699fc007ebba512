SPECIFICATION Spec
CONSTANTS
  Mac = {m1, m2}
  Slot = {s1, s2}
  Conn = {c1, c2}
  Ctl = {t1}
  rx = rx
  wk = wk
  AddInfo <- Online
  Algorithms <- LeastConnection
  VipHash = 1
  ReAdd = TRUE
  LockMod = 256
  MaxDel = 1
  MaxQueue = 2
  None = None
INVARIANTS
  QueuesDrained
