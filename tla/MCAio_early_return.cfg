CONSTANTS
  Threads = {t1}
  Objects = {c1}
  Handles = {h1}
  Nil = Nil
  MaxLost = 0
  CloseShared = FALSE
  Waiters = {}
  EarlyReturn = TRUE
SPECIFICATION AioSpec
INVARIANTS KernelSafe
CHECK_DEADLOCK FALSE
