CONSTANTS
  Threads = {m, t1}
  Main = m
  Nil = Nil
  Exiters = {t1}
  Peekers = {}
  MemFails = FALSE
  MaxPush = 0
SPECIFICATION LifeSpec
INVARIANTS ReadsOpenState
CHECK_DEADLOCK FALSE
