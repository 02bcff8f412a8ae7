CONSTANTS
  Threads = {m, t1, t2}
  Main = m
  Nil = Nil
  Exiters = {t1, t2}
  Peekers = {m}
  MemFails = TRUE
  MaxPush = 1
SPECIFICATION LifeSpec
INVARIANTS LifeTypeOK CarefulUsesOpenState ClosedOnce CanceledIsClosed
PROPERTIES EndedIsClosed
CHECK_DEADLOCK FALSE
