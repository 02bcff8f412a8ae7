CONSTANTS
  Threads = {t1, t2, t3}
  Values = {a}
  Bad = {}
  Nil = Nil
  TimedCallers = {t1, t2, t3}
  Cancellable = {t1, t2, t3}
  MaxArgs = 0
  MaxCalls = 2
SYMMETRY Symmetry
SPECIFICATION RdvSpec
INVARIANTS RdvTypeOK WaiterParked
CHECK_DEADLOCK FALSE
