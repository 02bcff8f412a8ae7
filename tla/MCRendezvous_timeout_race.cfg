CONSTANTS
  Threads = {t1, t2}
  Values = {a}
  Bad = {}
  Nil = Nil
  TimedCallers = {t1}
  Cancellable = {}
  MaxArgs = 1
  MaxCalls = 1
SPECIFICATION RdvSpec
INVARIANTS TimeoutMeansNoExchange
CHECK_DEADLOCK FALSE
