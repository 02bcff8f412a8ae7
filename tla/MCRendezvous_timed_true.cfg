CONSTANTS
  Threads = {t1, t2}
  Values = {a}
  Bad = {}
  Nil = Nil
  TimedCallers = {t1, t2}
  Cancellable = {}
  MaxArgs = 1
  MaxCalls = 1
SPECIFICATION RdvSpec
INVARIANTS ExchangedIsTrue
CHECK_DEADLOCK FALSE
