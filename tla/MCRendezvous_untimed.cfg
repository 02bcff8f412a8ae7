CONSTANTS
  Threads = {t1, t2, t3}
  Values = {a, bad}
  Bad = {bad}
  Nil = Nil
  TimedCallers = {}
  Cancellable = {}
  MaxArgs = 1
  MaxCalls = 1
SPECIFICATION RdvSpec
INVARIANTS OneWaiter ExchangeMatches
PROPERTIES ImplementsExchanger MatchedReturns CallersGetIn
CHECK_DEADLOCK FALSE
