CONSTANTS
  Threads = {t1, t2}
  Objects = {c1}
  Handles = {h1, h2, h3}
  Nil = Nil
  MaxLost = 1
  CloseShared = FALSE
  Waiters = {t2}
  EarlyReturn = FALSE
SPECIFICATION AioSpec
INVARIANTS AioTypeOK KernelSafe KernelOwnsBuffer  OneReturner PendingHasOwner RequestsLive
PROPERTIES ValidTransitions RequestsAreRcObjects FreeTerminates
CHECK_DEADLOCK FALSE
