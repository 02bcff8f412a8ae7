CONSTANTS
  Threads = {t1, t2}
  Objects = {o1, o2}
  Handles = {h1, h2, h3}
  Nil = Nil
  MaxLost = 1
SPECIFICATION RcSpec
INVARIANTS RcTypeOK RefsCountHolders NoUseAfterFree FreeIsExclusive
PROPERTIES UnreferencedIsFreed ImplementsSharedObject
CHECK_DEADLOCK FALSE
