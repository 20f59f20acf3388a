CONSTANTS
  Handle = {h1, h2, h3}
  First = h1
  Caller = {c1, c2}
  WaitTime = TRUE
SPECIFICATION FairNotifierSpec
INVARIANTS Accounting NoLostWakeup
PROPERTIES PromiseKept ShutdownReachesAll ExitIsNoticed
CHECK_DEADLOCK FALSE
