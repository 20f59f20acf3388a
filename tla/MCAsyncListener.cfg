SPECIFICATION FairSpec
CONSTANTS
  Listeners = {l1, l2}
  Custom = {l2}
  Conn = {k1, k2}
  Fd = {7, 8, 9}
  PoolSize = 1
  MaxStarts = 2
  None = None
INVARIANTS ListenerKept NothingLeft HookSound
PROPERTIES ShutdownEnds
CHECK_DEADLOCK FALSE
