CONSTANTS
  Conn = {k1, k2}
  Fd = {f1, mon}
  MonitorFd = mon
  MaxStarts = 2
  None = None
  k1 = k1
  k2 = k2
  f1 = f1
  mon = mon
SPECIFICATION FairSpec
INVARIANTS  GoneMeansClosed
PROPERTIES EndedIsReaped CallsReturn
CHECK_DEADLOCK FALSE
