CONSTANTS
  Default = 2
  MinWait = 1
  MaxWait = 3
  MaxReq = 2
SPECIFICATION FairSpec
INVARIANTS PoolBound CountExact CloseAfterIO
PROPERTIES HangupReaps
CHECK_DEADLOCK FALSE
