CONSTANTS
  Unary = {u1, u2, u3}
  Open = {}
  Send = {}
  Closing = {}
  Receivable = {}
  Deadline = {u1}
  Workload <- ThreeCalls
  QueueCap = 1
  IdSpace = 8
  MaxData = 1
  StreamOf <- OneStream
  NoCall = NoCall
  u1 = u1
  u2 = u2
  u3 = u3
  o1 = o1
  s1 = s1
  s2 = s2
SPECIFICATION FairSpec
INVARIANTS TeardownReachesAll
PROPERTIES CallsRefine FramesWhole DeadlineBounds
CHECK_DEADLOCK FALSE
