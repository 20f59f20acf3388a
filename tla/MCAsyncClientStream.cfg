CONSTANTS
  Unary = {u1, u2}
  Open = {o1}
  Send = {s1, s2}
  Closing = {s2}
  Receivable = {o1}
  Deadline = {u1}
  Workload <- StreamsAndTransform
  QueueCap = 1
  IdSpace = 2
  MaxData = 1
  StreamOf <- OneStream
  NoCall = NoCall
  u1 = u1
  u2 = u2
  u3 = u3
  o1 = o1
  s1 = s1
  s2 = s2
SPECIFICATION FairSpec
INVARIANTS RegistryExact AckTruthful NonceOrder
PROPERTIES TeardownEndsCalls
CHECK_DEADLOCK FALSE
