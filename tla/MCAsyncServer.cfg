CONSTANTS
  Unary = {u1, u2}
  Stream = {s1}
  NumData = 1
  NoData = {}
  EvenId = {u2}
  Offered <- UnaryOrStream
  Transform = TRUE
  OutCap = 1
  StreamCap = 1
  MaxSend = 1
  NoFrame = NoFrame
  u1 = u1
  u2 = u2
  s1 = s1
SPECIFICATION FairSpec
INVARIANTS RegisteredInTime GracefulDrain ResultIsLast
PROPERTIES ShutdownCompletes
CHECK_DEADLOCK FALSE
