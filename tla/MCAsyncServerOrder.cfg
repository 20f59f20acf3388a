CONSTANTS
  Unary = {}
  Stream = {s1}
  NumData = 1
  NoData = {s1}
  EvenId = {}
  Offered <- Everything
  Transform = FALSE
  OutCap = 1
  StreamCap = 1
  MaxSend = 0
  NoFrame = NoFrame
  u1 = u1
  u2 = u2
  s1 = s1
SPECIFICATION Spec
INVARIANTS InOrder
CHECK_DEADLOCK FALSE
