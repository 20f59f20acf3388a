CONSTANTS
  Caller = {c1, c2}
  Deadline = {c1}
  IdSpace = 6
  MaxFrames = 2
  None = None
  c1 = c1
  c2 = c2
  c3 = c3
SPECIFICATION FairSpec
INVARIANTS MapExact DescriptorOwned
PROPERTIES CallsRefine HangupEndsCalls DropReleases
CHECK_DEADLOCK FALSE
