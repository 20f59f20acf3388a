CONSTANTS
  Default = 2
  MinWait = 1
  MaxWait = 3
  MaxReq = 3
SPECIFICATION Spec
INVARIANTS QuitWakesMain
CHECK_DEADLOCK FALSE
