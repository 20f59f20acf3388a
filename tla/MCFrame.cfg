SPECIFICATION FairSpec
CONSTANTS
  HeaderLen = 2
  PageSize = 4
  MaxLen = 4
  Overhead = 1
  Sizes = {0, 3, 4, 5}
  MaxFrames = 3
  Buffer = 4
INVARIANTS PipelineExact
PROPERTIES FramesRefine EofEnds
CHECK_DEADLOCK FALSE
