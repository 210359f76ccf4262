CONSTANTS
  Inputs <- SimInputs
  CflDts <- Cfl
  HugeDt = 100
  Checkpoints <- NoCheckpoints
  NumFiles = 2
  MaxLaunches = 3
SPECIFICATION SimSpec
INVARIANTS
  ResumesOneSnapshot
  WorkLostBounded
  FixedStepsKeepTime
  PlotsStayOnSchedule
PROPERTY SavedStaysSaved
