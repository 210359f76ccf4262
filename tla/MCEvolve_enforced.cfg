CONSTANTS
  Inputs <- EnforcedPlots
  CflDts <- CflMoving
  HugeDt = 100
  Checkpoints <- OneCheckpoint
SPECIFICATION Spec
PROPERTY EnforcedOutputOnSchedule
