CONSTANTS
  Inputs <- FixedDelayed
  CflDts <- CflMoving
  HugeDt = 100
  Checkpoints <- NoCheckpoint
SPECIFICATION Spec
INVARIANT FixedRunsUseFixedDt
