CONSTANTS
  Inputs <- DelayedOutput
  CflDts <- CflMoving
  HugeDt = 100
  Checkpoints <- NoCheckpoint
SPECIFICATION Spec
INVARIANT FinalStateSavedRegardlessOfDelay
