CONSTANTS
  Inputs <- AllInputs
  CflDts <- Cfl
  HugeDt = 100
  Checkpoints <- SomeCheckpoints
SPECIFICATION FairSpec
INVARIANTS
  TypeOK
  NoIntervalSkipped
  NoOvershootWithoutDelay
PROPERTIES
  OncePerInterval
  FinalStateSavedOnce
  EnforcedOutputOnAlignedSchedule
  ImplementsTimeline
  Termination
