CONSTANTS
  Inputs <- AllInputs
  Averages <- AllAverages
  CflDts <- Cfl
  HugeDt = 100
  Checkpoints <- SomeCheckpoints
  MaxTime = 9
SPECIFICATION AvgSpec
INVARIANTS
  MeanIsAverage
  MeanIsTimeAverage
  OneSamplePerPhase
