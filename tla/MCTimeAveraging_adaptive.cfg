CONSTANTS
  Inputs <- AdaptiveInputs
  Averages <- DefaultAverages
  CflDts <- Cfl
  HugeDt = 100
  Checkpoints <- NoCheckpoints
  MaxTime = 9
SPECIFICATION AvgSpec
INVARIANT MeanIsAlwaysAverage
