CONSTANTS Kinds <- OnlyFast
 Modes <- BothModes
 num_substeps = 2
 chkpt_interval = 2
 Entries <- AtStart
 Starts <- GivenOrNot
 MaxStep = 5
 MaxRuns = 3
SPECIFICATION Spec
INVARIANTS
  EveryCheckpointHasItsTurbine
  ReplayMimicsRestart
  ReplayReadsItsSteps
