CONSTANTS Kinds <- BothKinds
 Modes <- BothModes
 num_substeps = 2
 chkpt_interval = 2
 Entries <- AtStart
 Starts <- GivenOrNot
 MaxStep = 5
 MaxRuns = 3
SPECIFICATION Spec
INVARIANTS TurbineInStep ForcesOfTheStep CheckpointsPair RowsOfTheSteps AssertsHold
