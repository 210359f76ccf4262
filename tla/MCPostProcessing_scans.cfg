CONSTANTS
  Inputs <- PostInputs
  Posts <- AllPosts
  CflDts <- Cfl
  HugeDt = 100
  Checkpoints <- SomeCheckpoints
  Instruments <- SomeInstruments
  UnsetClocks <- SomeUnsetClocks
SPECIFICATION ScanSpec
INVARIANTS
  PostStartOnScheduleIsWritten
  InstrumentsCatchUp
  ProjectedAlongItsCone
