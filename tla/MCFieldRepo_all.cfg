CONSTANTS
  Decls <- SomeDecls
  Names <- AllNames
  Shapes <- AllShapes
  MaxLevel = 2
  Values <- SomeValues
SPECIFICATION RepoSpec
INVARIANTS
  LevelDataMatchesFields
  KeptFieldsSurviveRegrid
  OtherFieldsCurrentOrZero
