CONSTANTS
  Decls <- GhostDecls
  Names <- AllNames
  Shapes <- AllShapes
  MaxLevel = 1
  Values <- OneValue
SPECIFICATION RepoSpec
INVARIANT GhostCellsAsAsked
