CONSTANTS Configs <- All
 MaxSteps = 3
SPECIFICATION Spec
INVARIANTS ReadsAreSet ReadsAreCurrent HalfTimeIsCentred DiffusionOfStart FilledAtTheirTime OutputsOfNewTime
PROPERTIES RegridKeepsState Integrates
