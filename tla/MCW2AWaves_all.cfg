SPECIFICATION Spec
CONSTANTS
  Ranks = {r1, r2}
  dt_modes = 4
  n_wstop = 4
  LastSteps = {3, 4}
  InitSteps = {0, 1}
  TimeSteps = {2, 4, 6, 10}
  MaxTime = 28
  MaxLaunches = 2
  MaxRegrids = 1
SYMMETRY Processors
INVARIANTS TargetsAtTheirTime WavesRepeat
