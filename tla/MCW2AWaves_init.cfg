SPECIFICATION Spec
CONSTANTS
  Ranks = {r1}
  dt_modes = 4
  n_wstop = 4
  LastSteps = {4}
  InitSteps = {1}
  TimeSteps = {2}
  MaxTime = 16
  MaxLaunches = 1
  MaxRegrids = 0
INVARIANT TargetsHaveTheirTime
