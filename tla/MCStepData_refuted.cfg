CONSTANTS Configs <- WavingOrBuilt
 MaxSteps = 3
SPECIFICATION Spec
INVARIANT MacInflowIsCentred
PROPERTY HooksKeepState
