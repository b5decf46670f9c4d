SPECIFICATION Spec
CONSTANTS
  Envs <- MCEnvs
  Calls <- MCCalls
  Times = {1, 2, 3, 4, 5, 7}
  LONG_MAX = 9
  MaxGap = 7
INVARIANTS
  TypeOK
  SampleSpacing
  WindowSound
  QuietUntilOpen
  OneFailedConnect
PROPERTY
  WindowsApart
