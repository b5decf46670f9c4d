SPECIFICATION Spec
CONSTANTS
  Envs <- NoOpenEnvs
  Calls <- MCCalls
  Times = {1, 2}
  LONG_MAX = 9
  MaxGap = 3
INVARIANT
  ResumesOnOpen
