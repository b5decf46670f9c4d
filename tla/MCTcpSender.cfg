SPECIFICATION Spec
CONSTANTS
  t1 = t1
  t2 = t2
  Threads = {t1, t2}
  DomainSets <- MCDomainSets
  Frequencies = {0, 2}
  StartFiles = {0, 1, 2}
  AppFds = {0, 3, 4}
  MaxFd = 4
  MaxDepth = 2
  MaxCount = 3
INVARIANTS
  TypeOK
  OwnSockets
  SocketFdCurrent
  OwnCallsIgnored
  OneFailurePerThread
  SamplerRecovers
SYMMETRY Symmetry
CHECK_DEADLOCK FALSE
