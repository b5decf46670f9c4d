SPECIFICATION Spec
CONSTANTS
  p1 = p1
  p2 = p2
  Procs <- TwoProcs
  QCap = 2
  MaxRecords = 2
  MaxQueues = 2
INVARIANTS
  TypeOK
  Accounting
  RetryCost
  InOrderOnce
  Rendezvous
PROPERTIES
  IsLossyFifo
  
