SPECIFICATION FairSpec
CONSTANTS
  p1 = p1
  p2 = p2
  Procs <- TwoProcs
  QCap = 2
  MaxRecords = 2
  MaxQueues = 1
PROPERTIES
  SendReturns
  MessagesRead
