SPECIFICATION FairSpec
CONSTANTS
  c1 = c1
  c2 = c2
  Client = {c1}
  NoClient = NoClient
  MaxQueues = 1
PROPERTY FailureReported
CHECK_DEADLOCK FALSE
