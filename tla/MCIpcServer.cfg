SPECIFICATION FairSpec
CONSTANTS
  c1 = c1
  c2 = c2
  Client = {c1, c2}
  NoClient = NoClient
  MaxQueues = 2
INVARIANTS
  TypeOK
  RepliesMatch
  FrameOutlivesSetup
  MemoryFollowsObject
PROPERTIES
  CreatesServed
  TerminateFrees
\* The bound on queues ends what clients can create; a call may wait forever.
CHECK_DEADLOCK FALSE
