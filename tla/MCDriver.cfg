SPECIFICATION FairSpec
CONSTANTS
  p1 = p1
  p2 = p2
  p3 = p3
  p4 = p4
  Page = {p1, p2, p3, p4}
  Max = 4
  Chunk = 2
  MaxAsk = 3
  MaxEvents = 2
INVARIANTS
  TypeOK
  PagesAccounted
  CommandsInOrder
  EqOutlivesHandler
  FaultsConfined
PROPERTIES
  ShutdownCompletes
  EventsHandled
\* The program ends, by a fault or after DISABLE_HCA.
CHECK_DEADLOCK FALSE
