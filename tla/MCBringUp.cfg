SPECIFICATION Spec
CONSTANTS
  Full = 256
  PageSize = 32
  Hardware <- Machines
  Words = 2
  Blocks = 3
  Lengths = {0, 1, 2, 3, 4, 5, 6, 8}
  MaxMails = 3
  WaitTurns = 2
INVARIANTS
  TypeOK
  OnlyAddressesDecoded
  RegionIsBar
  AdapterFound
  DeviceReachable
  InputDelivered
  OutputDelivered
  ChainsWellFormed
PROPERTY
  BringUpEnds
\* Main stops when anything fails; the commands are bounded.
CHECK_DEADLOCK FALSE
