SPECIFICATION FairSpec
CONSTANTS
  main = main
  handler = handler
  Thread = {main, handler}
  Size = 2
  MaxCmds = 4
  Exclusive = TRUE
INVARIANTS
  TypeOK
  ReplyIsOwn
  InputIsOwn
  NoLostDoorbell
PROPERTIES
  HardwareOwnsEntry
  CommandEnds
  ImplementsCommandService
\* The program stops on an exception, and the bound on commands ends it.
CHECK_DEADLOCK FALSE
