SPECIFICATION FairSpec
CONSTANTS
  main = main
  handler = handler
  Thread = {main, handler}
  Size = 2
  MaxCmds = 2
  Exclusive = FALSE
PROPERTY HardwareOwnsEntry
CHECK_DEADLOCK FALSE
