SPECIFICATION Spec
CONSTANTS
  main = main
  handler = handler
  Thread = {main, handler}
  Nobody = Nobody
  BlockSize = 2
  Max = 5
  MaxBlocks = 6
INVARIANT RemovedBlockUntouched
CHECK_DEADLOCK FALSE
