SPECIFICATION FairSpec
CONSTANTS
  main = main
  handler = handler
  Thread = {main, handler}
  Nobody = Nobody
  BlockSize = 2
  Max = 5
  MaxBlocks = 6
INVARIANTS
  TypeOK
  CountsMatchHeld
  HeldPagesExist
  WellLinked
  NoEmptyBlocks
PROPERTIES
  GrowsOnlyWhenFull
  AllocReturns
  ImplementsPageAllocator
\* The behaviour ends where the code writes through a stale pointer, and where
\* the bound on created blocks is used up.
CHECK_DEADLOCK FALSE
