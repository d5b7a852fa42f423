SPECIFICATION FairSpec
CONSTANT Size = 5
INVARIANTS
  TypeOK
  FirstRoundInOrder
PROPERTY EveryEventRead
