SPECIFICATION FairSpec
CONSTANTS
  Name = {x, y}
  BufSize = 2
  MaxChanges = 5
INVARIANTS
  TypeOK
  EveryChangeOnceInOrder
  EventsSuffice
PROPERTIES
  CollectedIsDelivered
  StopReturns
