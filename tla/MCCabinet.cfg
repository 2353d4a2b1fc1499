SPECIFICATION FairSpec
CONSTANTS
  b1 = b1
  Tags = {b1}
  Null = Null
  MaxIn = 2
  MaxOut = 2
  MaxMissed = 1
  MaxLinkDrops = 1
  MaxEvents = 1
INVARIANTS TypeOK BacklogBounded VerdictIsThisTurns
PROPERTIES TurnIsOver
CHECK_DEADLOCK FALSE
