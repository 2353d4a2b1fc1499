SPECIFICATION FairSpec
CONSTANTS
  Tags = {}
  Null = Null
  ana = ana
  bob = bob
  e1 = e1
  e2 = e2
  Players = {ana, bob}
  PlayerOf <- MCPlayerOf
  Enders = {e1, e2}
  MaxTurns = 3
  TurnsAreShort = TRUE
  MaxHasty = 1
  MaxDrops = 1
  MaxCrashes = 1
  MaxTroubles = 1
  CrashesMidTurn = FALSE
  MaxLine = 3
INVARIANTS TypeOK StaysPaused OneTurnAtATime FirstComeFirstServed
PROPERTIES NoStartWhileFaulted ImplementsContract QueueMoves

CHECK_DEADLOCK FALSE
