SPECIFICATION Spec
CONSTANTS
  Tags = {}
  Null = Null
  ana = ana
  bob = bob
  e1 = e1
  e2 = e2
  Players = {ana, bob}
  PlayerOf <- MCPlayerOf
  Enders = {e1, e2}
  MaxTurns = 3
  TurnsAreShort = FALSE
  MaxHasty = 0
  MaxDrops = 0
  MaxCrashes = 0
  MaxTroubles = 0
  CrashesMidTurn = TRUE
  MaxLine = 3
SYMMETRY Symmetry
INVARIANTS WinToItsTurn

CHECK_DEADLOCK FALSE
