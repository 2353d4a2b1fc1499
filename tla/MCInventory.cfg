SPECIFICATION Spec
CONSTANTS
  Null = Null
  s1 = s1
  s2 = s2
  b1 = b1
  c1 = c1
  c2 = c2
  u1 = u1
  u2 = u2
  Serials = {s1, s2}
  Boosters = {b1}
  Cards = {c1, c2}
  CardsOf <- MCCardsOf
  Singles = {c1}
  Sessions = {u1, u2}
  MaxPlays = 2
SYMMETRY Symmetry
INVARIANTS TypeOK NoPhantomBall PrizeIsThere HeldForPending
CHECK_DEADLOCK FALSE
