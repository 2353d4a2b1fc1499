SPECIFICATION FairSpec
CONSTANTS
    w1 = w1
    w2 = w2
    w3 = w3
    c1 = c1
    c2 = c2
    c3 = c3
    Wins = {w1, w2}
    CardPaid = {w1}
    Calls = {c1, c2}
    MaxTries = 3
    MaxCrashes = 1
    Null = Null
INVARIANTS TypeOK Covered DebitIsPayout
PROPERTY WithdrawalsEnd
CHECK_DEADLOCK FALSE
