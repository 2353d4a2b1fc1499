SPECIFICATION Spec
CONSTANTS
    c1 = c1
    c2 = c2
    c3 = c3
    ana = ana
    bob = bob
    t1 = t1
    plain = plain
    upper = upper
    Calls = {c1, c2}
    Players = {ana, bob}
    Transfers = {t1}
    Refs = {plain, upper}
    TransferOf <- MCTransferOf
    MaxCrashes = 1
    Null = Null
INVARIANT OnePlayPerTransfer
CHECK_DEADLOCK FALSE
