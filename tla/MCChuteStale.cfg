SPECIFICATION Spec
CONSTANTS
    b1 = b1
    b2 = b2
    Null = Null
    Wrap = 6
    TFall = 3
    TId = 2
    TExit = 2
    TEnroll = 3
    MaxIn = 1
    MaxOut = 1
    Tags = {b1}
    LoopGap = 1
INVARIANT VerdictTagIsFresh
