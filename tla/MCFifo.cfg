SPECIFICATION Spec
CONSTANTS
  Size = 4
  IndexWidth = 8
  MaxPushes = 10
INVARIANT TypeOK
PROPERTY ImplementsQueue
CHECK_DEADLOCK FALSE
