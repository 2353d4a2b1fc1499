SPECIFICATION Spec
CONSTANTS
  Size = 4
  IndexWidth = 8
  MaxPushes = 3
PROPERTY FirstInFirstOut
CHECK_DEADLOCK FALSE
