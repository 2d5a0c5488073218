CONSTANTS
  FRAME_COUNT = 8
  Maps <- MCMaps
  MaxRequest = 3
SPECIFICATION Spec
PROPERTIES NoneMeansFull
CHECK_DEADLOCK FALSE
