CONSTANTS
  FRAME_COUNT = 8
  Maps <- MCMaps
  MaxRequest = 3
SPECIFICATION Spec
INVARIANTS OnlyAvailable NoOverlap BitmapExact PanicsOnlyPastEnd
PROPERTIES FirstFit
CHECK_DEADLOCK FALSE
