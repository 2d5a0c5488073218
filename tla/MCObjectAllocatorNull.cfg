CONSTANTS
  BYTES_PER_FRAME = 8
  BLOCK_SZ <- MCBlockSz
  HEADER = 1
  LOCKED = 2
  LastFrame = 5
  Layouts <- MCLayouts
  MaxLive = 3
SPECIFICATION Spec
PROPERTY NullMeansOutOfMemory
