CONSTANTS
  PAGE = 2
  u64_MAX = 100
  PAGESIZE_4K = 2
  Entries = 2
  PageDirs = 2
  Half = 2
  PM_TIMER_FREQ = 30
  TIMER_FREQ = 100
  COUNT_MAX = 1600
  W24 = 8
  W32 = 16
  Ratio = 10
  MaxGap = 2
  MaxDevices = 6
  NDevices = 32
  NFunctions = 8
  FRAME_COUNT = 34
  N_BLOCK_SIZES = 6
  LARGEST = 4
  Takes <- MCTakes
  MemmapBuf = 2
  High = 32
  Machines <- MCMachines
  Addresses <- MCAddresses
SPECIFICATION Spec
INVARIANTS
  BootsUnlessBroken
  VectorsReachHandlers
  TickRate
  XhcStartedWhole
  XhcFound
CHECK_DEADLOCK FALSE
