CONSTANTS
  Task = {"cmd", "trf", "init", "drv", "mouse", "keyboard"}
  Channel = {"CommandCompletion", "TransferEvent", "PortStatusChange", "address"}
  None = None
  N = 6
  CmdN = 8
  Port = {1, 2}
  Boot = {1}
  DevicesFor <- MCDevicesFor
  Speed <- MCSpeed
  Configs <- MCConfigs
  MaxSlot = 2
  Csz = TRUE
  MaxReports = 1
  MaxDevices = 2
  MaxFaults = 1
SPECIFICATION FairSpec
INVARIANTS NoLostWakeup RightCompletion RequestsWhole UnwrapsSafe EndpointsAsDescribed NoDeviceOverlooked
PROPERTIES DevicesConfigured
CHECK_DEADLOCK FALSE
