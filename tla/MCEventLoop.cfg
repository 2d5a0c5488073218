CONSTANTS
  Period <- MCPeriod
  TASK_TIMER_PERIOD = 2
  QueueLen = 3
  HeapCap = 4
  RingLen = 2
  MaxAge = 2
  Xhci = Xhci
  NoMsg = NoMsg
SPECIFICATION FairSpec
INVARIANTS HandlersNeverSpin TimerConservation NoStrandedEvent
PROPERTIES EventsRead TimersFire BothTasksRun
