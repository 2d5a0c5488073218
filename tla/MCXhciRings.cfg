CONSTANTS
  TRB = {t1, t2}
  NoTrb = NoTrb
  N = 4
  M = 5
  Pointer = {0, 1, 2}
  NoPointer = NoPointer
SYMMETRY AnyTrb
SPECIFICATION SystemSpec
INVARIANTS NeverStalls ReportsCarried AlwaysRoom
PROPERTIES ImplementsTrbQueue ReportedSlotsKept ImplementsEventFifo
