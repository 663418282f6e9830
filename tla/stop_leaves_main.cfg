SPECIFICATION Spec
CONSTANTS
  Units <- PlainUnits
  Controls = {"STOP"}
  Faults = {}
  MaxStarts = 1
  MaxRuns = 1
  MaxControls = 1
INVARIANT StopEndsMain
CHECK_DEADLOCK FALSE
