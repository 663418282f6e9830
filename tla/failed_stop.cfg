SPECIFICATION Spec
CONSTANTS
  Units <- StopPostUnits
  Controls = {"STOP"}
  Faults = {}
  MaxStarts = 1
  MaxRuns = 1
  MaxControls = 1
INVARIANT FailedStopRestores
CHECK_DEADLOCK FALSE
