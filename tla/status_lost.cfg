SPECIFICATION Spec
CONSTANTS
  Units <- PlainUnits
  Controls = {"PAUSE", "CONTINUE"}
  Faults = {}
  MaxStarts = 1
  MaxRuns = 1
  MaxControls = 2
INVARIANT FinishedThreadIsReported
CHECK_DEADLOCK FALSE
