SPECIFICATION Spec
CONSTANTS
  Units <- StopUnits
  Controls = {"STOP", "PAUSE", "CONTINUE", "SHUTDOWN"}
  Faults = {"createThread", "spawn", "scm"}
  MaxStarts = 1
  MaxRuns = 1
  MaxControls = 2
INVARIANTS
  StopKillsThread
  StoppedIsLast
  StopWaitsForThread
CHECK_DEADLOCK FALSE
