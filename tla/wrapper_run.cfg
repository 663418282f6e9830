SPECIFICATION Spec
CONSTANTS
  Units <- RunUnits
  Controls = {"STOP"}
  Faults = {}
  MaxStarts = 1
  MaxRuns = 2
  MaxControls = 1
INVARIANTS
  TypeOK
  StopKillsThread
  StoppedIsLast
  WaitedProcessIsRead
  FinishedIsHeard
PROPERTIES
  MainAfterPre
  MainRestartedByPolicy
CHECK_DEADLOCK FALSE
