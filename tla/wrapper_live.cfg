SPECIFICATION FairSpec
CONSTANTS
  Units <- LiveUnits
  Controls = {"STOP"}
  Faults = {"crash"}
  MaxStarts = 2
  MaxRuns = 1
  MaxControls = 1
PROPERTIES
  StopCompletes
  FinishedWrapperExits
CHECK_DEADLOCK FALSE
