SPECIFICATION Spec
CONSTANTS
  a = a
  b = b
  c = c
  Names <- Units
  Libraries <- SingleLibraries
  Commands <- DisableCommands
  Faults = {}
  MaxCommands = 3
  MaxDepth = 3
PROPERTIES
  DisabledStays
CHECK_DEADLOCK FALSE
