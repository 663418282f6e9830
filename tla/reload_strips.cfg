SPECIFICATION Spec
CONSTANTS
  a = a
  b = b
  c = c
  Names <- Units
  Libraries <- SingleLibraries
  Commands <- EnableReload
  Faults = {}
  MaxCommands = 2
  MaxDepth = 3
INVARIANTS
  RegisteredHasFile
CHECK_DEADLOCK FALSE
