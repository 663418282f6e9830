SPECIFICATION Spec
CONSTANTS
  a = a
  b = b
  c = c
  Names <- Units
  Libraries <- FilesLibraries
  Commands <- FilesCommands
  Faults = {"kill"}
  MaxCommands = 4
  MaxDepth = 3
INVARIANTS
  TypeOK
  LinkHasParent
  RequiredIsActive
PROPERTIES
  LifecycleSpec
CHECK_DEADLOCK FALSE
