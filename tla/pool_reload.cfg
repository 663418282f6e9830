SPECIFICATION FairSpec
CONSTANTS
  a = a
  b = b
  c = c
  Names <- Units
  Libraries <- ReloadLibraries
  Commands <- ReloadCommands
  Faults = {"scm"}
  MaxCommands = 5
  MaxDepth = 3
INVARIANTS
  WantedIsLinked
  ReloadClears
  FilesAreWhole
  SoundLibrarySurvives
PROPERTIES
  CommandEnds
CHECK_DEADLOCK FALSE
