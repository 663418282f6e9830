SPECIFICATION FairSpec
CONSTANTS
  a = a
  b = b
  c = c
  ghost = ghost
  Services = {a, b, c}
  Names = {a, b, c, ghost}
  Setups <- WaitSetups
  MaxPolls = 2
  Bound <- WaitBound
INVARIANTS TypeOK RunsAfterEachWasDown MutualAfterExcludes
PROPERTIES WaitEnds StopEnds
CHECK_DEADLOCK FALSE
