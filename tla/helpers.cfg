SPECIFICATION HelperSpec
CONSTANTS
  main = main
  t1 = t1
  t2 = t2
  Texts <- TextOrder
  Vocabulary <- VocabularyUsed
  ServiceNames = {"a"}
  TargetNames = {"b"}
  Files <- UnitFiles
  Scripts <- EnvScripts
  Outer <- OuterEnv
  Upper <- UpperCase
  MaxRounds = 3
  Main = main
  Threads = {main, t1, t2}
  Uses <- StreamUses
  Limit = 2
  Beyond = 6
INVARIANTS ReaderTypeOK SectionsRight ReadersAgree EnvTypeOK ExpandedRight RestartSameEnv StreamTypeOK StaysInBuffer LinesIntact NoStaleWrite
PROPERTIES ReadingAdvances ReadingEnds ExpansionEnds
CHECK_DEADLOCK FALSE
