CONSTANTS
  Paths <- GapPaths
  Roots <- OnlyA
  Texts <- GapTexts
  Runs  <- GapRuns
  Imports <- JoinImports
  Shape <- GapShape
  AsyncTargets <- OwnAsync
  NonDurable = {}
  InitialSources <- GapInitialSources
  DemandSets <- PlainDemands
  Edits <- JoinEdits
  MaxGeneration = 2
  MaxToken = 2
  NoPaths = NoPaths
  NoAsync = NoAsync
SPECIFICATION Spec
INVARIANT ManifestNamesEveryChange
CHECK_DEADLOCK FALSE
