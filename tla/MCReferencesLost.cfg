\* The same environment, asked whether the lists are complete.
CONSTANTS
  Paths <- MCPaths
  Roots <- MCPaths
  Texts <- MCTexts
  Runs = {}
  Imports <- MCImports
  Shape <- MCShape
  AsyncTargets <- NoAsyncTargets
  NonDurable = {}
  Symbols <- MCSymbols
  Declarer <- MCDeclarer
  AliasOf <- MCAliasOf
  Uses <- MCUses
  MaxInPlace = 64
  Named <- MCNamed
  DemandSets <- MCDemandSets
  Edits <- MCEdits
  InitialSources <- MCInitialSources
  MaxUpdates = 2
SPECIFICATION Spec
INVARIANT ReferencesComplete
CHECK_DEADLOCK FALSE
