\* Edits of one file and of two, demands that come and go, failures in between.
CONSTANTS
  Paths <- MCPaths
  Roots <- MCPaths
  Texts <- MCTexts
  Runs = {}
  Imports <- MCImports
  Shape <- MCShape
  AsyncTargets <- NoAsyncTargets
  NonDurable = {"b"}
  Symbols <- MCSymbols
  Declarer <- MCDeclarer
  AliasOf <- MCAliasOf
  Uses <- MCUses
  MaxInPlace = 1
  Named <- MCNamed
  DemandSets <- MCDemandSets
  Edits <- MCEdits
  InitialSources <- MCInitialSources
  MaxUpdates = 2
SPECIFICATION Spec
INVARIANTS DeclarationsIndexed ChangesCoverMoves ReferencesSound
PROPERTY PatchKeepsComplete
CHECK_DEADLOCK FALSE
