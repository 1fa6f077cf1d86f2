\* Exports and locals through moves, shape changes and rebuilds.
CONSTANTS
  Paths <- MCPaths
  Roots <- MCPaths
  Texts <- MCTexts
  Runs = {}
  Imports <- MCImports
  Shape <- MCShape
  AsyncTargets <- NoAsyncTargets
  NonDurable = {}
  Where <- MCWhere
  Owner <- MCOwner
  Exports <- MCExports
  Uses <- MCUses
  InitialSources <- MCInitialSources
  Edits <- MCEdits
  MaxUpdates = 3
SPECIFICATION Spec
INVARIANTS RestartStable HeldIdsResolve OneSymbolPerId
CHECK_DEADLOCK FALSE
