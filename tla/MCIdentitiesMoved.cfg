\* An importer that uses a member of what it imports.
CONSTANTS
  Paths <- MCPaths
  Roots <- MCPaths
  Texts <- MCTexts
  Runs = {}
  Imports <- MCImports
  Shape <- MCShape
  AsyncTargets <- NoAsyncTargets
  NonDurable = {}
  Where <- MCWhere
  Owner <- MCOwner
  Exports <- MCExports
  Uses <- MemberUses
  InitialSources <- MCInitialSources
  Edits <- MCEdits
  MaxUpdates = 3
SPECIFICATION Spec
INVARIANT HeldIdsResolve
CHECK_DEADLOCK FALSE
