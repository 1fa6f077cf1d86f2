CONSTANTS
  Paths <- MCPaths
  Run <- MCRun
  Requests <- MCRequests
SPECIFICATION Spec
INVARIANTS PathOrder RollbackRestores ChangedPathsComplete RunsMeanRequest
PROPERTY Implements
