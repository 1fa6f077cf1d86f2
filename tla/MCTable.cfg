\* Sparse and linear application, leaf splits, lost responses.
CONSTANTS
  Paths = {1, 2, 3}
  SymbolIDs = {1, 2}
  PathRows <- MCPathRows
  SymbolFacts <- MCSymbolFacts
  LEAF_TARGET = 1
  LINEAR_REBUILD_MIN_OPERATIONS = 2
  MaxGeneration = 2
SPECIFICATION Spec
INVARIANTS IndexesCanonical ClientHoldsTarget ResponsesAccepted
PROPERTY ChangesExact
CHECK_DEADLOCK FALSE
