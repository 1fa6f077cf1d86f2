\* Accessors that come and go with edits and with demand sets.
CONSTANTS
  Paths <- MCPaths
  Texts <- MCTexts
  Symbols <- MCSymbols
  Counters = {"n"}
  Declarer <- MCDeclarer
  Runs <- MCRuns
  Accessors <- MCAccessors
  Described <- MCDescribed
  TypeAt <- MCTypeAt
  DemandSets <- MCDemandSets
  MaxUpdates = 4
SPECIFICATION Spec
INVARIANTS IndexesMirrorStore RowsDeclaredAsFresh
CHECK_DEADLOCK FALSE
