CONSTANTS
  Paths <- MCPaths
  Roots <- MCPaths
  Texts <- MCTexts
  Runs  <- MCRuns
  Imports <- MCImports
  Shape <- MCShape
  AsyncTargets <- MCAsyncTargets
  NonDurable = {"b"}
  InitialSources <- MCInitialSources
  DemandSets <- MCDemandSets
  Edits <- MCEdits
  MaxGeneration = 3
  MaxToken = 3
  NoPaths = NoPaths
  NoAsync = NoAsync
SPECIFICATION Spec
INVARIANTS TokenProvesAgreement AnswersAccepted GenerationsAgree RetainedTogether ContributionsFresh
PROPERTY ReturnedTableFresh
PROPERTY CallsReturn
CHECK_DEADLOCK FALSE
