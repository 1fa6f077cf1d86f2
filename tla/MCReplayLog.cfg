CONSTANTS
  Paths = {a, b}
  Texts = {t}
  NoChange = NoChange
  MaxVersion = 3
  MaxBatches = 3
  MonotoneVersions = TRUE
  ReplayMayBeRefused = FALSE
SPECIFICATION Spec
INVARIANTS OverlaysRestored OneOverlayPerPath AppliedOnce ReplayInvariant
PROPERTY CallsReturn
CHECK_DEADLOCK FALSE
