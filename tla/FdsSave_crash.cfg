SPECIFICATION Spec
CONSTANTS
  SideCount = 2
  Contents <- MCContents
  Base <- AllA
  SaveIdle = 1
  SaveMax = 1
  HasPath = TRUE
  HasExport = TRUE
  Imports <- MayImport
  Loads <- SomeLoads
  TierSwaps = FALSE
  MayFail = TRUE
  MaxGen = 3
  MaxBack = 2
INVARIANTS
  SavedMeansSaved
  IInv
PROPERTIES
  RefusedStays
  ExitKeepsAll
  Implements
