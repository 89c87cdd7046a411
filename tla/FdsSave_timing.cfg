SPECIFICATION FairSpec
CONSTANTS
  SideCount = 1
  Contents <- MCContents
  Base <- AllA
  SaveIdle = 2
  SaveMax = 4
  HasPath = TRUE
  HasExport = TRUE
  Imports <- NoImports
  Loads <- NoLoads
  TierSwaps = TRUE
  MayFail = TRUE
  MaxGen = 3
  MaxBack = 0
INVARIANTS
  SavedInTime
PROPERTIES
  RetryWaits
  EventuallySaved
