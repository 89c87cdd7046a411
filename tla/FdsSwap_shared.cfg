SPECIFICATION FairSpec
CONSTANTS
  SideCount = 2
  SwapHold = 1
  WaitPolls = 2
  WaitGap = 1
  WaitHold = 2
  AnchorPending = 1
  MaxRounds = 1
  DiskHold = 1
  MaxWait = 2
  Masks <- MCMasks
  SavedStates <- SafeStates
  Hosts <- AllHosts
INVARIANTS
  TierNeverStrands
  SwapNeverStrands
  IInv
PROPERTIES
  WriteNeverCut
  TierFinishes
  FlipFinishes
