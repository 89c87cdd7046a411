SPECIFICATION FairSpec
CONSTANTS
  MaxSegment = 3
  Capacity = 5
  Sizes <- TwoSizes
  MayFail = TRUE
  SegmentFrames = 2
  Segments = 2
  Limit = 3
  MaxChanges = 1
INVARIANTS
  ReplaysAlone
  OwnLines
  ReplaysAfterCrash
  Retention
  NothingLostQuietly
PROPERTIES
  HungInputOnDisk
  ShutdownEnds
