SPECIFICATION Spec
CONSTANTS
  SideCount = 2
  Length <- Lengths
  Bytes <- TwoBytes
  Image <- OneMark
  Reloads <- SomeReloads
  TimerControls <- AllTimerControls
  Enables <- BothWays
  Data <- MarkByte
  Controls <- AllControls
  DiskChanges = TRUE
  ByteDelay = 1
  SpinUp = 2
  EndIrq = TRUE
  WriteBehind = 0
  WriteProtect = FALSE
  HeadEnd = 5
INVARIANTS
  IInv
  RunIsWhole
  TimerOnTime
PROPERTIES
  DrivesMedia
CONSTRAINTS
  TimerApart
