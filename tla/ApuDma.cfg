SPECIFICATION Spec
CONSTANTS
  PageSize = 3
  Bits = 1
  Rates = {12}
  Lens = {1, 2}
  PowerTimer = 12
  Pal = FALSE
  Extra = FALSE
  Registers = {"rate", "length", "sprite", "enable"}
  MaxBusy = 2
INVARIANTS
  NativeQuiet
PROPERTIES
  SpriteOrder
  Released
  SampleEnds
