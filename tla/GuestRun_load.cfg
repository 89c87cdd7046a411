SPECIFICATION Spec
CONSTANTS
    c1 = c1
    c2 = c2
    Channel <- MC_Channel
    Kernel = kernel
    None = none
    MaxDepth = 4
    Laps = 2
    Games = {"plain", "kernel"}
    StateGames = {"kernel"}
    SavePoints = {"poll"}
    MaxStuck = 1
INVARIANT
    NoOldStack
