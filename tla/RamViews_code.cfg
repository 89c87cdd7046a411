SPECIFICATION Spec
CONSTANTS
    c1 = c1
    c2 = c2
    s = s
    m1 = m1
    reg = reg
    rom = rom
    Cell <- MC_Cell
    Byte = {0, 1}
    StackCell = {s}
    CartCell = {c2}
    Addr <- MC_Addr
    Phys <- MC_Phys
    Modes <- MC_Modes
    NViews = 4
    Entries <- MC_Entries
    Reads <- MC_Reads
    Image <- MC_Image
    Site <- MC_Site
    Key <- MC_Key
    Rom = rom
    ScopesFrom = {"hook"}
INVARIANTS
    Verdicts
    RunsWhatRamHolds
PROPERTIES
    NotPassedOver
    FiresOnce
