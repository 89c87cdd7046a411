SPECIFICATION Spec
CONSTANTS
    Bytes = {ff, a, b}
    Fresh = ff
    Torn = torn
    None = none
    Legacy = a
    Debounce = 3
    MaxDirty = 5
    Depth = 2
    Roles = {"offline", "host", "guest"}
    Rollbacks = {"guest"}
    Refusals = {"early", "barrier"}
    Failing = {"personal"}
INVARIANTS SavedWithoutRollback
PROPERTIES GuestKept BootsOwnSave
