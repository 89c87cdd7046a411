SPECIFICATION Spec
CONSTANTS
    Bytes = {ff, a}
    Fresh = ff
    Torn = torn
    None = none
    Legacy = none
    Debounce = 2
    MaxDirty = 3
    Depth = 2
    Roles = {"offline", "host", "guest"}
    Rollbacks = {"host"}
    Refusals = {}
    Failing = {}
INVARIANT SavedInTime
