SPECIFICATION WorkSpec
CONSTANTS
    Values = {v0, v1}
    Default = v0
    Empty = Empty
    Invalid = Invalid
    None = None
    MaxRequests = 2
    MaxFaults = 0
INVARIANTS
    ResetIsStored
