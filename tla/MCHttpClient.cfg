SPECIFICATION Spec
CONSTANTS
    a = a
    b = b
    NUL = NUL
    Bytes <- MCBytes
    Chunks <- MCChunks
    BufLen = 4
    JsonLen = 4
    MaxBody = 4
INVARIANTS
    PollingMatchesNetwork
PROPERTIES
    PackageIsResponse
    PollsGoOn
