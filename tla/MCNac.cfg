SPECIFICATION FairSpec
CONSTANTS
    Networks = {home, office}
    Default = default
    None = None
    MaxRetry = 5
    MaxEvents = 3
    Circumstances <- Patience
INVARIANTS WorkHasWorker ConnectedMeansLink EndedOnRequest
    DisconnectedMeansNoLink
PROPERTIES ConnectingEnds LoneScanEnds OneRequestCredsProven
    StoredByAttempt
