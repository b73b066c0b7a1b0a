SPECIFICATION ManagerFairSpec
CONSTANTS
    Producers = 2
    MaxStops = 3
INVARIANTS NoLostWakeup FirstStopIsQuiet
PROPERTIES StopReturns StopTakesEffect
