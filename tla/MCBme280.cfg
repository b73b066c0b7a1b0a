SPECIFICATION Spec
CONSTANTS
    Mode = "forced"
    Sensors = {s1, s2}
    NoSensor = NoSensor
    Attempts = 3
    MaxFaults = 4
INVARIANTS
    SoundReading
    OneLossPerFault
PROPERTIES
    Recovers
