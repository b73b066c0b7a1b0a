SPECIFICATION Spec
CONSTANTS
    Mode = "normal"
    Sensors = {s1}
    NoSensor = NoSensor
    Attempts = 2
    MaxFaults = 1
PROPERTIES Recovers
