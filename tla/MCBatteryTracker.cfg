SPECIFICATION Spec
CONSTANTS
    Level = {1, 2, 3, 4}
    Charging = Charging
    Absent = Absent
    NoPacket = NoPacket
    N = 3
    MinToSave = 1
    MinSamples = 2
    Keep = 2
    SaveInterval = 1
    MaxAge = 1
    MaxTime = 2
INVARIANTS OneDischarge ChargingForgets RecountBounded
PROPERTY NewestFalls
