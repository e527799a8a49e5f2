CONSTANTS
    t1 = t1
    t2 = t2
    Unavailable = Unavailable
    SensorTypes <- MCSensorTypes
    AttrsMap <- MCAttrsMap
    Uptime <- MCUptime
    Readings <- MCReadings

SPECIFICATION Spec

INVARIANT ShownMatchesData
