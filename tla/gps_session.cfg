SPECIFICATION GpsSpec
CONSTANTS
    Sentences <- fixes
    Callbacks = {"location", "nmea"}
    Disciplined = TRUE
    FaultKinds = {}
    MaxFaults = 0
    MaxStarts = 2
    MaxQueue = 2
    SentencesPerRead = 1
    MaxSvs = 0
PROPERTIES
    StatusConverges
    LocationAnswered
CHECK_DEADLOCK FALSE
