SPECIFICATION GpsSpec
CONSTANTS
    Sentences <- cycle
    Callbacks = {"location"}
    Disciplined = TRUE
    FaultKinds = {}
    MaxFaults = 0
    MaxStarts = 1
    MaxQueue = 3
    SentencesPerRead = 1
    MaxSvs = 0
INVARIANT
    FixDelivered
CHECK_DEADLOCK FALSE
