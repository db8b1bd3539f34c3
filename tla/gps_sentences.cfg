SPECIFICATION GpsSpec
CONSTANTS
    Sentences <- groups
    Callbacks = {"sv"}
    Disciplined = TRUE
    FaultKinds = {}
    MaxFaults = 0
    MaxStarts = 2
    MaxQueue = 1
    SentencesPerRead = 1
    MaxSvs = 4
INVARIANT
    SvListBounded
CHECK_DEADLOCK FALSE
