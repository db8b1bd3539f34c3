SPECIFICATION GpsSpec
CONSTANTS
    Sentences <- positions
    Callbacks = {"location", "sv"}
    Disciplined = TRUE
    FaultKinds = {"open", "spawn", "hangup", "eintr"}
    MaxFaults = 2
    MaxStarts = 2
    MaxQueue = 2
    SentencesPerRead = 2
    MaxSvs = 0
INVARIANTS
    CallbackRegistered
    OneLateCallback
    QuietAfterStop
    NoDescriptorLost
    GpsInv
CHECK_DEADLOCK FALSE
