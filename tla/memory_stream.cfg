SPECIFICATION StreamSpec
CONSTANTS
    PipeSize = 2
    size = 4
    MaxPicture = 7
    FaultKinds = {"pipe", "thread", "wakeup"}
    MaxFaults = 2
INVARIANTS
    PictureComplete
    MissedSignalOnlyWhenFull
    AliveIfItFits
PROPERTIES
    CloseReturns
CHECK_DEADLOCK FALSE
