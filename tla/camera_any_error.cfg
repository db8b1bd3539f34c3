SPECIFICATION Spec
CONSTANTS
    surface = surface
    lost = lost
    NB_BUFFER = 2
    FaultKinds = {"open", "init", "streamon", "streamoff", "dqbuf", "qbuf", "window", "release"}
    MaxFaults = 2
    Msgs = {"PREVIEW_FRAME", "COMPRESSED_IMAGE"}
    Windows = {surface, lost}
    Abandoned = {lost}
    Nodes = {4, 5}
INVARIANTS
    DeviceExclusion
    OneLateFrame
    WindowStable
    CameraInv
CHECK_DEADLOCK FALSE
