SPECIFICATION Spec
CONSTANTS
    surface = surface
    lost = lost
    NB_BUFFER = 3
    FaultKinds = {"open", "streamon", "qbuf"}
    MaxFaults = 1
    Msgs = {"PREVIEW_FRAME", "COMPRESSED_IMAGE"}
    Windows = {surface}
    Abandoned = {}
    Nodes = {4, 5}
INVARIANTS
    TypeOK
    BufferConservation
    SessionClean
    NeverNullFrame
    DrainNeverStarves
PROPERTIES
    MethodsReturn
    PreviewThreadLoops
    ImplementsSession
