SPECIFICATION Spec
CONSTANTS
    surface = surface
    lost = lost
    NB_BUFFER = 2
    FaultKinds = {"window"}
    MaxFaults = 1
    Msgs = {"PREVIEW_FRAME"}
    Windows = {surface}
    Abandoned = {}
    Nodes = {4}
PROPERTY
    PreviewThreadLoops
CHECK_DEADLOCK FALSE
