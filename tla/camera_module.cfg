SPECIFICATION ModuleSpec
CONSTANTS
    MaxOpens = 3
    Sizes = {1, 2}
INVARIANTS
    NullCallOnlyTogether
    PreviewUnderControl
    FrameFits
    SettingsKept
CHECK_DEADLOCK FALSE
