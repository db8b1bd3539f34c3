SPECIFICATION RecoverySpec
CONSTANTS
    Scripts = {"a", "b"}
    MaxSetups = 3
    MaxCuts = 2
    MaxFailures = 2
INVARIANTS
    ScriptKept
    RestoresWhatWas
    NeverStuck
PROPERTIES
    RecoveryReached
CHECK_DEADLOCK FALSE
