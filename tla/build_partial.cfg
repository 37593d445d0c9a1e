SPECIFICATION Spec
CONSTANTS
    Tasks <- ChainTasks
    Deps <- ChainDeps
    Sources = {"model", "test"}
    Inputs <- ChainInputs
    Versions = {1}
    Intermediate <- SigOnly
    ConfigOf <- ChainConfig
    Absent = Absent
    Corrupt = Corrupt
    Unrecorded = Unrecorded
    Kind <- ChainKind
    StdoutFile <- ChainStdout
    Jobs = 2
    OptionSets <- AllOptions
    CanFail = {}
    MaxBuilds = 3
    MaxStops = 1
    MaxEdits = 1
INVARIANT SkippedIsCurrent
CHECK_DEADLOCK FALSE
