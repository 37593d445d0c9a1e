SPECIFICATION HistorySpec
CONSTANTS
    Tasks <- ChainTasks
    Deps <- ChainDeps
    Sources = {"model", "test"}
    Inputs <- ChainInputs
    Versions = {1, 2}
    Intermediate <- SigOnly
    ConfigOf <- ChainConfig
    Absent = Absent
    Corrupt = Corrupt
    Unrecorded = Unrecorded
    Kind <- ChainKind
    StdoutFile <- ChainStdout
    Jobs = 2
    OptionSets <- HistoryOptions
    CanFail <- ElfOnly
    MaxBuilds = 3
    MaxStops = 1
    MaxEdits = 2
INVARIANT UpToDateUnlessLost
CHECK_DEADLOCK FALSE
