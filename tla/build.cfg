SPECIFICATION FairSpec
CONSTANTS
    Tasks <- TreeTasks
    Deps <- TreeDeps
    Sources = {"test"}
    Inputs <- TreeInputs
    Versions = {1}
    Intermediate <- SigOnly
    ConfigOf <- TreeConfig
    Absent = Absent
    Corrupt = Corrupt
    Unrecorded = Unrecorded
    Kind <- TreeKind
    StdoutFile <- TreeStdout
    Jobs = 2
    OptionSets <- AllOptions
    CanFail <- TreeTasks
    MaxBuilds = 2
    MaxStops = 1
    MaxEdits = 0
INVARIANTS TypeOK InputsPresent ShutdownReachesAll CleanLeavesNothing SummaryAddsUp RecordedIsSaved
PROPERTIES OrderedWalk AbortEnds EveryBuildEnds
CHECK_DEADLOCK FALSE
