SPECIFICATION FairSpec
CONSTANTS
    t1 = t1
    t2 = t2
    Tests <- TwoTests
    Jobs = 1
    HasSummaryFile = FALSE
    Graceful <- NoTests
    Printable <- Verdicts
    Missing = Missing
    MaxRuns = 2
    MaxInterrupts = 0
INVARIANTS TypeOK PassIsEarned NothingLeftRunning ExitTellsTheTruth
PROPERTY RunEnds
CHECK_DEADLOCK FALSE
