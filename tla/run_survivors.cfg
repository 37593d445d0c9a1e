SPECIFICATION FairSpec
CONSTANTS
    t1 = t1
    t2 = t2
    Tests <- OneTest
    Jobs = 1
    HasSummaryFile = TRUE
    Graceful <- OneTest
    Printable <- PassOrFail
    Missing = Missing
    MaxRuns = 2
    MaxInterrupts = 1
INVARIANT ExitTellsTheTruth
PROPERTIES VerdictsAreOwn RunEnds
CHECK_DEADLOCK FALSE
