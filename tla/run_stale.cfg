SPECIFICATION Spec
CONSTANTS
    t1 = t1
    t2 = t2
    Tests <- OneTest
    Jobs = 1
    HasSummaryFile = TRUE
    Graceful <- NoTests
    Printable <- Verdicts
    Missing = Missing
    MaxRuns = 2
    MaxInterrupts = 0
INVARIANT SilentTestFails
CHECK_DEADLOCK FALSE
