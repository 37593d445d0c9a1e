SPECIFICATION Spec
CONSTANTS
    RegCount = 12
    TempRegs <- MCTempRegs
    Kinds <- AllKinds
    Drawn <- MCDrawn
    Fixed <- MCFixed
    Compressed <- MCCompressed
    FileSize = 2
INVARIANTS TypeOK RegistersAccounted NeverRaises PointersHold OperandsIntact FilesComplete
CHECK_DEADLOCK FALSE
