SPECIFICATION TbSpec
CONSTANTS
    ByteSize = 4
    WordSize = 256
    NRegs = 3
    Funct3AtInit = 0
    AluOut <- Alu
    ComparisonResult <- Comparator
    PowerUpRegisters <- PowerUp
    Programs <- TestPrograms
    HaltAddress = 128
    T0 = 1
    T1 = 2
    ResetEdges = 2
    MaxCycleCounts = {0, 2, 9, 10, 11, 12, 13, 14}
INVARIANTS
    TbTypeOK
    VerdictNeedsHalt
    VerdictIsTheTests
PROPERTIES
    TimeoutNeverHidesHalt
    SimulationEnds
CHECK_DEADLOCK FALSE
