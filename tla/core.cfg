SPECIFICATION RunSpec
CONSTANTS
    ByteSize = 2
    WordSize = 16
    NRegs = 3
    Funct3AtInit = 0
    AluOut <- MCAluOut
    ComparisonResult <- MCComparisonResult
    PowerUpRegisters <- PowerUp
    Programs <- Programs4
INVARIANTS
    TypeOK
    ForwardedOperandsCurrent
    UnforwardableNeverNeeded
    StagesInProgramOrder
PROPERTIES
    StallIsOneCycle
    BubblesDrain
    ImplementsIsaRun
    Progress
