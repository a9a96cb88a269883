\* All guest architectures.
SPECIFICATION MCSpec
CONSTANTS
    W <- MCW
    Layout <- MCLayout
    OpcodeBytes <- AllOpcodes
    OperandBytes <- MCOperands
    InitialRegisters <- MCRegisters
    Memories <- MCMemories
    MaxSteps = 5
    MipsW8 = 1
    MipsW16 = 2
    MipsW32 = 4
    MipsW64 = 8
    MipsW28 = 3
    MipsRegs <- MCMipsRegs
    MipsRegisters <- MCMipsRegisters
    MipsMemory <- MCMipsMemory
    MipsValues <- MCMipsValues
    MipsPrograms64 <- Programs64
    MipsPrograms32 <- Programs32
    M88kImmBits = 4
    M88kValues <- MCM88kValues
    M88kPrograms <- MCM88kPrograms
    ArmW = 8
    ArmRuns <- MCArmRuns
    FapraW = 8
    FapraRegBits = 2
    FapraPrograms <- MCFapraPrograms
    FapraStates <- MCFapraStates
INVARIANTS InterpretersAgree GuestsAsCommented TranslatedAsTagged
    DisassembledAsTranslated
PROPERTIES ArithmeticOf6502 ReturnsOf6502
CHECK_DEADLOCK FALSE
