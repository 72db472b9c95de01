SPECIFICATION Spec
CONSTANTS
    sbox <- MCsbox
    rsbox <- MCrsbox
    Rcon <- MCRcon
    Keys <- MCKeys
    Blocks <- MCBlocks
    Answers <- MCAnswers
    MaxCalls = 3
CHECK_DEADLOCK FALSE
INVARIANTS
    TypeOK
    KnownAnswer
    Unwinds
    MixIsMatrix
