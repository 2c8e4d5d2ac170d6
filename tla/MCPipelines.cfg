CONSTANTS
    Offset <- MCOffset
    Calls <- MCCalls
    Slot = {s1, s2}
    NoSlot = NoSlot
    Intents <- MCIntents
    Roles = {"operator"}
    MaxBatch = 2
    MaxIterations = 3
SPECIFICATION Spec
INVARIANTS
    TypeOK
    RunsTogether
    VetoesPerRequest
    ChainsClose
PROPERTIES
    BlockStopsRequest
    EveryRequestEnds
