\* The chain under restarts and appends that raise.
SPECIFICATION ChainSpec

CONSTANTS
    MaxDay = 3
    MaxEvents = 6
    MaxFailures = 3

INVARIANTS
    ChainTypeOK
    BreaksAreFailures
    LossIsBounded
