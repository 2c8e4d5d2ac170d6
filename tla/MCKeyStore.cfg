CONSTANTS
    Key = {k1, k2}
    NoKey = NoKey
    Cli = {c1, c2}
    MaxTime = 3
    MaxKills = 1
SYMMETRY Symmetry
CHECK_DEADLOCK FALSE
SPECIFICATION Spec
INVARIANTS
    TypeOK
    StaleIsNoticed
    SequentialUseIsExact
