CONSTANTS
    Key = {k1, k2}
    NoKey = NoKey
    Cli = {c1}
    MaxTime = 3
    MaxKills = 0
CHECK_DEADLOCK FALSE
SPECIFICATION Spec
INVARIANT RevokedIsRefused
