\* Three callers, two probes.
SPECIFICATION FairSpec

CONSTANTS
    Thread = {t1, t2, t3}
    Threshold = 2
    Recovery = 1
    HalfOpenMax = 2

INVARIANTS
    TypeOK
    ProbeLimit
PROPERTIES
    CoolDown
    NeverStuck
