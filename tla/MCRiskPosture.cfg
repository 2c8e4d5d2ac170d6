\* The posture engine while requests keep coming.
SPECIFICATION BusySpec

CONSTANTS
    DecayAfter = 1
    RegressAfter = 6
    Day = 6
    Night <- MCNight
    NoVeto = NoVeto
    MaxVetoes = 3
    MaxAlerts = 2

INVARIANTS
    TypeOK
    VetoesLock
PROPERTIES
    NoHastyRegress
    AutoRegresses
