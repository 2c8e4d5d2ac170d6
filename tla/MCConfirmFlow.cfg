\* Two operations, which may share an event id, decided by four users.
CONSTANTS
    alice = alice
    bob = bob
    root = root
    guest = guest
    Op = {o1, o2}
    Event = {e1, e2}
    User = {alice, bob, root, guest}
    Role <- MCRole
    Key = {k1}
    NoKey = NoKey
    NoRequest = NoRequest
    NoJob = NoJob
    PendingTtl = 1
    IdemTtl = 1
    MaxClock = 3
SPECIFICATION Spec
SYMMETRY Symmetry
INVARIANTS
    TypeOK
    ExecutedAtMostOnce
    DenialIsFinal
PROPERTIES
    ExecutesInTime
    ImplementsApproval
