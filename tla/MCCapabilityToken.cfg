\* Two threads, two tokens of life 2, a clock that passes both expiries.
CONSTANTS
    Thread = {t1, t2}
    NoThread = NoThread
    Nonce = {n1, n2}
    Scope = {s1, s2}
    NoToken = NoToken
    Ttl = 2
    MaxClock = 4
SPECIFICATION Spec
INVARIANTS
    TypeOK
    SingleUseWhileLive
    LateGrantsBounded
    BurnedUntilExpiry
