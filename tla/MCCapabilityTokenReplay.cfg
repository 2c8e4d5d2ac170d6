\* One thread is enough: it presents the same token twice, the second time
\* across the expiry.
CONSTANTS
    Thread = {t1}
    NoThread = NoThread
    Nonce = {n1}
    Scope = {s1}
    NoToken = NoToken
    Ttl = 2
    MaxClock = 3
SPECIFICATION Spec
INVARIANT SingleUse
