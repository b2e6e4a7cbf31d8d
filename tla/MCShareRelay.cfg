\* Two connections that host two keys, are each other's clients or their own, die
\* unnoticed and end two sessions from every side.
CONSTANTS
    s1 = s1
    s2 = s2
    k1 = k1
    k2 = k2
    x1 = x1
    x2 = x2
    Socket = {s1, s2}
    PublicKey = {k1, k2}
    Session = {x1, x2}
    None = none
    MaxStream = 2
SPECIFICATION ShareFairSpec
CHECK_DEADLOCK FALSE
INVARIANTS
    ShareTypeOK
    PartiesConnected
    EndNotified
PROPERTIES
    SessionsKept
    DeadLetGo
