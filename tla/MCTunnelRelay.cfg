\* One HTTP request and one upgrade over a pool of up to two sockets.
CONSTANTS
    Tunnel = {t1}
    Socket = {s1, s2}
    Token = {alice}
    ValidToken = {alice}
    TargetHost = {}
    Undefined = undefined
    MaxIndex = 3
    inside = inside
    Rules <- MCRules
    Http = {h1}
    Upgrade = {u1}
    Ip = {inside}
    MaxChunk = 2
SPECIFICATION RelaySpec
SYMMETRY MCSymmetry
CHECK_DEADLOCK FALSE
INVARIANTS
    NoOrphan
    BodyFaithful
    HeadOnce
    GaugesExact
    ListenersReleased
