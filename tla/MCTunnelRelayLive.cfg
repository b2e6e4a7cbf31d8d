\* Liveness: one HTTP request and one upgrade over one socket.
CONSTANTS
    Tunnel = {t1}
    Socket = {s1}
    Token = {alice}
    ValidToken = {alice}
    TargetHost = {}
    Undefined = undefined
    MaxIndex = 2
    inside = inside
    Rules <- MCRulesOne
    Http = {h1}
    Upgrade = {u1}
    Ip = {inside}
    MaxChunk = 1
SPECIFICATION RelayFairSpec
CHECK_DEADLOCK FALSE
PROPERTIES
    EveryVisitorAnswered
    DisconnectCloses
    ListenersGo
