\* A tunnel that announced no CIDR rules, and a visitor whose address does not
\* parse as IPv4.
CONSTANTS
    Tunnel = {t1}
    Socket = {s1}
    Token = {alice}
    ValidToken = {alice}
    TargetHost = {}
    Undefined = undefined
    MaxIndex = 3
    inside = inside
    Rules <- MCRules
    Http = {h1}
    Upgrade = {}
    Ip = {inside}
    MaxChunk = 1
SPECIFICATION RelaySpec
CHECK_DEADLOCK FALSE
PROPERTIES
    UnfilteredAdmitsAll
