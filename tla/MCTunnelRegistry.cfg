\* Three sockets over two tunnels: a pool of three, or a pool of two beside
\* another, and an index that wraps round the largest pool.
CONSTANTS
    t1 = t1
    t2 = t2
    s1 = s1
    s2 = s2
    s3 = s3
    alice = alice
    bob = bob
    forged = forged
    undefined = undefined
    Tunnel = {t1, t2}
    Socket = {s1, s2, s3}
    Token = {alice, bob, forged}
    ValidToken = {alice, bob}
    Rules = {"open", "office"}
    TargetHost = {"localhost"}
    Undefined = undefined
    MaxIndex = 5
SPECIFICATION FairSpec
SYMMETRY MCSymmetry
CHECK_DEADLOCK FALSE
INVARIANTS
    RegistryTypeOK
    PoolsMatchConnections
    RulesFollowPool
    CountsAreExact
    RoundRobinFair
