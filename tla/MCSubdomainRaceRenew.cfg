\* Two renewals of one free subdomain, over Redis.
CONSTANTS
    r1 = r1
    r2 = r2
    r3 = r3
    sa = sa
    sb = sb
    alice = alice
    bob = bob
    Req = {r1, r2}
    Subdomain = {sa, sb}
    AuthToken = {alice, bob}
    Anonymous = anonymous
    Hash = {h}
    Undefined = undefined
    Shared = TRUE
    Ttl = 1
    MaxRun = 0
    MaxClock = 2
SPECIFICATION Spec
SYMMETRY MCSymmetryTwo
CHECK_DEADLOCK FALSE
PROPERTIES
    OwnerKept
