\* The in-memory storage: a request runs to its end before the next one starts.
CONSTANTS
    r1 = r1
    r2 = r2
    r3 = r3
    sa = sa
    sb = sb
    alice = alice
    bob = bob
    Req = {r1, r2, r3}
    Subdomain = {sa, sb}
    AuthToken = {alice, bob}
    Anonymous = anonymous
    Hash = {h}
    Undefined = undefined
    Shared = FALSE
    Ttl = 2
    MaxRun = 1
    MaxClock = 3
SPECIFICATION Spec
SYMMETRY MCSymmetry
CHECK_DEADLOCK FALSE
INVARIANTS
    LinksOwned
    CreateReuses
PROPERTIES
    OwnerKept
    SuccessIsStored
