\* Redis with its connection: commands fail, drop out and wait, over restarts.
CONSTANTS
    Req = {r1, r2}
    Subdomain = {sa, sb}
    AuthToken = {alice}
    Anonymous = anonymous
    Hash = {h}
    Undefined = undefined
    Shared = TRUE
    Ttl = 1
    MaxRun = 0
    MaxClock = 1
SPECIFICATION RedisSpec
CHECK_DEADLOCK FALSE
INVARIANTS LinksRegistered
PROPERTIES EveryRequestAnswered
