--------------------------- MODULE MCRedisStorage ---------------------------
(* Two requests of one client and of none about two subdomains.               *)
EXTENDS RedisStorage
=============================================================================
