--------------------------- MODULE TunnelRegistry ---------------------------
(***************************************************************************)
(* The relay's registry of tunnels: which socket.io connections serve a    *)
(* tunnel, which of them gets the next request, and the access rules and   *)
(* target host its visitors meet.                                          *)
(*                                                                         *)
(* socket-server/TunnelSocketManager.ts admits a connection and files it;  *)
(* lib/TunnelSocketRegistry.ts holds the pools; stats/ConnectedUsers.ts    *)
(* counts the distinct tokens behind the open connections.  Every handler  *)
(* runs to its end before the next one starts, so each is one action.      *)
(* A reconnecting client is a new socket: a member of Socket is never      *)
(* used twice, exactly as socket.io never reuses a socket id.              *)
(***************************************************************************)
EXTENDS Integers, FiniteSets, SequencesExt

CONSTANTS
    Tunnel,       \* tunnel ids (the x-tunnel-id header)
    Socket,       \* socket.io connections, each used once
    Token,        \* auth tokens a client can present
    ValidToken,   \* those whose JWT signature verifies
    Rules,        \* CIDR rules after normalizeCidrList
    TargetHost,   \* target hosts after normalizeTargetHost
    Undefined,    \* JavaScript's undefined
    MaxIndex      \* bound on the round-robin index of a pool

\* What a client sends when it connects; Undefined stands for what it left out.
Handshake == [tunnel     : Tunnel \cup {Undefined},
              token      : Token \cup {Undefined},
              rules      : Rules,
              targetHost : TargetHost \cup {Undefined}]

ASSUME RegistryAssumption ==
    /\ ValidToken \subseteq Token
    /\ Undefined \notin Tunnel \cup Token \cup Rules \cup TargetHost
                        \cup Handshake \cup Seq(Socket)
    /\ MaxIndex \in Nat

VARIABLES
    conn,         \* life of a connection: "new", "open", "closed"
    handshake,    \* what the client sent when it connected
    pools,        \* tunnel -> the sockets of its pool, in order of arrival
    index,        \* tunnel -> the round-robin index of its pool
    cidrRules,    \* tunnel -> rules in force
    targetHosts,  \* tunnel -> target host in force
    bySocket      \* socket -> token it is counted under

registryVars == <<conn, handshake, pools, index, cidrRules, targetHosts, bySocket>>

RegistryInit ==
    /\ conn        = [s \in Socket |-> "new"]
    /\ handshake   = [s \in Socket |-> Undefined]
    /\ pools       = [t \in Tunnel |-> Undefined]
    /\ index       = [t \in Tunnel |-> 0]
    /\ cidrRules   = [t \in Tunnel |-> Undefined]
    /\ targetHosts = [t \in Tunnel |-> Undefined]
    /\ bySocket    = [s \in Socket |-> Undefined]

-----------------------------------------------------------------------------
(* The registry's own operators *)

Has(t) == pools[t] # Undefined

PoolOf(t) == IF Has(t) THEN pools[t] ELSE <<>>

PoolSize(t) == Len(PoolOf(t))

\* Mutant: the index is clamped to the pool instead of wrapped round it.
NextPickClamped(t) ==
    pools[t][(IF index[t] < Len(pools[t]) THEN index[t] ELSE Len(pools[t]) - 1) + 1]

\* The socket the pool of t hands out next; pick() then advances the index.
NextPick(t) == pools[t][(index[t] % Len(pools[t])) + 1]

tunnelCount == Cardinality({t \in Tunnel : Has(t)})

connectionCount ==
    LET size == [t \in {u \in Tunnel : Has(u)} |-> PoolSize(t)]
    IN  FoldFunction(+, 0, size)

\* Mutant: two connections of one user are two users.
userCountBySocket == Cardinality({s \in Socket : bySocket[s] # Undefined})

userCount == Cardinality({bySocket[s] : s \in Socket} \ {Undefined})

-----------------------------------------------------------------------------
(* Admission: authMiddleware, then onConnection *)

Admitted(h) == h.tunnel # Undefined /\ h.token \in ValidToken

\* A handshake without tunnel id or with a token that does not verify.
Refuse(s, h) ==
    /\ conn[s] = "new" /\ ~Admitted(h)
    /\ conn' = [conn EXCEPT ![s] = "closed"]
    /\ UNCHANGED <<handshake, pools, index, cidrRules, targetHosts, bySocket>>

\* add, track, setCidrRules, setTargetHost: the newest connection's rules and
\* target host replace those of the whole tunnel.
Connect(s, h) ==
    /\ conn[s] = "new" /\ Admitted(h)
    /\ conn' = [conn EXCEPT ![s] = "open"]
    /\ handshake' = [handshake EXCEPT ![s] = h]
    /\ pools' = [pools EXCEPT ![h.tunnel] = Append(PoolOf(h.tunnel), s)]
    /\ index' = [index EXCEPT ![h.tunnel] = IF Has(h.tunnel) THEN @ ELSE 0]
    /\ cidrRules' = [cidrRules EXCEPT ![h.tunnel] = h.rules]
    /\ targetHosts' = [targetHosts EXCEPT ![h.tunnel] = h.targetHost]
    /\ bySocket' = [bySocket EXCEPT ![s] = h.token]

\* Mutant: an empty pool stays in the map.
PoolKept(rest) == rest

\* What becomes of a pool of which rest is left.
PoolLeft(rest) == IF rest = <<>> THEN Undefined ELSE rest

\* Mutant: the index is pulled back to make up for the socket that left.
IndexPulledBack(t, rest) == IF rest = <<>> THEN 0 ELSE index[t] - 1

\* The index lives in the pool and goes with it.
IndexLeft(t, rest) == IF rest = <<>> THEN 0 ELSE index[t]

\* Mutant: the maps beside the pools are never cleared.
SettingKept(setting, t, rest) == setting[t]

\* cidrRules and targetHosts are cleared with the pool.
SettingLeft(setting, t, rest) == IF rest = <<>> THEN Undefined ELSE setting[t]

\* The socket leaves its pool; the last one takes the pool, its index, the
\* rules and the target host with it.
Disconnect(s) ==
    /\ conn[s] = "open"
    /\ LET t    == handshake[s].tunnel
           rest == RemoveFirst(PoolOf(t), s)
       IN  /\ pools' = [pools EXCEPT ![t] = PoolLeft(rest)]
           /\ index' = [index EXCEPT ![t] = IndexLeft(t, rest)]
           /\ cidrRules' = [cidrRules EXCEPT ![t] = SettingLeft(cidrRules, t, rest)]
           /\ targetHosts' = [targetHosts EXCEPT ![t] = SettingLeft(targetHosts, t, rest)]
    /\ conn' = [conn EXCEPT ![s] = "closed"]
    /\ bySocket' = [bySocket EXCEPT ![s] = Undefined]
    /\ UNCHANGED handshake

\* A request for t asks the registry for a socket.
Resolve(t) ==
    /\ Has(t) /\ index[t] < MaxIndex
    /\ index' = [index EXCEPT ![t] = @ + 1]
    /\ UNCHANGED <<conn, handshake, pools, cidrRules, targetHosts, bySocket>>

RegistryNext ==
    \/ \E s \in Socket, h \in Handshake : Connect(s, h) \/ Refuse(s, h)
    \/ \E s \in Socket : Disconnect(s)
    \/ \E t \in Tunnel : Resolve(t)

RegistrySpec == RegistryInit /\ [][RegistryNext]_registryVars

-----------------------------------------------------------------------------
(* Properties *)

\* Type invariant of the registry's maps and of the connections' life.
RegistryTypeOK ==
    /\ conn \in [Socket -> {"new", "open", "closed"}]
    /\ handshake \in [Socket -> Handshake \cup {Undefined}]
    /\ pools \in [Tunnel -> Seq(Socket) \cup {Undefined}]
    /\ index \in [Tunnel -> 0 .. MaxIndex]
    /\ cidrRules \in [Tunnel -> Rules \cup {Undefined}]
    /\ targetHosts \in [Tunnel -> TargetHost \cup {Undefined}]
    /\ bySocket \in [Socket -> Token \cup {Undefined}]

\* The pools are exactly the open connections: a connection that is open
\* stands in the pool of the tunnel it announced and in no other, once; a
\* closed one stands in none, so no request is ever routed to it; and no
\* pool is empty (NextPick would divide by zero).
PoolsMatchConnections ==
    \A t \in Tunnel :
        /\ Has(t) => pools[t] # <<>>
        /\ IsInjective(PoolOf(t))
        /\ \A s \in Socket :
              s \in ToSet(PoolOf(t)) <=> conn[s] = "open" /\ handshake[s].tunnel = t

\* The rules and the target host in force belong together and to the pool: both
\* come from the handshake of one connection to this tunnel, that connection is
\* the newest of the pool unless it has left, and a tunnel without a pool keeps
\* neither (remove() clears all three maps, onConnection sets both).
RulesFollowPool ==
    \A t \in Tunnel :
        IF Has(t)
        THEN \E s \in Socket :
                /\ handshake[s] # Undefined /\ handshake[s].tunnel = t
                /\ cidrRules[t] = handshake[s].rules
                /\ targetHosts[t] = handshake[s].targetHost
                /\ conn[s] = "open" => s = Last(pools[t])
        ELSE cidrRules[t] = Undefined /\ targetHosts[t] = Undefined

\* The figures of `stats`: tunnels, connections and users are those of the
\* open connections, whatever connected and disconnected before.
CountsAreExact ==
    LET open == {s \in Socket : conn[s] = "open"}
    IN  /\ tunnelCount = Cardinality({handshake[s].tunnel : s \in open})
        /\ connectionCount = Cardinality(open)
        /\ userCount = Cardinality({handshake[s].token : s \in open})

\* What the changelog says of the pool: "multiple connections are accepted up
\* to the pool limit".
PoolWithinLimit(limit) == \A t \in Tunnel : PoolSize(t) <= limit
=============================================================================
