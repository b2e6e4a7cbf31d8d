---------------------------- MODULE PoolFairness ----------------------------
(***************************************************************************)
(* The registry with a history variable that counts what each socket of a  *)
(* pool was handed since the pool last changed, to say what RoundRobin-    *)
(* Strategy promises.  The strategy keeps only an ever-growing index: it   *)
(* is not adjusted when the pool grows or shrinks under it.                *)
(***************************************************************************)
EXTENDS TunnelRegistry

VARIABLE picks    \* socket -> requests routed to it since its pool changed

fairVars == <<registryVars, picks>>

\* The counts of a pool start over when a socket joins or leaves it.
PoolChanged(t) ==
    picks' = [s \in Socket |-> IF s \in ToSet(PoolOf(t)) THEN 0 ELSE picks[s]]

FairInit == RegistryInit /\ picks = [s \in Socket |-> 0]

FairConnect(s, h) == Connect(s, h) /\ PoolChanged(h.tunnel)

FairRefuse(s, h) == Refuse(s, h) /\ UNCHANGED picks

FairDisconnect(s) == Disconnect(s) /\ PoolChanged(handshake[s].tunnel)

FairResolve(t) ==
    /\ Resolve(t)
    /\ picks' = [picks EXCEPT ![NextPick(t)] = @ + 1]

FairNext ==
    \/ \E s \in Socket, h \in Handshake : FairConnect(s, h) \/ FairRefuse(s, h)
    \/ \E s \in Socket : FairDisconnect(s)
    \/ \E t \in Tunnel : FairResolve(t)

FairSpec == FairInit /\ [][FairNext]_fairVars

\* Requests are spread evenly over the connections of a pool: while nobody
\* joins or leaves, no connection is ever two requests ahead of another,
\* wherever in the cycle the index stood when the pool last changed.
RoundRobinFair ==
    \A t \in Tunnel : \A a, b \in ToSet(PoolOf(t)) : picks[a] <= picks[b] + 1
=============================================================================
