------------------------ MODULE TunnelRegistryProofs ------------------------
(***************************************************************************)
(* Theorems about TunnelRegistry, and about PoolFairness, which adds a     *)
(* history to it: for every set of tunnels, sockets, tokens, rules and     *)
(* target hosts and every bound on the index.                              *)
(***************************************************************************)
EXTENDS PoolFairness, TLAPS

(* Sequences without duplicates *)

\* The first occurrence RemoveFirst looks for is the only one.
LEMMA RemoveFirstIsRemoveAt ==
    ASSUME NEW S, NEW seq \in Seq(S), IsInjective(seq), NEW i \in 1 .. Len(seq)
    PROVE  RemoveFirst(seq, seq[i]) = SubSeq(seq, 1, i - 1) \o SubSeq(seq, i + 1, Len(seq))
<1> DEFINE I == {j \in 1 .. Len(seq) : seq[j] = seq[i]}
<1>1. I = {i}
  BY DEF IsInjective
<1>2. Min(I) = i
  BY <1>1 DEF Min
<1>3. SelectInSeq(seq, LAMBDA v : v = seq[i]) = i
  BY <1>1, <1>2 DEF SelectInSeq
<1> QED  BY <1>3 DEF RemoveFirst, RemoveAt

\* What is left, index by index.
LEMMA RemoveFirstElements ==
    ASSUME NEW S, NEW seq \in Seq(S), IsInjective(seq), NEW i \in 1 .. Len(seq)
    PROVE  /\ RemoveFirst(seq, seq[i]) \in Seq(S)
           /\ Len(RemoveFirst(seq, seq[i])) = Len(seq) - 1
           /\ \A j \in 1 .. Len(seq) - 1 :
                 RemoveFirst(seq, seq[i])[j] = IF j < i THEN seq[j] ELSE seq[j + 1]
<1> DEFINE before == SubSeq(seq, 1, i - 1)
           after  == SubSeq(seq, i + 1, Len(seq))
<1>1. RemoveFirst(seq, seq[i]) = before \o after
  BY RemoveFirstIsRemoveAt
<1>2. /\ before \in Seq(S) /\ Len(before) = i - 1
      /\ \A j \in 1 .. i - 1 : before[j] = seq[j]
  OBVIOUS
<1>3. /\ after \in Seq(S) /\ Len(after) = Len(seq) - i
      /\ \A j \in 1 .. Len(seq) - i : after[j] = seq[i + j]
  OBVIOUS
<1> HIDE DEF before, after
<1>4. /\ before \o after \in Seq(S)
      /\ Len(before \o after) = Len(seq) - 1
  BY <1>2, <1>3
<1>5. ASSUME NEW j \in 1 .. Len(seq) - 1
      PROVE  (before \o after)[j] = IF j < i THEN seq[j] ELSE seq[j + 1]
  <2>1. CASE j < i
    BY <1>2, <1>3, <2>1
  <2>2. CASE ~(j < i)
    <3>1. (before \o after)[j] = after[j - (i - 1)]
      BY <1>2, <1>3, <2>2
    <3>2. j - (i - 1) \in 1 .. Len(seq) - i /\ i + (j - (i - 1)) = j + 1
      BY <2>2
    <3> QED  BY <1>3, <2>2, <3>1, <3>2
  <2> QED  BY <2>1, <2>2
<1> QED  BY <1>1, <1>4, <1>5

\* Removing a socket from a pool removes it and nothing else, keeps the pool
\* free of duplicates and keeps the newest socket last unless it is the one.
LEMMA RemoveFromPool ==
    ASSUME NEW S, NEW seq \in Seq(S), IsInjective(seq), NEW e \in ToSet(seq),
           NEW rest, rest = RemoveFirst(seq, e)
    PROVE  /\ rest \in Seq(S)
           /\ IsInjective(rest)
           /\ ToSet(rest) = ToSet(seq) \ {e}
           /\ rest # <<>> /\ Last(seq) # e => Last(rest) = Last(seq)
<1> PICK i \in 1 .. Len(seq) : e = seq[i]
  BY DEF ToSet
<1>1. /\ rest \in Seq(S)
      /\ Len(rest) = Len(seq) - 1
      /\ \A j \in 1 .. Len(seq) - 1 : rest[j] = IF j < i THEN seq[j] ELSE seq[j + 1]
  BY RemoveFirstElements
<1>2. IsInjective(rest)
  BY <1>1 DEF IsInjective
<1>3. ToSet(rest) \subseteq ToSet(seq) \ {e}
  BY <1>1 DEF ToSet, IsInjective
<1>4. ASSUME NEW x \in ToSet(seq) \ {e}
      PROVE  x \in ToSet(rest)
  <2> PICK k \in 1 .. Len(seq) : x = seq[k]
    BY DEF ToSet
  <2>1. CASE k < i
    BY <1>1, <2>1 DEF ToSet
  <2>2. CASE k > i
    <3>1. k - 1 \in 1 .. Len(seq) - 1 /\ rest[k - 1] = seq[k]
      BY <1>1, <2>2
    <3> QED  BY <1>1, <3>1 DEF ToSet
  <2> QED  BY <2>1, <2>2
<1>5. rest # <<>> /\ Last(seq) # e => Last(rest) = Last(seq)
  BY <1>1 DEF Last
<1> QED  BY <1>1, <1>2, <1>3, <1>4, <1>5

-----------------------------------------------------------------------------
(* The inductive invariant *)

\* What PoolsMatchConnections needs to be inductive: the socket that leaves was
\* admitted, so its tunnel has a pool and it stands in it.
HandshakesRecorded ==
    \A s \in Socket :
        /\ conn[s] = "new" => handshake[s] = Undefined
        /\ conn[s] = "open" => handshake[s] \in Handshake /\ Admitted(handshake[s])

RegistryInv == RegistryTypeOK /\ HandshakesRecorded /\ PoolsMatchConnections

\* A socket joins the pool of an admitted handshake.
LEMMA JoinPool ==
    ASSUME RegistryInv, NEW s \in Socket, conn[s] = "new", NEW t \in Tunnel,
           NEW pool, pool = Append(PoolOf(t), s)
    PROVE  /\ pool \in Seq(Socket) /\ pool # <<>> /\ IsInjective(pool)
           /\ ToSet(pool) = ToSet(PoolOf(t)) \cup {s}
           /\ Last(pool) = s
<1>1. PoolOf(t) \in Seq(Socket) /\ IsInjective(PoolOf(t)) /\ s \notin ToSet(PoolOf(t))
  BY DEF RegistryInv, RegistryTypeOK, PoolsMatchConnections, PoolOf, Has
<1> DEFINE old == PoolOf(t)
<1> HIDE DEF old
<1>2. old \in Seq(Socket) /\ IsInjective(old) /\ s \notin ToSet(old)
  BY <1>1 DEF old
<1>3. pool = Append(old, s)
  BY DEF old
<1>4. /\ pool \in Seq(Socket) /\ Len(pool) = Len(old) + 1
      /\ \A i \in 1 .. Len(old) : pool[i] = old[i]
      /\ pool[Len(old) + 1] = s
  BY <1>2, <1>3
<1>5. pool # <<>> /\ Last(pool) = s
  BY <1>2, <1>4 DEF Last
<1>6. IsInjective(pool)
  BY <1>2, <1>4 DEF IsInjective, ToSet
<1>7. ToSet(pool) = ToSet(old) \cup {s}
  BY <1>2, <1>4 DEF ToSet
<1> QED  BY <1>4, <1>5, <1>6, <1>7 DEF old

\* An open socket stands in its pool, and leaves it as RemoveFromPool says.
LEMMA LeavePool ==
    ASSUME RegistryInv, NEW s \in Socket, conn[s] = "open",
           NEW t, t = handshake[s].tunnel, NEW rest, rest = RemoveFirst(PoolOf(t), s)
    PROVE  /\ t \in Tunnel /\ Has(t)
           /\ rest \in Seq(Socket) /\ IsInjective(rest)
           /\ ToSet(rest) = ToSet(PoolOf(t)) \ {s}
           /\ rest # <<>> /\ Last(pools[t]) # s => Last(rest) = Last(pools[t])
<1>1. t \in Tunnel
  BY DEF RegistryInv, HandshakesRecorded, Handshake, Admitted
<1>2. s \in ToSet(PoolOf(t)) /\ IsInjective(PoolOf(t)) /\ PoolOf(t) \in Seq(Socket)
  BY <1>1 DEF RegistryInv, RegistryTypeOK, PoolsMatchConnections, PoolOf, Has
<1>3. Has(t) /\ PoolOf(t) = pools[t]
  BY <1>2 DEF PoolOf, ToSet
<1> QED  BY <1>1, <1>2, <1>3, RemoveFromPool

\* Every step of the registry keeps the invariant.
LEMMA RegistryStep == RegistryInv /\ [RegistryNext]_registryVars => RegistryInv'
<1> SUFFICES ASSUME RegistryInv, [RegistryNext]_registryVars
             PROVE  RegistryInv'
  OBVIOUS
<1> USE RegistryAssumption DEF RegistryInv
<1>1. ASSUME NEW s \in Socket, NEW h \in Handshake, Connect(s, h)
      PROVE  RegistryInv'
  <2> DEFINE t    == h.tunnel
             pool == Append(PoolOf(t), s)
  <2>1. t \in Tunnel
    BY <1>1 DEF Connect, Admitted, Handshake
  <2>2. /\ pool \in Seq(Socket) /\ pool # <<>> /\ IsInjective(pool)
        /\ ToSet(pool) = ToSet(PoolOf(t)) \cup {s}
    BY <1>1, <2>1, JoinPool DEF Connect
  <2>3. pools' = [pools EXCEPT ![t] = pool] /\ pool # Undefined
    BY <1>1, <2>2 DEF Connect
  <2> HIDE DEF pool
  <2>4. RegistryTypeOK'
    <3>1. index' \in [Tunnel -> 0 .. MaxIndex]
      BY <1>1, <2>1 DEF Connect, RegistryTypeOK
    <3>2. /\ conn' \in [Socket -> {"new", "open", "closed"}]
          /\ handshake' \in [Socket -> Handshake \cup {Undefined}]
      BY <1>1 DEF Connect, RegistryTypeOK
    <3>3. /\ cidrRules' \in [Tunnel -> Rules \cup {Undefined}]
          /\ targetHosts' \in [Tunnel -> TargetHost \cup {Undefined}]
          /\ bySocket' \in [Socket -> Token \cup {Undefined}]
      BY <1>1 DEF Connect, RegistryTypeOK, Handshake
    <3>4. pools' \in [Tunnel -> Seq(Socket) \cup {Undefined}]
      BY <2>1, <2>2, <2>3 DEF RegistryTypeOK
    <3> QED  BY <3>1, <3>2, <3>3, <3>4 DEF RegistryTypeOK
  <2>5. HandshakesRecorded'
    BY <1>1 DEF Connect, RegistryTypeOK, HandshakesRecorded
  <2>6. ASSUME NEW u \in Tunnel
        PROVE  /\ PoolOf(u)' = IF u = t THEN pool ELSE PoolOf(u)
               /\ Has(u)' <=> u = t \/ Has(u)
    BY <2>1, <2>3 DEF RegistryTypeOK, PoolOf, Has
  <2>7. PoolsMatchConnections'
    <3> SUFFICES ASSUME NEW u \in Tunnel
                 PROVE  /\ Has(u)' => pools'[u] # <<>>
                        /\ IsInjective(PoolOf(u)')
                        /\ \A r \in Socket : r \in ToSet(PoolOf(u)') <=>
                              conn'[r] = "open" /\ handshake'[r].tunnel = u
      BY DEF PoolsMatchConnections
    <3>1. Has(u)' => pools'[u] # <<>>
      BY <2>1, <2>2, <2>3, <2>6 DEF RegistryTypeOK, PoolsMatchConnections
    <3>2. IsInjective(PoolOf(u)')
      BY <2>2, <2>6 DEF PoolsMatchConnections
    <3>3. ASSUME NEW r \in Socket
          PROVE  r \in ToSet(PoolOf(u)') <=> conn'[r] = "open" /\ handshake'[r].tunnel = u
      <4>1. r \in ToSet(PoolOf(u)') <=> r \in ToSet(PoolOf(u)) \/ (u = t /\ r = s)
        BY <2>2, <2>6
      <4>2. r \in ToSet(PoolOf(u)) <=> conn[r] = "open" /\ handshake[r].tunnel = u
        BY DEF PoolsMatchConnections
      <4>3. conn'[r] = "open" /\ handshake'[r].tunnel = u
              <=> (r # s /\ conn[r] = "open" /\ handshake[r].tunnel = u) \/ (r = s /\ u = t)
        BY <1>1 DEF Connect, RegistryTypeOK
      <4>4. conn[s] # "open"
        BY <1>1 DEF Connect
      <4> QED  BY <4>1, <4>2, <4>3, <4>4
    <3> QED  BY <3>1, <3>2, <3>3
  <2> QED  BY <2>4, <2>5, <2>7
<1>2. ASSUME NEW s \in Socket, NEW h \in Handshake, Refuse(s, h)
      PROVE  RegistryInv'
  <2>1. RegistryTypeOK' /\ HandshakesRecorded'
    BY <1>2 DEF Refuse, RegistryTypeOK, HandshakesRecorded
  <2>2. PoolsMatchConnections'
    BY <1>2 DEF Refuse, RegistryTypeOK, PoolsMatchConnections, PoolOf, Has
  <2> QED  BY <2>1, <2>2
<1>3. ASSUME NEW s \in Socket, Disconnect(s)
      PROVE  RegistryInv'
  <2> DEFINE t    == handshake[s].tunnel
             rest == RemoveFirst(PoolOf(t), s)
  <2>1. /\ t \in Tunnel /\ Has(t)
        /\ rest \in Seq(Socket) /\ IsInjective(rest)
        /\ ToSet(rest) = ToSet(PoolOf(t)) \ {s}
    BY <1>3, LeavePool DEF Disconnect
  <2>2. pools' = [pools EXCEPT ![t] = PoolLeft(rest)]
    BY <1>3 DEF Disconnect
  <2>3. /\ conn' = [conn EXCEPT ![s] = "closed"]
        /\ handshake' = handshake
    BY <1>3 DEF Disconnect
  <2>4. RegistryTypeOK'
    <3>1. index' \in [Tunnel -> 0 .. MaxIndex]
      <4>1. index' = [index EXCEPT ![t] = IF rest = <<>> THEN 0 ELSE index[t]]
        BY <1>3 DEF Disconnect, IndexLeft
      <4> HIDE DEF rest
      <4>2. 0 \in 0 .. MaxIndex /\ index \in [Tunnel -> 0 .. MaxIndex]
        BY DEF RegistryTypeOK
      <4> QED  BY <2>1, <4>1, <4>2
    <3>2. cidrRules' \in [Tunnel -> Rules \cup {Undefined}]
      BY <1>3 DEF Disconnect, RegistryTypeOK, SettingLeft
    <3>3. targetHosts' \in [Tunnel -> TargetHost \cup {Undefined}]
      BY <1>3 DEF Disconnect, RegistryTypeOK, SettingLeft
    <3>4. bySocket' \in [Socket -> Token \cup {Undefined}]
      BY <1>3 DEF Disconnect, RegistryTypeOK, SettingLeft
    <3>5. pools' \in [Tunnel -> Seq(Socket) \cup {Undefined}]
      BY <2>1, <2>2 DEF RegistryTypeOK, PoolLeft, SettingLeft
    <3> QED  BY <2>3, <3>1, <3>2, <3>3, <3>4, <3>5 DEF RegistryTypeOK
  <2> HIDE DEF rest
  <2>5. HandshakesRecorded'
    BY <2>3 DEF RegistryTypeOK, HandshakesRecorded
  <2>6. ASSUME NEW u \in Tunnel
        PROVE  PoolOf(u)' = IF u = t THEN rest ELSE PoolOf(u)
    BY <2>1, <2>2 DEF RegistryTypeOK, PoolOf, Has, PoolLeft, SettingLeft
  <2>7. PoolsMatchConnections'
    <3> SUFFICES ASSUME NEW u \in Tunnel
                 PROVE  /\ Has(u)' => pools'[u] # <<>>
                        /\ IsInjective(PoolOf(u)')
                        /\ \A r \in Socket : r \in ToSet(PoolOf(u)') <=>
                              conn'[r] = "open" /\ handshake'[r].tunnel = u
      BY DEF PoolsMatchConnections
    <3>1. Has(u)' => pools'[u] # <<>>
      BY <2>2 DEF RegistryTypeOK, PoolsMatchConnections, Has, PoolLeft, SettingLeft
    <3>2. IsInjective(PoolOf(u)')
      BY <2>1, <2>6 DEF PoolsMatchConnections
    <3>3. ASSUME NEW r \in Socket
          PROVE  r \in ToSet(PoolOf(u)') <=> conn'[r] = "open" /\ handshake'[r].tunnel = u
      <4>1. r \in ToSet(PoolOf(u)') <=> r \in ToSet(PoolOf(u)) /\ (u # t \/ r # s)
        BY <2>1, <2>6
      <4>2. r \in ToSet(PoolOf(u)) <=> conn[r] = "open" /\ handshake[r].tunnel = u
        BY DEF PoolsMatchConnections
      <4>3. conn'[r] = "open" /\ handshake'[r].tunnel = u
              <=> r # s /\ conn[r] = "open" /\ handshake[r].tunnel = u
        BY <2>3 DEF RegistryTypeOK
      <4> QED  BY <4>1, <4>2, <4>3
    <3> QED  BY <3>1, <3>2, <3>3
  <2> QED  BY <2>4, <2>5, <2>7
<1>4. ASSUME NEW t \in Tunnel, Resolve(t)
      PROVE  RegistryInv'
  <2>1. RegistryTypeOK' /\ HandshakesRecorded'
    BY <1>4 DEF Resolve, RegistryTypeOK, HandshakesRecorded
  <2>2. PoolsMatchConnections'
    BY <1>4 DEF Resolve, PoolsMatchConnections, PoolOf, Has
  <2> QED  BY <2>1, <2>2
<1>5. CASE UNCHANGED registryVars
  BY <1>5 DEF registryVars, RegistryTypeOK, HandshakesRecorded, PoolsMatchConnections,
              PoolOf, Has
<1> QED  BY <1>1, <1>2, <1>3, <1>4, <1>5 DEF RegistryNext

\* A relay that starts has no pool and no connection.
LEMMA RegistryInitHolds == RegistryInit => RegistryInv
BY RegistryAssumption
DEF RegistryInit, RegistryInv, RegistryTypeOK, HandshakesRecorded,
    PoolsMatchConnections, PoolOf, Has, ToSet, IsInjective

\* For every configuration: the registry's maps keep their types, a pool holds
\* exactly the open connections of its tunnel, once each, and is never empty.
THEOREM RegistryInvariant == RegistrySpec => []RegistryInv
BY RegistryInitHolds, RegistryStep, PTL DEF RegistrySpec

\* The type invariant of the registry.
THEOREM RegistryTypeCorrect == RegistrySpec => []RegistryTypeOK
BY RegistryInvariant, PTL DEF RegistryInv

\* No request is ever routed to a closed connection, none is forgotten while it
\* is open, and no pool the index is reduced by is empty.
THEOREM PoolsAreConnections == RegistrySpec => []PoolsMatchConnections
BY RegistryInvariant, PTL DEF RegistryInv

-----------------------------------------------------------------------------
(* The rules and the target host in force *)

\* A visitor always meets the access rules and the target host of one and the
\* same connection of the tunnel, the newest of the pool unless it has left; a
\* tunnel whose pool is gone leaves no rules behind for the next one.
THEOREM RulesAreThePools == RegistrySpec => []RulesFollowPool
<1>1. RegistryInit => RulesFollowPool
  BY DEF RegistryInit, RulesFollowPool, Has
<1>2. RegistryInv /\ RulesFollowPool /\ [RegistryNext]_registryVars => RulesFollowPool'
  <2> SUFFICES ASSUME RegistryInv, RulesFollowPool, [RegistryNext]_registryVars,
                      NEW u \in Tunnel
               PROVE  IF Has(u)'
                      THEN \E w \in Socket :
                              /\ handshake'[w] # Undefined /\ handshake'[w].tunnel = u
                              /\ cidrRules'[u] = handshake'[w].rules
                              /\ targetHosts'[u] = handshake'[w].targetHost
                              /\ conn'[w] = "open" => w = Last(pools'[u])
                      ELSE cidrRules'[u] = Undefined /\ targetHosts'[u] = Undefined
    BY DEF RulesFollowPool
  <2> USE RegistryAssumption
  <2> DEFINE InForce(w) ==
               /\ handshake[w] # Undefined /\ handshake[w].tunnel = u
               /\ cidrRules[u] = handshake[w].rules
               /\ targetHosts[u] = handshake[w].targetHost
               /\ conn[w] = "open" => w = Last(pools[u])
  <2>0. IF Has(u) THEN \E w \in Socket : InForce(w)
                  ELSE cidrRules[u] = Undefined /\ targetHosts[u] = Undefined
    BY DEF RulesFollowPool
  <2>1. ASSUME NEW s \in Socket, NEW h \in Handshake, Connect(s, h)
        PROVE  IF Has(u)' THEN \E w \in Socket : InForce(w)'
                          ELSE cidrRules'[u] = Undefined /\ targetHosts'[u] = Undefined
    <3> DEFINE t    == h.tunnel
               pool == Append(PoolOf(t), s)
    <3>1. t \in Tunnel /\ h # Undefined
      BY <2>1, RegistryAssumption DEF Connect, Admitted, Handshake
    <3>2. pool \in Seq(Socket) /\ Last(pool) = s
      BY <2>1, <3>1, JoinPool DEF Connect
    <3>3. pools' = [pools EXCEPT ![t] = pool]
      BY <2>1 DEF Connect
    <3> HIDE DEF pool
    <3>4. CASE u = t
      <4>1. /\ handshake'[s] = h /\ pools'[u] = pool
            /\ cidrRules'[u] = h.rules /\ targetHosts'[u] = h.targetHost
        BY <2>1, <3>1, <3>3, <3>4 DEF Connect, RegistryInv, RegistryTypeOK
      <4>2. InForce(s)'
        BY <3>1, <3>2, <3>4, <4>1
      <4>3. Has(u)'
        BY <3>2, <4>1 DEF Has
      <4> QED  BY <4>2, <4>3
    <3>5. CASE u # t
      <4>1. /\ pools'[u] = pools[u] /\ cidrRules'[u] = cidrRules[u]
            /\ targetHosts'[u] = targetHosts[u]
        BY <2>1, <3>3, <3>5 DEF Connect, RegistryInv, RegistryTypeOK
      <4>2. ASSUME NEW w \in Socket, InForce(w)
            PROVE  InForce(w)'
        <5>1. w # s
          BY <2>1, <4>2 DEF Connect, RegistryInv, HandshakesRecorded
        <5>2. handshake'[w] = handshake[w] /\ conn'[w] = conn[w]
          BY <2>1, <5>1 DEF Connect, RegistryInv, RegistryTypeOK
        <5> QED  BY <4>1, <4>2, <5>2
      <4>3. Has(u)' <=> Has(u)
        BY <4>1 DEF Has
      <4> QED  BY <2>0, <4>1, <4>2, <4>3
    <3> QED  BY <3>4, <3>5
  <2>2. ASSUME NEW s \in Socket, Disconnect(s)
        PROVE  IF Has(u)' THEN \E w \in Socket : InForce(w)'
                          ELSE cidrRules'[u] = Undefined /\ targetHosts'[u] = Undefined
    <3> DEFINE t    == handshake[s].tunnel
               rest == RemoveFirst(PoolOf(t), s)
    <3>1. /\ t \in Tunnel /\ Has(t) /\ rest \in Seq(Socket)
          /\ rest # <<>> /\ Last(pools[t]) # s => Last(rest) = Last(pools[t])
      BY <2>2, LeavePool DEF Disconnect
    <3>2. /\ pools' = [pools EXCEPT ![t] = PoolLeft(rest)]
          /\ cidrRules' = [cidrRules EXCEPT ![t] = SettingLeft(cidrRules, t, rest)]
          /\ targetHosts' = [targetHosts EXCEPT ![t] = SettingLeft(targetHosts, t, rest)]
          /\ conn' = [conn EXCEPT ![s] = "closed"]
          /\ handshake' = handshake
      BY <2>2 DEF Disconnect
    <3> HIDE DEF rest
    <3>3. CASE u # t
      <4>1. /\ pools'[u] = pools[u] /\ cidrRules'[u] = cidrRules[u]
            /\ targetHosts'[u] = targetHosts[u]
        BY <3>2, <3>3 DEF RegistryInv, RegistryTypeOK
      <4>2. ASSUME NEW w \in Socket, InForce(w)
            PROVE  InForce(w)'
        BY <3>2, <4>1, <4>2 DEF RegistryInv, RegistryTypeOK
      <4> QED  BY <2>0, <4>1, <4>2 DEF Has
    <3>4. CASE u = t /\ rest = <<>>
      BY <3>1, <3>2, <3>4 DEF RegistryInv, RegistryTypeOK, Has, PoolLeft, SettingLeft
    <3>5. CASE u = t /\ rest # <<>>
      <4>1. /\ pools'[u] = rest /\ cidrRules'[u] = cidrRules[u]
            /\ targetHosts'[u] = targetHosts[u]
        BY <3>1, <3>2, <3>5 DEF RegistryInv, RegistryTypeOK, PoolLeft, SettingLeft
      <4>2. ASSUME NEW w \in Socket, InForce(w)
            PROVE  InForce(w)'
        <5>1. CASE w = s
          BY <3>2, <4>1, <4>2, <5>1 DEF RegistryInv, RegistryTypeOK
        <5>2. CASE w # s
          BY <3>1, <3>2, <3>5, <4>1, <4>2, <5>2 DEF RegistryInv, RegistryTypeOK
        <5> QED  BY <5>1, <5>2
      <4>3. Has(u) /\ Has(u)'
        BY <3>1, <3>5, <4>1 DEF Has
      <4> QED  BY <2>0, <4>2, <4>3
    <3> QED  BY <3>3, <3>4, <3>5
  <2>3. ASSUME NEW s \in Socket, NEW h \in Handshake, Refuse(s, h)
        PROVE  IF Has(u)' THEN \E w \in Socket : InForce(w)'
                          ELSE cidrRules'[u] = Undefined /\ targetHosts'[u] = Undefined
    BY <2>0, <2>3 DEF Refuse, RegistryInv, RegistryTypeOK, Has
  <2>4. ASSUME NEW t \in Tunnel, Resolve(t)
        PROVE  IF Has(u)' THEN \E w \in Socket : InForce(w)'
                          ELSE cidrRules'[u] = Undefined /\ targetHosts'[u] = Undefined
    BY <2>0, <2>4 DEF Resolve, Has
  <2>5. CASE UNCHANGED registryVars
    BY <2>0, <2>5 DEF registryVars, Has
  <2> QED  BY <2>1, <2>2, <2>3, <2>4, <2>5 DEF RegistryNext
<1> QED  BY <1>1, <1>2, RegistryInvariant, PTL DEF RegistrySpec

\* The socket a request is handed is an open connection.
LEMMA PickIsOpen ==
    ASSUME RegistryInv, NEW t \in Tunnel, Has(t)
    PROVE  NextPick(t) \in Socket /\ conn[NextPick(t)] = "open"
<1>1. pools[t] \in Seq(Socket) /\ pools[t] # <<>> /\ PoolOf(t) = pools[t]
  BY DEF RegistryInv, RegistryTypeOK, PoolsMatchConnections, PoolOf, Has
<1>2. Len(pools[t]) \in Nat \ {0}
  BY <1>1
<1>3. index[t] \in Nat
  BY RegistryAssumption DEF RegistryInv, RegistryTypeOK
<1>4. (index[t] % Len(pools[t])) + 1 \in 1 .. Len(pools[t])
  <2> DEFINE k == Len(pools[t])
             i == index[t]
  <2> HIDE DEF k, i
  <2>1. k \in Nat \ {0} /\ i \in Nat
    BY <1>2, <1>3 DEF k, i
  <2>2. i % k \in 0 .. k - 1
    BY <2>1
  <2> QED  BY <2>1, <2>2 DEF k, i
<1>5. NextPick(t) \in Socket /\ NextPick(t) \in ToSet(PoolOf(t))
  BY <1>1, <1>4 DEF NextPick, ToSet
<1> QED  BY <1>5 DEF RegistryInv, PoolsMatchConnections

-----------------------------------------------------------------------------
(* Round robin *)

\* Where the index of t stands in its pool, counted from 0.
Turn(t) == index[t] % Len(pools[t])

\* Position p of a pool gets its turn no later than q when r is next.
TurnBefore(r, p, q) ==
    \/ p >= r /\ q >= p
    \/ p >= r /\ q < r
    \/ p < r /\ q < r /\ q >= p

\* In the order in which their turns come the sockets of a pool were handed ever
\* more requests, and the last of them at most one more than the first.
TurnsEven ==
    \A t \in Tunnel : Has(t) =>
        \A p, q \in 1 .. Len(pools[t]) :
            /\ TurnBefore(Turn(t), p - 1, q - 1) => picks[pools[t][p]] <= picks[pools[t][q]]
            /\ picks[pools[t][q]] <= picks[pools[t][p]] + 1

\* A socket that has not connected was handed nothing.
NewUnpicked ==
    /\ picks \in [Socket -> Nat]
    /\ \A s \in Socket : conn[s] = "new" => picks[s] = 0

FairInv == RegistryInv /\ NewUnpicked /\ TurnsEven

\* The next turn, one position on or back at the front.
LEMMA TurnAdvances ==
    ASSUME NEW k \in Nat \ {0}, NEW i \in Nat
    PROVE  /\ i % k \in 0 .. k - 1
           /\ (i + 1) % k = IF i % k = k - 1 THEN 0 ELSE (i % k) + 1
<1> DEFINE a == i \div k
           b == (i + 1) \div k
           r == i % k
           u == (i + 1) % k
<1>1. /\ i = (k * a) + r /\ i + 1 = (k * b) + u
      /\ r \in 0 .. k - 1 /\ u \in 0 .. k - 1 /\ a \in Int /\ b \in Int
  OBVIOUS
<1> HIDE DEF a, b, r, u
<1>2. 1 = (k * (b - a)) + (u - r)
  BY <1>1
<1> DEFINE d == b - a
<1>3. d \in Int /\ 1 = (k * d) + (u - r)
  BY <1>1, <1>2
<1> HIDE DEF d
<1>4. d >= 0 /\ d <= 1
  <2>1. d >= 2 => k * d >= 2 * k
    BY <1>3
  <2>2. d <= -1 => k * d <= -k
    BY <1>3
  <2> QED  BY <1>1, <1>3, <2>1, <2>2
<1>5. u = IF r = k - 1 THEN 0 ELSE r + 1
  <2>1. CASE d = 0
    BY <1>1, <1>3, <2>1
  <2>2. CASE d = 1
    BY <1>1, <1>3, <2>2
  <2> QED  BY <1>3, <1>4, <2>1, <2>2
<1> QED  BY <1>1, <1>5 DEF r, u

\* A pool that changes starts over evenly, and no other pool notices.
LEMMA ChangedPoolIsEven ==
    ASSUME FairInv, RegistryInv', NEW t \in Tunnel, NEW s \in Socket,
           PoolChanged(t), picks[s] = 0 \/ s \in ToSet(PoolOf(t)),
           \A u \in Tunnel : u # t => pools'[u] = pools[u] /\ index'[u] = index[u],
           ToSet(PoolOf(t))' \subseteq ToSet(PoolOf(t)) \cup {s}
    PROVE  TurnsEven'
<1> USE DEF FairInv, NewUnpicked, RegistryInv, RegistryTypeOK
<1>1. ASSUME NEW u \in Tunnel, Has(u)'
      PROVE  \A p \in 1 .. Len(pools'[u]) :
                pools'[u][p] \in ToSet(PoolOf(u))' /\ pools'[u][p] \in Socket
  BY <1>1 DEF PoolOf, Has, ToSet
<1>2. ASSUME NEW u \in Tunnel, Has(u)', u = t, NEW p \in 1 .. Len(pools'[u])
      PROVE  picks'[pools'[u][p]] = 0
  BY <1>1, <1>2 DEF PoolChanged
<1>3. ASSUME NEW u \in Tunnel, Has(u)', u # t
      PROVE  /\ Has(u) /\ pools'[u] = pools[u] /\ index'[u] = index[u]
             /\ \A p \in 1 .. Len(pools[u]) : picks'[pools[u][p]] = picks[pools[u][p]]
  <2>1. Has(u) /\ pools'[u] = pools[u] /\ index'[u] = index[u]
    BY <1>3 DEF Has
  <2>2. ASSUME NEW p \in 1 .. Len(pools[u])
        PROVE  picks'[pools[u][p]] = picks[pools[u][p]]
    <3>1. pools[u][p] \in Socket /\ pools[u][p] \in ToSet(PoolOf(u))
      BY <2>1 DEF PoolOf, Has, ToSet
    <3>2. pools[u][p] \notin ToSet(PoolOf(t))
      <4>1. handshake[pools[u][p]].tunnel = u
        BY <3>1 DEF PoolsMatchConnections
      <4> QED  BY <1>3, <3>1, <4>1 DEF PoolsMatchConnections
    <3> QED  BY <3>1, <3>2 DEF PoolChanged
  <2> QED  BY <2>1, <2>2
<1>4. ASSUME NEW u \in Tunnel, Has(u)', NEW p \in 1 .. Len(pools'[u]),
             NEW q \in 1 .. Len(pools'[u])
      PROVE  /\ TurnBefore(Turn(u)', p - 1, q - 1)
                    => picks'[pools'[u][p]] <= picks'[pools'[u][q]]
             /\ picks'[pools'[u][q]] <= picks'[pools'[u][p]] + 1
  <2>1. CASE u = t
    BY <1>2, <1>4, <2>1
  <2>2. CASE u # t
    <3>1. Turn(u)' = Turn(u)
      BY <1>3, <1>4, <2>2 DEF Turn
    <3> QED  BY <1>3, <1>4, <2>2, <3>1 DEF TurnsEven
  <2> QED  BY <2>1, <2>2
<1> QED  BY <1>4 DEF TurnsEven

\* A socket that is handed a request goes to the end of the order of turns.
LEMMA ResolvedPoolIsEven ==
    ASSUME FairInv, NEW t \in Tunnel, FairResolve(t)
    PROVE  TurnsEven'
<1> USE DEF FairInv, NewUnpicked, RegistryInv, RegistryTypeOK
<1> DEFINE k == Len(pools[t])
           r == Turn(t)
<1>1. /\ Has(t) /\ pools' = pools /\ index' = [index EXCEPT ![t] = @ + 1]
      /\ picks' = [picks EXCEPT ![NextPick(t)] = @ + 1]
  BY DEF FairResolve, Resolve
<1>2. /\ pools[t] \in Seq(Socket) /\ k \in Nat \ {0} /\ index[t] \in Nat
      /\ PoolOf(t) = pools[t] /\ IsInjective(pools[t])
  <2>1. pools[t] \in Seq(Socket) /\ pools[t] # <<>>
    BY <1>1 DEF Has, PoolsMatchConnections
  <2>2. PoolOf(t) = pools[t]
    BY <1>1 DEF PoolOf
  <2> QED  BY <2>1, <2>2, RegistryAssumption DEF PoolsMatchConnections
<1>3. /\ r \in 0 .. k - 1 /\ r \in Nat
      /\ Turn(t)' = IF r = k - 1 THEN 0 ELSE r + 1
      /\ NextPick(t) = pools[t][r + 1]
  <2>1. index'[t] = index[t] + 1
    BY <1>1
  <2>2. Turn(t)' = (index[t] + 1) % k
    BY <1>1, <2>1 DEF Turn
  <2>3. /\ index[t] % k \in 0 .. k - 1
        /\ (index[t] + 1) % k = IF index[t] % k = k - 1 THEN 0 ELSE (index[t] % k) + 1
    BY <1>2, TurnAdvances
  <2> QED  BY <1>2, <2>2, <2>3 DEF Turn, NextPick
<1>4. ASSUME NEW p \in 1 .. k
      PROVE  /\ pools[t][p] \in Socket
             /\ picks'[pools[t][p]] = IF p = r + 1 THEN picks[pools[t][p]] + 1
                                                   ELSE picks[pools[t][p]]
  <2>1. pools[t][p] \in Socket
    BY <1>2
  <2>2. r + 1 \in 1 .. k
    BY <1>2, <1>3
  <2>3. pools[t][p] = pools[t][r + 1] <=> p = r + 1
    BY <1>2, <2>2 DEF IsInjective
  <2> QED  BY <1>1, <1>3, <2>1, <2>3
<1>5. ASSUME NEW u \in Tunnel, Has(u)', NEW p \in 1 .. Len(pools'[u]),
             NEW q \in 1 .. Len(pools'[u])
      PROVE  /\ TurnBefore(Turn(u)', p - 1, q - 1)
                    => picks'[pools'[u][p]] <= picks'[pools'[u][q]]
             /\ picks'[pools'[u][q]] <= picks'[pools'[u][p]] + 1
  <2>1. CASE u # t
    <3>1. Has(u) /\ pools'[u] = pools[u] /\ Turn(u)' = Turn(u)
      BY <1>1, <1>5, <2>1 DEF Has, Turn
    <3>2. ASSUME NEW i \in 1 .. Len(pools[u])
          PROVE  picks'[pools[u][i]] = picks[pools[u][i]]
      <4>1. pools[u][i] \in Socket /\ pools[u][i] \in ToSet(PoolOf(u))
        BY <3>1 DEF PoolOf, Has, ToSet
      <4>2. NextPick(t) \in ToSet(PoolOf(t)) /\ NextPick(t) \in Socket
        BY <1>2, <1>3 DEF ToSet
      <4>3. pools[u][i] # NextPick(t)
        BY <2>1, <4>1, <4>2 DEF PoolsMatchConnections
      <4> QED  BY <1>1, <4>1, <4>3
    <3> QED  BY <1>5, <3>1, <3>2 DEF TurnsEven
  <2>2. CASE u = t
    <3>1. p \in 1 .. k /\ q \in 1 .. k /\ r + 1 \in 1 .. k
      BY <1>1, <1>2, <1>3, <1>5, <2>2
    <3> DEFINE n(i) == picks[pools[t][i]]
    <3>2. n(p) \in Nat /\ n(q) \in Nat /\ n(r + 1) \in Nat
      BY <1>4, <3>1
    <3>3. /\ TurnBefore(r, p - 1, q - 1) => n(p) <= n(q)
          /\ n(q) <= n(p) + 1 /\ n(q) <= n(r + 1) + 1 /\ n(p) <= n(r + 1) + 1
          /\ n(r + 1) <= n(p) /\ n(r + 1) <= n(q)
      <4>1. TurnBefore(r, (r + 1) - 1, p - 1) /\ TurnBefore(r, (r + 1) - 1, q - 1)
        BY <1>3, <3>1 DEF TurnBefore
      <4> QED  BY <1>1, <3>1, <4>1 DEF TurnsEven
    <3>4. /\ picks'[pools'[u][p]] = IF p = r + 1 THEN n(p) + 1 ELSE n(p)
          /\ picks'[pools'[u][q]] = IF q = r + 1 THEN n(q) + 1 ELSE n(q)
      BY <1>1, <1>4, <2>2, <3>1
    <3> DEFINE next == IF r = k - 1 THEN 0 ELSE r + 1
    <3>5. /\ p # r + 1 /\ q # r + 1 /\ TurnBefore(next, p - 1, q - 1)
                => TurnBefore(r, p - 1, q - 1)
          /\ p = r + 1 /\ q # r + 1 => ~TurnBefore(next, p - 1, q - 1)
      <4> DEFINE m == k
      <4>1. r \in 0 .. m - 1 /\ m \in Nat /\ p \in 1 .. m /\ q \in 1 .. m
        BY <1>2, <1>3, <3>1
      <4> HIDE DEF m, r
      <4> QED  BY <4>1 DEF TurnBefore, m
    <3>6. Turn(t)' = next
      BY <1>3
    <3> HIDE DEF n, r, next
    <3> QED  BY <2>2, <3>2, <3>3, <3>4, <3>5, <3>6
  <2> QED  BY <2>1, <2>2
<1> QED  BY <1>5 DEF TurnsEven

\* Every step of the registry and its history keeps the invariant.
LEMMA FairStep == FairInv /\ [FairNext]_fairVars => FairInv'
<1> SUFFICES ASSUME FairInv, [FairNext]_fairVars
             PROVE  FairInv'
  OBVIOUS
<1> USE DEF FairInv
<1>1. RegistryInv'
  BY RegistryStep
  DEF FairNext, FairConnect, FairRefuse, FairDisconnect, FairResolve, RegistryNext, fairVars
<1>2. ASSUME NEW s \in Socket, NEW h \in Handshake, FairConnect(s, h)
      PROVE  NewUnpicked' /\ TurnsEven'
  <2>1. h.tunnel \in Tunnel /\ picks[s] = 0 /\ PoolChanged(h.tunnel)
    BY <1>2 DEF FairConnect, Connect, Admitted, Handshake, NewUnpicked
  <2>2. NewUnpicked'
    BY <1>2, <2>1 DEF FairConnect, Connect, PoolChanged, NewUnpicked, RegistryInv, RegistryTypeOK
  <2>3. \A u \in Tunnel : u # h.tunnel => pools'[u] = pools[u] /\ index'[u] = index[u]
    BY <1>2 DEF FairConnect, Connect, RegistryInv, RegistryTypeOK
  <2>4. ToSet(PoolOf(h.tunnel))' \subseteq ToSet(PoolOf(h.tunnel)) \cup {s}
    <3> DEFINE pool == Append(PoolOf(h.tunnel), s)
    <3>1. /\ pool \in Seq(Socket) /\ ToSet(pool) = ToSet(PoolOf(h.tunnel)) \cup {s}
      BY <1>2, <2>1, JoinPool DEF FairConnect, Connect
    <3>2. pools' = [pools EXCEPT ![h.tunnel] = pool]
      BY <1>2 DEF FairConnect, Connect
    <3> HIDE DEF pool
    <3>3. PoolOf(h.tunnel)' = pool
      BY <2>1, <3>1, <3>2, RegistryAssumption DEF RegistryInv, RegistryTypeOK, PoolOf, Has
    <3> QED  BY <3>1, <3>3
  <2> QED  BY <1>1, <2>1, <2>2, <2>3, <2>4, ChangedPoolIsEven
<1>3. ASSUME NEW s \in Socket, FairDisconnect(s)
      PROVE  NewUnpicked' /\ TurnsEven'
  <2> PICK t : t = handshake[s].tunnel
    OBVIOUS
  <2> DEFINE rest == RemoveFirst(PoolOf(t), s)
  <2>1. /\ t \in Tunnel /\ Has(t) /\ rest \in Seq(Socket)
        /\ ToSet(rest) = ToSet(PoolOf(t)) \ {s}
    BY <1>3, LeavePool DEF FairDisconnect, Disconnect
  <2>2. PoolChanged(t) /\ s \in ToSet(PoolOf(t))
    BY <1>3, <2>1
    DEF FairDisconnect, Disconnect, RegistryInv, PoolsMatchConnections
  <2>3. /\ pools' = [pools EXCEPT ![t] = PoolLeft(rest)]
        /\ index' = [index EXCEPT ![t] = IndexLeft(t, rest)]
        /\ conn' = [conn EXCEPT ![s] = "closed"]
    BY <1>3 DEF FairDisconnect, Disconnect
  <2> HIDE DEF rest
  <2>4. NewUnpicked'
    BY <2>2, <2>3 DEF PoolChanged, NewUnpicked, RegistryInv, RegistryTypeOK
  <2>5. \A u \in Tunnel : u # t => pools'[u] = pools[u] /\ index'[u] = index[u]
    BY <2>3 DEF RegistryInv, RegistryTypeOK
  <2>6. PoolOf(t)' = rest
    <3>1. pools'[t] = PoolLeft(rest)
      BY <2>1, <2>3 DEF RegistryInv, RegistryTypeOK
    <3>2. rest # Undefined
      BY <2>1, RegistryAssumption
    <3> QED  BY <3>1, <3>2 DEF PoolOf, Has, PoolLeft
  <2>7. ToSet(PoolOf(t))' \subseteq ToSet(PoolOf(t)) \cup {s}
    BY <2>1, <2>6
  <2> QED  BY <1>1, <2>1, <2>2, <2>4, <2>5, <2>7, ChangedPoolIsEven
<1>4. ASSUME NEW t \in Tunnel, FairResolve(t)
      PROVE  NewUnpicked' /\ TurnsEven'
  <2>1. TurnsEven'
    BY <1>4, ResolvedPoolIsEven
  <2>2. NextPick(t) \in Socket /\ conn[NextPick(t)] = "open"
    BY <1>4, PickIsOpen DEF FairResolve, Resolve
  <2>3. NewUnpicked'
    BY <1>4, <2>2 DEF FairResolve, Resolve, NewUnpicked, RegistryInv, RegistryTypeOK
  <2> QED  BY <2>1, <2>3
<1>5. ASSUME NEW s \in Socket, NEW h \in Handshake, FairRefuse(s, h)
      PROVE  NewUnpicked' /\ TurnsEven'
  <2>1. UNCHANGED <<pools, index, picks>> /\ conn' = [conn EXCEPT ![s] = "closed"]
    BY <1>5 DEF FairRefuse, Refuse
  <2>2. NewUnpicked'
    BY <2>1 DEF NewUnpicked, RegistryInv, RegistryTypeOK
  <2>3. TurnsEven'
    BY <2>1 DEF TurnsEven, Turn, Has
  <2> QED  BY <2>2, <2>3
<1>6. ASSUME UNCHANGED fairVars
      PROVE  NewUnpicked' /\ TurnsEven'
  BY <1>6 DEF fairVars, registryVars, NewUnpicked, TurnsEven, Turn, Has
<1>7. NewUnpicked' /\ TurnsEven'
  BY <1>2, <1>3, <1>4, <1>5, <1>6 DEF FairNext
<1> QED  BY <1>1, <1>7

\* Requests are spread evenly over the connections of a pool, wherever in the
\* cycle the index stood when the pool last changed.
THEOREM RoundRobinFairHolds == FairSpec => []RoundRobinFair
<1>1. FairInit => FairInv
  <2> SUFFICES ASSUME FairInit
               PROVE  FairInv
    OBVIOUS
  <2>1. RegistryInv
    BY RegistryInitHolds DEF FairInit
  <2>2. NewUnpicked /\ TurnsEven
    BY DEF FairInit, RegistryInit, NewUnpicked, TurnsEven, Has
  <2> QED  BY <2>1, <2>2 DEF FairInv
<1>2. FairInv => RoundRobinFair
  <2> SUFFICES ASSUME FairInv, NEW t \in Tunnel, NEW a \in ToSet(PoolOf(t)),
                      NEW b \in ToSet(PoolOf(t))
               PROVE  picks[a] <= picks[b] + 1
    BY DEF RoundRobinFair
  <2>1. Has(t) /\ PoolOf(t) = pools[t] /\ pools[t] \in Seq(Socket)
    BY DEF PoolOf, ToSet, FairInv, RegistryInv, RegistryTypeOK, Has
  <2> PICK p \in 1 .. Len(pools[t]), q \in 1 .. Len(pools[t]) :
        a = pools[t][p] /\ b = pools[t][q]
    BY <2>1 DEF ToSet
  <2> QED  BY <2>1 DEF FairInv, TurnsEven
<1> QED  BY <1>1, <1>2, FairStep, PTL DEF FairSpec
=============================================================================
