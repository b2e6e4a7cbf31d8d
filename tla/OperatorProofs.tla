--------------------------- MODULE OperatorProofs ---------------------------
(***************************************************************************)
(* Theorems about what an operator is shown: the figures of `stats`, the   *)
(* request rate and the log, for every set of connections, every window    *)
(* and any clock that is not set back, and every log.                      *)
(*                                                                         *)
(* A sum over a set is computed by a recursive function of its subsets;    *)
(* it is the number of pairs of an element and one of its units            *)
(* (SumIsCount), so that sums are compared by pairing off what they count. *)
(*                                                                         *)
(* The rate counter's argument: a bucket belongs to the newest second that *)
(* had a hit and falls on it.  Two seconds that fall on one bucket are a   *)
(* whole window apart (SameResidue), so while a second is within the       *)
(* window no other can have taken its bucket.                              *)
(***************************************************************************)
EXTENDS TunnelRegistryProofs, RateCounter, LogTail, SequenceTheorems, FiniteSetTheorems

-----------------------------------------------------------------------------
(* Sums *)

Sum(f, S) == FoldFunctionOnSet(+, 0, f, S)

\* The places a sum counts: one for each unit of each value.
Places(f, S) == {p \in S \X Nat : p[2] > 0 /\ p[2] <= f[p[1]]}

\* The element that a fold over a set takes next.
Chosen(s) == CHOOSE x \in s : TRUE

\* The function of the subsets of S that a fold over S is computed with.
Totals(f, S, g) ==
    g = [s \in SUBSET S |-> IF s = {} THEN 0 ELSE f[Chosen(s)] + g[s \ {Chosen(s)}]]

LEMMA ChosenIn == \A s : s # {} => Chosen(s) \in s
BY DEF Chosen

\* A sum is computed with any such function, if there is one.
LEMMA SumUnfolded ==
    ASSUME NEW f, NEW S, NEW h, Totals(f, S, h)
    PROVE  \E g : Totals(f, S, g) /\ Sum(f, S) = g[S]
BY DEF Totals, Chosen, Sum, FoldFunctionOnSet, MapThenFoldSet

\* The places of a sum over a finite set are finitely many.
LEMMA PlacesFinite ==
    ASSUME NEW S, IsFiniteSet(S), NEW f, \A s \in S : f[s] \in Nat
    PROVE  IsFiniteSet(Places(f, S))
<1> DEFINE row == [s \in S |-> {s} \X (1 .. f[s])]
           Rows == {row[s] : s \in S}
<1>1. row \in Surjection(S, Rows)
  BY DEF Surjection
<1>2. IsFiniteSet(Rows)
  BY <1>1, FS_Surjection
<1>3. ASSUME NEW s \in S PROVE IsFiniteSet(row[s])
  <2>1. IsFiniteSet({s})
    BY FS_Singleton
  <2>2. IsFiniteSet(1 .. f[s])
    BY FS_Interval
  <2>3. IsFiniteSet({s} \X (1 .. f[s]))
    BY <2>1, <2>2, FS_Product
  <2> QED  BY <2>3
<1>4. IsFiniteSet(UNION Rows)
  <2>1. \A T \in Rows : IsFiniteSet(T)
    BY <1>3
  <2> QED  BY <1>2, <2>1, FS_UNION
<1>5. Places(f, S) \subseteq UNION Rows
  <2> SUFFICES ASSUME NEW p \in Places(f, S) PROVE \E s \in S : p \in row[s]
    OBVIOUS
  <2>1. p \in S \X Nat /\ p[2] > 0 /\ p[2] <= f[p[1]]
    BY DEF Places
  <2>2. p[1] \in S /\ p[2] \in 1 .. f[p[1]] /\ p = <<p[1], p[2]>>
    BY <2>1
  <2>3. p \in row[p[1]]
    BY <2>2
  <2> QED  BY <2>2, <2>3
<1> QED  BY <1>4, <1>5, FS_Subset

\* One more element brings as many places as its value.
LEMMA PlacesOfOne ==
    ASSUME NEW S, IsFiniteSet(S), NEW f, \A s \in S : f[s] \in Nat, NEW x \in S
    PROVE  Cardinality(Places(f, S)) = f[x] + Cardinality(Places(f, S \ {x}))
<1> DEFINE rest == Places(f, S \ {x})
           own == {x} \X (1 .. f[x])
<1>1. IsFiniteSet(rest) /\ Cardinality(rest) \in Nat
  <2>1. IsFiniteSet(S \ {x})
    BY FS_RemoveElement
  <2>2. IsFiniteSet(rest)
    BY <2>1, PlacesFinite
  <2> QED  BY <2>2, FS_CardinalityType
<1>2. IsFiniteSet(own) /\ Cardinality(own) = f[x]
  <2>1. IsFiniteSet({x}) /\ Cardinality({x}) = 1
    BY FS_Singleton
  <2>2. IsFiniteSet(1 .. f[x]) /\ Cardinality(1 .. f[x]) = f[x]
    BY FS_Interval
  <2>3. IsFiniteSet(own) /\ Cardinality(own) = Cardinality({x}) * Cardinality(1 .. f[x])
    BY <2>1, <2>2, FS_Product
  <2> QED  BY <2>1, <2>2, <2>3
<1>3. Places(f, S) = rest \cup own
  BY DEF Places
<1>4. rest \cap own = {}
  BY DEF Places
<1>5. Cardinality(rest \cup own) = Cardinality(rest) + Cardinality(own) - Cardinality(rest \cap own)
  BY <1>1, <1>2, FS_Union
<1>6. Cardinality(rest \cap own) = 0
  BY <1>4, FS_EmptySet
<1> HIDE DEF rest, own
<1>7. Cardinality(Places(f, S)) = f[x] + Cardinality(rest)
  BY <1>1, <1>2, <1>3, <1>5, <1>6
<1> QED  BY <1>7 DEF rest

\* The sum of naturals over a finite set is the number of its places.
LEMMA SumIsCount ==
    ASSUME NEW S, IsFiniteSet(S), NEW f, \A s \in S : f[s] \in Nat
    PROVE  Sum(f, S) = Cardinality(Places(f, S))
<1> DEFINE g0 == [s \in SUBSET S |-> Cardinality(Places(f, s))]
<1>1. ASSUME NEW s \in SUBSET S
      PROVE  g0[s] = IF s = {} THEN 0 ELSE f[Chosen(s)] + g0[s \ {Chosen(s)}]
  <2>1. IsFiniteSet(s)
    BY FS_Subset
  <2>2. CASE s = {}
    <3>1. Places(f, s) = {}
      BY <2>2 DEF Places
    <3> QED  BY <2>2, <3>1, FS_EmptySet
  <2>3. CASE s # {}
    <3>1. Chosen(s) \in s
      BY <2>3, ChosenIn
    <3>2. Cardinality(Places(f, s)) = f[Chosen(s)] + Cardinality(Places(f, s \ {Chosen(s)}))
      BY <2>1, <3>1, PlacesOfOne
    <3> QED  BY <2>3, <3>2
  <2> QED  BY <2>2, <2>3
<1>2. Totals(f, S, g0)
  BY <1>1 DEF Totals
<1>3. PICK g : Totals(f, S, g) /\ Sum(f, S) = g[S]
  <2> HIDE DEF g0
  <2> QED  BY <1>2, SumUnfolded
<1> DEFINE Bad == {s \in SUBSET S : g[s] # g0[s]}
<1>4. Bad = {}
  <2> SUFFICES ASSUME Bad # {} PROVE FALSE
    OBVIOUS
  <2>1. IsWellFoundedOn(StrictSubsetOrdering(S), SUBSET S)
    BY FS_StrictSubsetOrderingWellFounded, FS_FiniteSubsetsOfFinite
  <2>2. PICK s \in Bad : \A t \in Bad : ~ (<<t, s>> \in StrictSubsetOrdering(S))
    <3> HIDE DEF Bad
    <3>1. Bad \subseteq SUBSET S
      BY DEF Bad
    <3> QED  BY <2>1, <3>1, WFMin
  <2>3. s # {}
    BY <1>1, <1>3 DEF Totals
  <2>4. Chosen(s) \in s
    BY <2>3, ChosenIn
  <2>5. s \ {Chosen(s)} \notin Bad
    <3>1. <<s \ {Chosen(s)}, s>> \in StrictSubsetOrdering(S)
      BY <2>4 DEF StrictSubsetOrdering
    <3> QED  BY <2>2, <3>1
  <2>6. g[s \ {Chosen(s)}] = g0[s \ {Chosen(s)}]
    BY <2>5
  <2>7. g[s] = f[Chosen(s)] + g[s \ {Chosen(s)}]
    BY <1>3, <2>3 DEF Totals
  <2>8. g0[s] = f[Chosen(s)] + g0[s \ {Chosen(s)}]
    BY <1>1, <2>3
  <2> QED  BY <2>2, <2>6, <2>7, <2>8
<1> QED  BY <1>3, <1>4
\* Two sums are equal if the places they count are paired off.
LEMMA SamePlaces ==
    ASSUME NEW S, IsFiniteSet(S), NEW f, \A s \in S : f[s] \in Nat,
           NEW T, IsFiniteSet(T), NEW h, \A t \in T : h[t] \in Nat,
           ExistsBijection(Places(f, S), Places(h, T))
    PROVE  Sum(f, S) = Sum(h, T)
<1>1. Sum(f, S) = Cardinality(Places(f, S)) /\ Sum(h, T) = Cardinality(Places(h, T))
  BY SumIsCount
<1>2. Cardinality(Places(h, T)) = Cardinality(Places(f, S))
  BY PlacesFinite, FS_Bijection
<1> QED  BY <1>1, <1>2

-----------------------------------------------------------------------------
(* The figures of `stats` *)

OpenSockets == {s \in Socket : conn[s] = "open"}

\* What the counts rest on: a connection is counted under its user's token exactly
\* while it is open, and only finitely many ever are.
UsersCounted ==
    /\ IsFiniteSet(OpenSockets)
    /\ \A s \in Socket :
          bySocket[s] = IF conn[s] = "open" THEN handshake[s].token ELSE Undefined

\* Connections that come and go keep the users' count with the connections.
LEMMA UsersCountedStep ==
    RegistryInv /\ UsersCounted /\ [RegistryNext]_registryVars => UsersCounted'
<1> SUFFICES ASSUME RegistryInv, UsersCounted, [RegistryNext]_registryVars
             PROVE  UsersCounted'
  OBVIOUS
<1>1. /\ conn \in [Socket -> {"new", "open", "closed"}]
      /\ handshake \in [Socket -> Handshake \cup {Undefined}]
      /\ bySocket \in [Socket -> Token \cup {Undefined}]
  BY DEF RegistryInv, RegistryTypeOK
<1>2. ASSUME NEW s \in Socket, NEW h \in Handshake, Connect(s, h)
      PROVE  UsersCounted'
  <2>1. /\ conn' = [conn EXCEPT ![s] = "open"]
        /\ handshake' = [handshake EXCEPT ![s] = h]
        /\ bySocket' = [bySocket EXCEPT ![s] = h.token]
    BY <1>2 DEF Connect
  <2>2. OpenSockets' = OpenSockets \cup {s}
    BY <1>1, <2>1 DEF OpenSockets
  <2>3. IsFiniteSet(OpenSockets')
    BY <2>2, FS_AddElement DEF UsersCounted
  <2> QED  BY <1>1, <2>1, <2>3 DEF UsersCounted
<1>3. ASSUME NEW s \in Socket, NEW h \in Handshake, Refuse(s, h)
      PROVE  UsersCounted'
  <2>1. /\ conn[s] = "new" /\ conn' = [conn EXCEPT ![s] = "closed"]
        /\ handshake' = handshake /\ bySocket' = bySocket
    BY <1>3 DEF Refuse
  <2>2. OpenSockets' = OpenSockets
    BY <1>1, <2>1 DEF OpenSockets
  <2> QED  BY <1>1, <2>1, <2>2 DEF UsersCounted
<1>4. ASSUME NEW s \in Socket, Disconnect(s)
      PROVE  UsersCounted'
  <2>1. /\ conn' = [conn EXCEPT ![s] = "closed"] /\ handshake' = handshake
        /\ bySocket' = [bySocket EXCEPT ![s] = Undefined]
    BY <1>4 DEF Disconnect
  <2>2. OpenSockets' = OpenSockets \ {s}
    BY <1>1, <2>1 DEF OpenSockets
  <2>3. IsFiniteSet(OpenSockets')
    BY <2>2, FS_RemoveElement DEF UsersCounted
  <2> QED  BY <1>1, <2>1, <2>3 DEF UsersCounted
<1>5. ASSUME NEW t \in Tunnel, Resolve(t)
      PROVE  UsersCounted'
  BY <1>5 DEF Resolve, UsersCounted, OpenSockets
<1>6. CASE UNCHANGED registryVars
  BY <1>6 DEF registryVars, UsersCounted, OpenSockets
<1> QED  BY <1>2, <1>3, <1>4, <1>5, <1>6 DEF RegistryNext

\* The tunnels that have a pool are those of the open connections.
LEMMA HeldTunnels ==
    ASSUME RegistryInv
    PROVE  {t \in Tunnel : Has(t)} = {handshake[s].tunnel : s \in OpenSockets}
<1>1. ASSUME NEW t \in Tunnel, Has(t)
      PROVE  \E s \in OpenSockets : handshake[s].tunnel = t
  <2>1. pools[t] # <<>> /\ pools[t] \in Seq(Socket) /\ PoolOf(t) = pools[t]
    BY <1>1 DEF RegistryInv, RegistryTypeOK, PoolsMatchConnections, Has, PoolOf
  <2>2. 1 \in 1 .. Len(pools[t])
    BY <2>1
  <2>3. pools[t][1] \in Socket /\ pools[t][1] \in ToSet(PoolOf(t))
    BY <2>1, <2>2 DEF ToSet
  <2> QED  BY <2>3 DEF RegistryInv, PoolsMatchConnections, OpenSockets
<1>2. ASSUME NEW s \in OpenSockets
      PROVE  handshake[s].tunnel \in Tunnel /\ Has(handshake[s].tunnel)
  BY LeavePool DEF OpenSockets
<1> QED  BY <1>1, <1>2

\* The connections of all pools, pool by pool, are the open connections.
LEMMA ConnectionsSummed ==
    ASSUME RegistryInv, IsFiniteSet(OpenSockets)
    PROVE  connectionCount = Cardinality(OpenSockets)
<1> DEFINE Held == {u \in Tunnel : Has(u)}
           size == [t \in Held |-> PoolSize(t)]
           member == [p \in Places(size, Held) |-> pools[p[1]][p[2]]]
<1>1. connectionCount = Sum(size, Held)
  BY DEF connectionCount, FoldFunction, Sum
<1>2. IsFiniteSet(Held)
  <2> DEFINE tunnel == [s \in OpenSockets |-> handshake[s].tunnel]
  <2>1. tunnel \in Surjection(OpenSockets, Held)
    BY HeldTunnels DEF Surjection
  <2> HIDE DEF tunnel, Held
  <2> QED  BY <2>1, FS_Surjection
<1>3. ASSUME NEW t \in Held
      PROVE  /\ t \in Tunnel /\ PoolOf(t) = pools[t] /\ pools[t] \in Seq(Socket)
             /\ size[t] = Len(pools[t]) /\ size[t] \in Nat
  BY DEF RegistryInv, RegistryTypeOK, Has, PoolOf, PoolSize
<1>4. ASSUME NEW p \in Places(size, Held)
      PROVE  /\ p[1] \in Held /\ p[2] \in 1 .. Len(pools[p[1]]) /\ p = <<p[1], p[2]>>
             /\ member[p] \in OpenSockets /\ handshake[member[p]].tunnel = p[1]
  <2>1. p[1] \in Held /\ p[2] \in Nat /\ p[2] > 0 /\ p[2] <= size[p[1]] /\ p = <<p[1], p[2]>>
    BY DEF Places
  <2>2. p[2] \in 1 .. Len(pools[p[1]]) /\ pools[p[1]] \in Seq(Socket)
    BY <1>3, <2>1
  <2>3. member[p] \in Socket /\ member[p] \in ToSet(PoolOf(p[1]))
    BY <1>3, <2>1, <2>2 DEF ToSet
  <2>4. member[p] \in OpenSockets /\ handshake[member[p]].tunnel = p[1]
    BY <1>3, <2>1, <2>3 DEF RegistryInv, PoolsMatchConnections, OpenSockets
  <2> QED  BY <2>1, <2>2, <2>4
<1>5. ASSUME NEW p \in Places(size, Held), NEW q \in Places(size, Held), member[p] = member[q]
      PROVE  p = q
  <2>1. p[1] = q[1]
    BY <1>4, <1>5
  <2>2. IsInjective(pools[p[1]])
    BY <1>3, <1>4 DEF RegistryInv, PoolsMatchConnections
  <2>3. pools[p[1]][p[2]] = pools[p[1]][q[2]]
    BY <1>5, <2>1
  <2>4. p[2] \in DOMAIN pools[p[1]] /\ q[2] \in DOMAIN pools[p[1]]
    <3>1. p[2] \in 1 .. Len(pools[p[1]]) /\ q[2] \in 1 .. Len(pools[p[1]])
      BY <1>4, <2>1
    <3>2. pools[p[1]] \in Seq(Socket)
      BY <1>3, <1>4
    <3> QED  BY <3>1, <3>2
  <2>5. p[2] = q[2]
    BY <2>2, <2>3, <2>4 DEF IsInjective
  <2> QED  BY <1>4, <2>1, <2>5
<1>6. ASSUME NEW s \in OpenSockets
      PROVE  \E p \in Places(size, Held) : member[p] = s
  <2> DEFINE t == handshake[s].tunnel
  <2>1. t \in Held
    BY HeldTunnels
  <2>2. s \in ToSet(pools[t])
    BY <1>3, <2>1 DEF RegistryInv, PoolsMatchConnections, OpenSockets
  <2>3. PICK k \in 1 .. Len(pools[t]) : pools[t][k] = s
    <3>1. pools[t] \in Seq(Socket)
      BY <1>3, <2>1
    <3> QED  BY <2>2, <3>1 DEF ToSet
  <2>4. size[t] = Len(pools[t]) /\ Len(pools[t]) \in Nat
    BY <1>3, <2>1
  <2> HIDE DEF t, Held, size
  <2>5. <<t, k>> \in Places(size, Held)
    BY <2>1, <2>3, <2>4 DEF Places
  <2>6. member[<<t, k>>] = s
    BY <2>3, <2>5
  <2> QED  BY <2>5, <2>6
<1>7. member \in Bijection(Places(size, Held), OpenSockets)
  <2>1. member \in [Places(size, Held) -> OpenSockets]
    <3>1. \A p \in Places(size, Held) : pools[p[1]][p[2]] \in OpenSockets
      BY <1>4
    <3> HIDE DEF size, Held
    <3> QED  BY <3>1
  <2> HIDE DEF member, size, Held
  <2> QED  BY <2>1, <1>5, <1>6 DEF Bijection, Injection, Surjection, IsInjective
<1>8. \A t \in Held : size[t] \in Nat
  BY <1>3
<1> HIDE DEF member, size, Held
<1>9. IsFiniteSet(Places(size, Held)) /\ Sum(size, Held) = Cardinality(Places(size, Held))
  BY <1>2, <1>8, PlacesFinite, SumIsCount
<1>10. ExistsBijection(Places(size, Held), OpenSockets)
  BY <1>7 DEF ExistsBijection
<1>11. Cardinality(OpenSockets) = Cardinality(Places(size, Held))
  BY <1>9, <1>10, FS_Bijection
<1> QED  BY <1>1, <1>9, <1>11

\* What `stats` shows of tunnels, connections and users is what is connected, for every
\* configuration and whatever connected and disconnected before.
THEOREM CountsAreExactHolds == RegistrySpec => []CountsAreExact
<1>1. RegistryInit => UsersCounted
  <2> SUFFICES ASSUME RegistryInit PROVE UsersCounted
    OBVIOUS
  <2>1. OpenSockets = {}
    BY DEF RegistryInit, OpenSockets
  <2> QED  BY <2>1, FS_EmptySet DEF RegistryInit, UsersCounted
<1>2. RegistryInv /\ UsersCounted => CountsAreExact
  <2> SUFFICES ASSUME RegistryInv, UsersCounted PROVE CountsAreExact
    OBVIOUS
  <2>1. tunnelCount = Cardinality({handshake[s].tunnel : s \in OpenSockets})
    BY HeldTunnels DEF tunnelCount
  <2>2. connectionCount = Cardinality(OpenSockets)
    BY ConnectionsSummed DEF UsersCounted
  <2>3. {bySocket[s] : s \in Socket} \ {Undefined} = {handshake[s].token : s \in OpenSockets}
    <3>1. ASSUME NEW s \in OpenSockets PROVE handshake[s].token # Undefined
      <4>1. handshake[s] \in Handshake /\ handshake[s].token \in ValidToken
        BY DEF RegistryInv, HandshakesRecorded, OpenSockets, Admitted
      <4> QED  BY <4>1, RegistryAssumption
    <3> QED  BY <3>1 DEF UsersCounted, OpenSockets
  <2>4. userCount = Cardinality({handshake[s].token : s \in OpenSockets})
    BY <2>3 DEF userCount
  <2> QED  BY <2>1, <2>2, <2>4 DEF CountsAreExact, OpenSockets
<1> QED  BY <1>1, <1>2, UsersCountedStep, RegistryInvariant, PTL DEF RegistrySpec

-----------------------------------------------------------------------------
(* The rate counter *)

\* A bucket holds all the events of the second it belongs to, which falls on it
\* and is not ahead of the clock; a bucket nobody used is empty.
BucketsOwned ==
    \A i \in Index :
        IF seconds[i] = -1 THEN buckets[i] = 0
        ELSE seconds[i] <= now /\ seconds[i] % Window = i /\ hits[seconds[i]] = buckets[i]

\* A second that had events has its bucket, unless a later one has taken it over.
SecondsFollowed ==
    \A t \in Second : hits[t] > 0 => t <= now /\ seconds[t % Window] >= t

RingInv == RateTypeOK /\ BucketsOwned /\ SecondsFollowed

\* Seconds less than a window apart do not share a bucket.
LEMMA SameResidue ==
    ASSUME NEW w \in Nat \ {0}, NEW a \in Nat, NEW b \in Nat,
           a % w = b % w, a <= b, b - a < w
    PROVE  a = b
<1> DEFINE p == a \div w
           q == b \div w
<1>1. /\ a = (w * p) + (a % w)
      /\ b = (w * q) + (b % w)
      /\ p \in Int /\ q \in Int
  OBVIOUS
<1> HIDE DEF p, q
<1>2. b - a = w * (q - p)
  BY <1>1
<1>3. q - p < 1
  BY <1>1, <1>2
<1>4. q - p > -1
  BY <1>1, <1>2
<1> QED  BY <1>1, <1>2, <1>3, <1>4

\* Every second has a bucket.
LEMMA Residue ==
    ASSUME NEW w \in Nat \ {0}, NEW a \in Nat
    PROVE  a % w \in 0 .. w - 1
OBVIOUS

\* A hit in the current second finds its bucket: the bucket belongs to this second
\* exactly if the second has been written to.
LEMMA BucketOfNow ==
    ASSUME RingInv
    PROVE  LET i == now % Window
           IN  i \in Index /\ (seconds[i] # now => hits[now] = 0)
                           /\ (seconds[i] = now => hits[now] = buckets[i])
<1>1. now \in Second /\ now % Window \in Index
  BY RateAssumption, Residue DEF RingInv, RateTypeOK, Second, Index
<1>2. hits[now] \in Nat /\ seconds[now % Window] \in Int
  BY <1>1, RateAssumption DEF RingInv, RateTypeOK, Second
<1>3. hits[now] > 0 => seconds[now % Window] >= now
  BY <1>1 DEF RingInv, SecondsFollowed
<1>4. seconds[now % Window] <= now
  BY <1>1, <1>2 DEF RingInv, BucketsOwned, Second
<1>5. seconds[now % Window] = now => hits[now] = buckets[now % Window]
  BY <1>1 DEF RingInv, BucketsOwned, Second
<1> QED  BY <1>1, <1>2, <1>3, <1>4, <1>5 DEF Second

-----------------------------------------------------------------------------
(* The ring *)

\* For every window: the ring keeps its types, each bucket holds the events of its
\* second, and no second that had events has lost its bucket to an earlier one.
THEOREM RingInvariant == RateSpec => []RingInv
<1>1. RateInit => RingInv
  BY RateAssumption DEF RateInit, RingInv, RateTypeOK, BucketsOwned, SecondsFollowed, Second, Index
<1>2. RingInv /\ [RateNext]_rateVars => RingInv'
  <2> SUFFICES ASSUME RingInv, [RateNext]_rateVars PROVE RingInv'
    OBVIOUS
  <2>1. CASE Tick
    BY <2>1, RateAssumption
    DEF Tick, RingInv, RateTypeOK, BucketsOwned, SecondsFollowed, Second, Index
  <2>2. ASSUME NEW by \in By, hit(by) PROVE RingInv'
    <3> DEFINE i == now % Window
    <3>1. i \in Index /\ now \in Second /\ by \in Nat
      BY BucketOfNow, RateAssumption DEF RingInv, RateTypeOK
    <3>2. /\ buckets' = [buckets EXCEPT ![i] = BucketAfter(i, by)]
          /\ seconds' = [seconds EXCEPT ![i] = now]
          /\ hits' = [hits EXCEPT ![now] = @ + by]
          /\ hits[now] + by <= MaxHits /\ now' = now
      BY <2>2 DEF hit
    <3>3. /\ buckets \in [Index -> 0 .. MaxHits] /\ hits \in [Second -> 0 .. MaxHits]
          /\ seconds \in [Index -> Second \cup {-1}] /\ MaxHits \in Nat
      BY RateAssumption DEF RingInv, RateTypeOK
    <3>4. BucketAfter(i, by) = hits[now] + by /\ hits[now] + by \in 0 .. MaxHits
      <4>1. (seconds[i] # now => hits[now] = 0) /\ (seconds[i] = now => hits[now] = buckets[i])
        BY BucketOfNow
      <4>2. hits[now] \in Nat
        BY <3>1, <3>3
      <4> QED  BY <3>1, <3>2, <4>1, <4>2 DEF BucketAfter
    <3> HIDE DEF i
    <3>5. RateTypeOK'
      BY <3>1, <3>2, <3>3, <3>4 DEF RateTypeOK
    <3>6. BucketsOwned'
      <4>1. seconds'[i] = now /\ buckets'[i] = hits'[now] /\ now % Window = i /\ now # -1
        BY <3>1, <3>2, <3>3, <3>4 DEF i, Second
      <4>2. ASSUME NEW j \in Index, j # i
            PROVE  /\ seconds'[j] = seconds[j] /\ buckets'[j] = buckets[j]
                   /\ seconds[j] # -1 => hits'[seconds[j]] = hits[seconds[j]]
        <5>1. seconds[j] # -1 => seconds[j] # now /\ seconds[j] \in Second
          BY <3>3, <4>1, <4>2 DEF RingInv, BucketsOwned
        <5> QED  BY <3>1, <3>2, <3>3, <4>2, <5>1
      <4> QED  BY <3>2, <4>1, <4>2, <3>1 DEF RingInv, BucketsOwned, Second
    <3>7. SecondsFollowed'
      <4> SUFFICES ASSUME NEW t \in Second, hits'[t] > 0
                   PROVE  t <= now /\ seconds'[t % Window] >= t
        BY <3>2 DEF SecondsFollowed
      <4>1. t % Window \in Index
        BY RateAssumption, Residue DEF Second, Index
      <4>2. CASE t = now
        BY <4>2, <3>1, <3>2, <3>3 DEF i, Second
      <4>3. CASE t # now
        <5>1. t <= now /\ seconds[t % Window] >= t
          BY <4>3, <3>1, <3>2, <3>3 DEF RingInv, SecondsFollowed
        <5>2. seconds'[t % Window] \in {seconds[t % Window], now}
          BY <3>2, <3>3, <4>1
        <5> QED  BY <5>1, <5>2, <3>1 DEF Second
      <4> QED  BY <4>2, <4>3
    <3> QED  BY <3>5, <3>6, <3>7 DEF RingInv
  <2>3. CASE UNCHANGED rateVars
    BY <2>3 DEF rateVars, RingInv, RateTypeOK, BucketsOwned, SecondsFollowed
  <2> QED  BY <2>1, <2>2, <2>3 DEF RateNext
<1> QED  BY <1>1, <1>2, PTL DEF RateSpec

\* The buckets of hit and count keep their types: no bucket outgrows a second.
THEOREM RateTypeCorrect == RateSpec => []RateTypeOK
<1>1. RingInv => RateTypeOK
  BY DEF RingInv
<1> QED  BY <1>1, RingInvariant, PTL

\* What count() adds up is the window: every second of it that had events stands
\* in its own bucket, and no counted bucket holds anything else.
THEOREM CountedIsWindow == RateSpec => []BucketsAreWindow
<1>1. RingInv => BucketsAreWindow
  <2> SUFFICES ASSUME RingInv PROVE BucketsAreWindow
    OBVIOUS
  <2>1. now \in Nat /\ Window \in Nat \ {0}
    BY RateAssumption DEF RingInv, RateTypeOK, Second
  <2>2. ASSUME NEW t \in Second, InWindow(t), hits[t] > 0
        PROVE  seconds[t % Window] = t /\ buckets[t % Window] = hits[t]
    <3> DEFINE i == t % Window
               u == seconds[i]
    <3>1. i \in Index /\ t \in Nat
      BY RateAssumption, Residue DEF Second, Index
    <3>2. u >= t /\ u \in Second \cup {-1}
      BY <2>2, <3>1 DEF RingInv, RateTypeOK, SecondsFollowed
    <3>3. u # -1 /\ u \in Nat
      BY <3>1, <3>2 DEF Second
    <3>4. u <= now /\ u % Window = i /\ hits[u] = buckets[i]
      BY <3>1, <3>3 DEF RingInv, BucketsOwned
    <3>5. u - t < Window
      BY <2>1, <2>2, <3>1, <3>3, <3>4 DEF InWindow
    <3>6. t % Window = u % Window /\ t <= u
      BY <3>2, <3>3, <3>4, <3>1
    <3> HIDE DEF u
    <3>7. t = u
      BY <2>1, <3>1, <3>3, <3>5, <3>6, SameResidue
    <3> QED  BY <3>4, <3>7 DEF u
  <2>3. ASSUME NEW i \in Index, seconds[i] >= oldest, buckets[i] > 0
        PROVE  InWindow(seconds[i]) /\ seconds[i] % Window = i /\ hits[seconds[i]] = buckets[i]
    <3>1. seconds[i] # -1 /\ seconds[i] \in Int
      BY <2>3 DEF RingInv, RateTypeOK, BucketsOwned, Second
    <3>2. seconds[i] <= now /\ seconds[i] % Window = i /\ hits[seconds[i]] = buckets[i]
      BY <3>1 DEF RingInv, BucketsOwned
    <3> QED  BY <2>1, <2>3, <3>1, <3>2 DEF InWindow, oldest
  <2> QED  BY <2>2, <2>3 DEF BucketsAreWindow
<1> QED  BY <1>1, RingInvariant, PTL
-----------------------------------------------------------------------------
(* The sum of the rate counter *)

\* requestsPerMinute: the number that count() adds up is that of the events of the last
\* Window seconds, for every window and however the clock jumps.
THEOREM CountIsWindowHolds == RateSpec => []CountIsWindow
<1>1. RingInv /\ BucketsAreWindow => CountIsWindow
  <2> SUFFICES ASSUME RingInv, BucketsAreWindow PROVE CountIsWindow
    OBVIOUS
  <2> DEFINE S == {i \in Index : seconds[i] >= oldest}
             T == {t \in Second : InWindow(t)}
             pair == [p \in Places(buckets, S) |-> <<seconds[p[1]], p[2]>>]
  <2>1. /\ Window \in Nat \ {0} /\ MaxSecond \in Nat /\ now \in Nat /\ now <= MaxSecond
        /\ \A i \in Index : buckets[i] \in Nat /\ seconds[i] \in Int
        /\ \A t \in Second : hits[t] \in Nat
    BY RateAssumption DEF RingInv, RateTypeOK, Second
  <2>2. IsFiniteSet(Index) /\ IsFiniteSet(Second)
    BY <2>1, FS_Interval DEF Index, Second
  <2>3. IsFiniteSet(S) /\ IsFiniteSet(T)
    BY <2>2, FS_Subset
  <2>4. ASSUME NEW p \in Places(buckets, S)
        PROVE  /\ p[1] \in Index /\ seconds[p[1]] \in T
               /\ p = <<p[1], p[2]>> /\ p[2] \in Nat /\ p[2] > 0
               /\ seconds[p[1]] % Window = p[1] /\ hits[seconds[p[1]]] = buckets[p[1]]
               /\ p[2] <= hits[seconds[p[1]]]
    <3>1. /\ p[1] \in Index /\ seconds[p[1]] >= oldest /\ p = <<p[1], p[2]>>
          /\ p[2] \in Nat /\ p[2] > 0 /\ p[2] <= buckets[p[1]]
      BY DEF Places
    <3>2. buckets[p[1]] > 0
      BY <2>1, <3>1
    <3>3. InWindow(seconds[p[1]]) /\ seconds[p[1]] % Window = p[1]
          /\ hits[seconds[p[1]]] = buckets[p[1]]
      BY <3>1, <3>2 DEF BucketsAreWindow
    <3>4. seconds[p[1]] \in Second
      <4>1. seconds[p[1]] # -1
        BY <2>1, <3>1, <3>2 DEF RingInv, BucketsOwned
      <4> QED  BY <3>1, <4>1 DEF RingInv, RateTypeOK
    <3> QED  BY <3>1, <3>3, <3>4
  <2>5. pair \in [Places(buckets, S) -> Places(hits, T)]
    <3> SUFFICES ASSUME NEW p \in Places(buckets, S)
                 PROVE  <<seconds[p[1]], p[2]>> \in Places(hits, T)
      OBVIOUS
    <3> QED  BY <2>4 DEF Places
  <2>6. ASSUME NEW p \in Places(buckets, S), NEW q \in Places(buckets, S), pair[p] = pair[q]
        PROVE  p = q
    <3>1. seconds[p[1]] = seconds[q[1]] /\ p[2] = q[2]
      BY <2>6
    <3>2. p[1] = q[1]
      BY <2>4, <3>1
    <3> QED  BY <2>4, <3>1, <3>2
  <2>7. ASSUME NEW q \in Places(hits, T)
        PROVE  \E p \in Places(buckets, S) : pair[p] = q
    <3> DEFINE i == q[1] % Window
    <3>1. /\ q[1] \in Second /\ InWindow(q[1]) /\ q = <<q[1], q[2]>>
          /\ q[2] \in Nat /\ q[2] > 0 /\ q[2] <= hits[q[1]]
      BY DEF Places
    <3>2. hits[q[1]] > 0
      BY <2>1, <3>1
    <3>3. seconds[i] = q[1] /\ buckets[i] = hits[q[1]]
      BY <3>1, <3>2 DEF BucketsAreWindow
    <3>4. i \in Index
      BY <2>1, <3>1, Residue DEF Index, Second
    <3> HIDE DEF i
    <3>5. seconds[i] >= oldest
      BY <2>1, <3>1, <3>3 DEF InWindow, oldest, Second
    <3>6. <<i, q[2]>> \in Places(buckets, S)
      BY <3>1, <3>3, <3>4, <3>5 DEF Places
    <3>7. pair[<<i, q[2]>>] = q
      BY <3>1, <3>3, <3>6
    <3> QED  BY <3>6, <3>7
  <2>8. pair \in Bijection(Places(buckets, S), Places(hits, T))
    <3> HIDE DEF S, T, pair
    <3> QED  BY <2>5, <2>6, <2>7 DEF Bijection, Injection, Surjection, IsInjective
  <2>9. ExistsBijection(Places(buckets, S), Places(hits, T))
    <3> HIDE DEF S, T, pair
    <3> QED  BY <2>8 DEF ExistsBijection
  <2>10. (\A i \in S : buckets[i] \in Nat) /\ (\A t \in T : hits[t] \in Nat)
    BY <2>1
  <2>11. Sum(buckets, S) = Sum(hits, T)
    <3> HIDE DEF S, T, pair
    <3> QED  BY <2>3, <2>9, <2>10, SamePlaces
  <2> QED  BY <2>11 DEF CountIsWindow, count, Sum
<1> QED  BY <1>1, RingInvariant, CountedIsWindow, PTL

-----------------------------------------------------------------------------
(* The tail: what it will read next lies behind all that it has printed *)

Rising(s) == \A i, j \in 1 .. Len(s) : i < j => s[i] < s[j]

\* The variables have their types.
TailTypeOK ==
    /\ file \in [lines : Seq(Nat), exists : BOOLEAN]
    /\ change \in Nat /\ gen \in Nat /\ logged \in Nat /\ posGen \in Nat /\ seen \in Int
    /\ running \in BOOLEAN /\ fetched \in BOOLEAN /\ torn \in BOOLEAN
    /\ pos \in Nat /\ reading \in {None} \cup [from : Nat, size : Nat]
    /\ printed \in Seq(Nat)

\* Lines are numbered as they were logged, in the file and where they were printed.
LogOrdered ==
    /\ Rising(file.lines)
    /\ \A i \in 1 .. Size : file.lines[i] <= logged
    /\ \A i \in 1 .. Len(printed) : printed[i] <= logged

\* A tail that does not run has done nothing, and one that reads nothing prints nothing.
TailRests ==
    /\ ~running => reading = None /\ printed = <<>> /\ seen = -1
    /\ reading = None => ~fetched

\* Up to where the file has been printed: none of it, if it was cut since the last look.
Reached ==
    IF gen # posGen THEN 0
    ELSE IF reading = None THEN pos
    ELSE IF fetched THEN reading.size ELSE reading.from

\* All that was printed came before what lies behind that, and a read is of the file as
\* it was last looked at.
TailFollows ==
    /\ Rising(printed)
    /\ \A i \in 1 .. Len(printed), j \in 1 .. Size :
          j > Reached => printed[i] < file.lines[j]
    /\ Reached <= Size
    /\ reading # None => gen = posGen /\ reading.from <= reading.size /\ reading.size <= Size

TailInv ==
    TailTypeOK /\ posGen <= gen /\ LogOrdered /\ TailRests /\ (~torn => TailFollows)

\* A read is not nothing.
LEMMA ReadIsNotNone ==
    ASSUME NEW r \in [from : Nat, size : Nat]
    PROVE  r # None
BY DEF None

\* A line behind a sequence.
LEMMA RisingAppended ==
    ASSUME NEW s \in Seq(Nat), NEW x \in Nat, Rising(s), \A i \in 1 .. Len(s) : s[i] < x
    PROVE  /\ Append(s, x) \in Seq(Nat) /\ Len(Append(s, x)) = Len(s) + 1 /\ Rising(Append(s, x))
           /\ \A i \in 1 .. Len(s) : Append(s, x)[i] = s[i]
           /\ Append(s, x)[Len(s) + 1] = x
<1>1. /\ Append(s, x) \in Seq(Nat) /\ Len(Append(s, x)) = Len(s) + 1
      /\ \A i \in 1 .. Len(s) : Append(s, x)[i] = s[i]
      /\ Append(s, x)[Len(s) + 1] = x
  BY AppendProperties
<1>2. ASSUME NEW i \in 1 .. Len(s) + 1, NEW j \in 1 .. Len(s) + 1, i < j
      PROVE  Append(s, x)[i] < Append(s, x)[j]
  <2>1. Len(s) \in Nat /\ i \in 1 .. Len(s)
    BY <1>2, LenProperties
  <2>2. CASE j = Len(s) + 1
    BY <1>1, <2>1, <2>2
  <2>3. CASE j # Len(s) + 1
    <3>1. j \in 1 .. Len(s)
      BY <2>1, <2>3
    <3>2. QED
      BY <1>1, <1>2, <2>1, <3>1 DEF Rising
  <2>4. QED
    BY <2>2, <2>3
<1>3. QED
  BY <1>1, <1>2 DEF Rising

\* The range of a read.
LEMMA RangeOf ==
    ASSUME NEW t \in Seq(Nat), NEW k \in Nat \ {0}, NEW n \in Nat, n <= Len(t)
    PROVE  /\ SubSeq(t, k, n) \in Seq(Nat)
           /\ Len(SubSeq(t, k, n)) = IF k <= n THEN n - k + 1 ELSE 0
           /\ \A i \in 1 .. n - k + 1 : SubSeq(t, k, n)[i] = t[k + i - 1]
<1>1. Len(t) \in Nat /\ k \in Int /\ n \in Int
  BY LenProperties
<1>2. \A i \in k .. n : t[i] \in Nat
  <2>1. \A i \in k .. n : i \in 1 .. Len(t)
    BY <1>1
  <2>2. QED
    BY <2>1, ElementOfSeq
<1>3. QED
  BY <1>1, <1>2, SubSeqProperties

\* What a read prints behind what was printed.
Joined(s, t, m, n) == s \o SubSeq(t, m + 1, n)

\* Each element is one of the first sequence or one of the range.
LEMMA JoinedIs ==
    ASSUME NEW s \in Seq(Nat), NEW t \in Seq(Nat), NEW m \in Nat, NEW n \in Nat, n <= Len(t)
    PROVE  /\ Joined(s, t, m, n) \in Seq(Nat)
           /\ \A i \in 1 .. Len(Joined(s, t, m, n)) :
                 \/ i \in 1 .. Len(s) /\ Joined(s, t, m, n)[i] = s[i]
                 \/ /\ i > Len(s) /\ i - Len(s) + m \in m + 1 .. n
                    /\ Joined(s, t, m, n)[i] = t[i - Len(s) + m]
<1> DEFINE q == SubSeq(t, m + 1, n)
           u == s \o q
<1>1. Len(s) \in Nat /\ Len(t) \in Nat
  BY LenProperties
<1>2. /\ q \in Seq(Nat) /\ Len(q) = IF m <= n THEN n - m ELSE 0
      /\ \A i \in 1 .. n - m : q[i] = t[m + i]
  <2>1. \A k \in Nat \ {0} :
           /\ SubSeq(t, k, n) \in Seq(Nat)
           /\ Len(SubSeq(t, k, n)) = IF k <= n THEN n - k + 1 ELSE 0
           /\ \A i \in 1 .. n - k + 1 : SubSeq(t, k, n)[i] = t[k + i - 1]
    BY RangeOf
  <2>2. m + 1 \in Nat \ {0}
    OBVIOUS
  <2>3. /\ q \in Seq(Nat) /\ Len(q) = IF m + 1 <= n THEN n - (m + 1) + 1 ELSE 0
        /\ \A i \in 1 .. n - (m + 1) + 1 : q[i] = t[m + 1 + i - 1]
    BY <2>1, <2>2, Zenon
  <2>4. n - (m + 1) + 1 = n - m /\ \A i \in 1 .. n - m : m + 1 + i - 1 = m + i
    OBVIOUS
  <2>5. (IF m + 1 <= n THEN n - (m + 1) + 1 ELSE 0) = IF m <= n THEN n - m ELSE 0
    OBVIOUS
  <2> HIDE DEF q
  <2>6. QED
    BY <2>3, <2>4, <2>5
<1> HIDE DEF q
<1>3. /\ u \in Seq(Nat) /\ Len(u) = Len(s) + Len(q)
      /\ \A i \in 1 .. Len(s) + Len(q) : u[i] = IF i <= Len(s) THEN s[i] ELSE q[i - Len(s)]
  BY <1>2, ConcatProperties
<1> HIDE DEF u
<1>4. ASSUME NEW i \in 1 .. Len(u)
      PROVE  \/ i \in 1 .. Len(s) /\ u[i] = s[i]
             \/ i > Len(s) /\ i - Len(s) + m \in m + 1 .. n /\ u[i] = t[i - Len(s) + m]
  <2>1. i \in 1 .. Len(s) + Len(q) /\ Len(q) \in Nat
    BY <1>2, <1>3, LenProperties
  <2>2. CASE i <= Len(s)
    BY <1>1, <1>3, <2>1, <2>2
  <2>3. CASE i > Len(s)
    <3>1. i - Len(s) \in 1 .. Len(q) /\ m + (i - Len(s)) = i - Len(s) + m
      BY <1>1, <2>1, <2>3
    <3>2. Len(q) = n - m
      BY <1>2, <3>1
    <3>3. i - Len(s) + m \in m + 1 .. n
      BY <1>1, <2>1, <3>1, <3>2
    <3>4. u[i] = q[i - Len(s)]
      BY <1>1, <1>3, <2>1, <2>3
    <3>5. q[i - Len(s)] = t[m + (i - Len(s))]
      BY <1>2, <3>1, <3>2
    <3>6. QED
      BY <2>3, <3>1, <3>3, <3>4, <3>5
  <2>4. QED
    BY <1>1, <2>1, <2>2, <2>3
<1>5. QED
  BY <1>3, <1>4 DEF Joined, u, q

\* If the range rises from above the first sequence, they rise together.
LEMMA JoinedRises ==
    ASSUME NEW s \in Seq(Nat), NEW t \in Seq(Nat), NEW m \in Nat, NEW n \in Nat, n <= Len(t),
           Rising(s), Rising(t),
           \A i \in 1 .. Len(s), j \in 1 .. Len(t) : j > m => s[i] < t[j]
    PROVE  Rising(Joined(s, t, m, n))
<1> DEFINE u == Joined(s, t, m, n)
<1>1. Len(s) \in Nat /\ Len(t) \in Nat
  BY LenProperties
<1>2. u \in Seq(Nat)
      /\ \A i \in 1 .. Len(u) :
            \/ i \in 1 .. Len(s) /\ u[i] = s[i]
            \/ i > Len(s) /\ i - Len(s) + m \in m + 1 .. n /\ u[i] = t[i - Len(s) + m]
  BY JoinedIs
<1> HIDE DEF u
<1>5. ASSUME NEW i \in 1 .. Len(u), NEW j \in 1 .. Len(u), i < j
      PROVE  u[i] < u[j]
  <2>1. CASE j \in 1 .. Len(s) /\ u[j] = s[j]
    <3>1. i \in 1 .. Len(s) /\ u[i] = s[i]
      BY <1>1, <1>2, <1>5, <2>1
    <3>2. QED
      BY <1>5, <2>1, <3>1 DEF Rising
  <2>2. CASE j > Len(s) /\ j - Len(s) + m \in m + 1 .. n /\ u[j] = t[j - Len(s) + m]
    <3>1. j - Len(s) + m \in 1 .. Len(t) /\ j - Len(s) + m > m
      BY <1>1, <2>2
    <3>2. CASE i \in 1 .. Len(s) /\ u[i] = s[i]
      BY <2>2, <3>1, <3>2
    <3>3. CASE i > Len(s) /\ i - Len(s) + m \in m + 1 .. n /\ u[i] = t[i - Len(s) + m]
      <4>1. i - Len(s) + m \in 1 .. Len(t) /\ i - Len(s) + m < j - Len(s) + m
        BY <1>1, <1>5, <3>3
      <4>2. QED
        BY <2>2, <3>1, <3>3, <4>1 DEF Rising
    <3>4. QED
      BY <1>2, <3>2, <3>3
  <2>3. QED
    BY <1>2, <2>1, <2>2
<1>6. QED
  BY <1>5 DEF Rising, u

\* A look at a file that was cut starts over, and at one that was not goes on; either
\* way what it is to read comes after what was printed.
LEMMA LookFollows ==
    ASSUME TailTypeOK, NEW position \in Nat, Look(position),
           UNCHANGED <<gen, printed>>, file'.lines = file.lines, fetched' = FALSE,
           Rising(printed), gen = posGen => position <= Size,
           \A i \in 1 .. Len(printed), j \in 1 .. Size :
              (gen = posGen => j > position) => printed[i] < file.lines[j]
    PROVE  TailFollows'
<1> DEFINE from == IF Size < position THEN 0 ELSE position
<1>1. Size \in Nat /\ Size' = Size
  BY LenProperties DEF Size, TailTypeOK
<1>2. /\ pos' = from /\ posGen' = gen
      /\ reading' = IF Size = from THEN None ELSE [from |-> from, size |-> Size]
  BY DEF Look
<1>3. from \in Nat /\ from <= Size /\ (gen = posGen => from = position)
  BY <1>1
<1> HIDE DEF from
<1>4. Reached' = from
  BY <1>2 DEF Reached
<1>5. reading' # None => reading' = [from |-> from, size |-> Size]
  BY <1>2
<1>6. \A i \in 1 .. Len(printed), j \in 1 .. Size : j > from => printed[i] < file.lines[j]
  BY <1>1, <1>3
<1>7. QED
  BY <1>1, <1>2, <1>3, <1>4, <1>5, <1>6 DEF TailFollows

\* What a look sets has its type.
LEMMA LookTypes ==
    ASSUME TailTypeOK, NEW position \in Nat, Look(position)
    PROVE  pos' \in Nat /\ posGen' = gen /\ reading' \in {None} \cup [from : Nat, size : Nat]
<1>1. Size \in Nat
  BY LenProperties DEF Size, TailTypeOK
<1>2. QED
  BY <1>1 DEF Look, TailTypeOK

\* A position behind all that was printed, when nothing is being read.
Behind(position) ==
    /\ Rising(printed) /\ (gen = posGen => position <= Size)
    /\ \A i \in 1 .. Len(printed), j \in 1 .. Size :
          (gen = posGen => j > position) => printed[i] < file.lines[j]

LEMMA ReadFollows ==
    ASSUME TailInv, NEW position \in Nat, ReadNew(position), fetched' = FALSE,
           UNCHANGED <<logger, running, printed>>, running, seen' \in Int,
           ~torn => Behind(position)
    PROVE  TailInv'
<1>1. UNCHANGED <<file, change, gen, logged, torn, running, printed>>
  BY DEF logger
<1>2. pos' \in Nat /\ posGen' \in {posGen, gen} /\ reading' \in {None} \cup [from : Nat, size : Nat]
  <2>1. CASE file.exists
    BY <2>1, LookTypes DEF ReadNew, TailInv
  <2>2. CASE ~file.exists
    BY <2>2 DEF ReadNew
  <2>3. QED
    BY <2>1, <2>2
<1>3. TailTypeOK'
  BY <1>1, <1>2 DEF TailInv, TailTypeOK
<1>7. posGen' <= gen'
  BY <1>1, <1>2 DEF TailInv, TailTypeOK
<1>8. TailRests'
  BY <1>1, <1>2 DEF TailInv, TailRests
<1>4. LogOrdered'
  BY <1>1 DEF TailInv, LogOrdered, Size
<1>5. ASSUME ~torn' PROVE TailFollows'
  <2>1. Behind(position)
    BY <1>1, <1>5
  <2>2. CASE file.exists
    BY <1>1, <2>1, <2>2, LookFollows DEF ReadNew, TailInv, Behind
  <2>3. CASE ~file.exists
    <3>1. pos' = position /\ reading' = None /\ posGen' = posGen
      BY <2>3 DEF ReadNew
    <3>2. Reached' = IF gen # posGen THEN 0 ELSE position
      BY <1>1, <3>1 DEF Reached
    <3>3. Size \in Nat /\ Size' = Size
      BY <1>1, LenProperties DEF Size, TailInv, TailTypeOK
    <3>4. QED
      BY <1>1, <2>1, <3>1, <3>2, <3>3 DEF TailFollows, Behind
  <2>4. QED
    BY <2>2, <2>3
<1>6. QED
  BY <1>3, <1>4, <1>5, <1>7, <1>8 DEF TailInv

LEMMA LogKeepsTail ==
    ASSUME TailInv, Log
    PROVE  TailInv'
<1>1. /\ logged' = logged + 1
      /\ UNCHANGED <<gen, running, pos, reading, fetched, seen, printed, posGen, torn>>
  BY DEF Log
<1>2. Size \in Nat /\ logged \in Nat /\ file.lines \in Seq(Nat) /\ logged + 1 \in Nat
  BY LenProperties DEF Size, TailInv, TailTypeOK
<1>3. CASE ~attached
  <2>1. UNCHANGED <<file, change>>
    BY <1>3 DEF Log
  <2>2. LogOrdered'
    <3>1. /\ \A i \in 1 .. Size : file.lines[i] \in Nat /\ file.lines[i] <= logged + 1
          /\ \A i \in 1 .. Len(printed) : printed[i] \in Nat /\ printed[i] <= logged + 1
      BY <1>2, ElementOfSeq DEF TailInv, LogOrdered, Size, TailTypeOK
    <3>2. QED
      BY <1>1, <2>1, <3>1 DEF TailInv, LogOrdered, Size
  <2>3. QED
    BY <1>1, <1>2, <2>1, <2>2 DEF TailInv, TailTypeOK, TailRests, TailFollows, Reached, Size
<1>4. CASE attached
  <2>1. file' = [file EXCEPT !.lines = Append(@, logged')] /\ change' = change + 1
    BY <1>4 DEF Log
  <2>2. file'.lines = Append(file.lines, logged + 1)
        /\ file' = [lines |-> Append(file.lines, logged + 1), exists |-> file.exists]
        /\ file.exists \in BOOLEAN
    BY <1>1, <2>1 DEF TailInv, TailTypeOK
  <2>3. \A i \in 1 .. Size : file.lines[i] \in Nat /\ file.lines[i] < logged + 1
    BY <1>2, ElementOfSeq DEF TailInv, LogOrdered, Size
  <2>4. /\ file'.lines \in Seq(Nat) /\ Size' = Size + 1 /\ Rising(file'.lines)
        /\ \A i \in 1 .. Size : file'.lines[i] = file.lines[i]
        /\ file'.lines[Size + 1] = logged + 1
    <3>1. \A s \in Seq(Nat), x \in Nat : Rising(s) /\ (\A i \in 1 .. Len(s) : s[i] < x) =>
             /\ Append(s, x) \in Seq(Nat) /\ Len(Append(s, x)) = Len(s) + 1 /\ Rising(Append(s, x))
             /\ \A i \in 1 .. Len(s) : Append(s, x)[i] = s[i]
             /\ Append(s, x)[Len(s) + 1] = x
      BY RisingAppended
    <3>2. Rising(file.lines) /\ \A i \in 1 .. Len(file.lines) : file.lines[i] < logged + 1
      BY <2>3 DEF TailInv, LogOrdered, Size
    <3> DEFINE more == Append(file.lines, logged + 1)
    <3>3. /\ more \in Seq(Nat) /\ Len(more) = Len(file.lines) + 1 /\ Rising(more)
          /\ \A i \in 1 .. Len(file.lines) : more[i] = file.lines[i]
          /\ more[Len(file.lines) + 1] = logged + 1
      BY <1>2, <3>1, <3>2, Zenon
    <3>4. file'.lines = more
      BY <2>2
    <3> HIDE DEF more
    <3>5. QED
      BY <3>3, <3>4 DEF Size
  <2>5. \A i \in 1 .. Len(printed) : printed[i] \in Nat /\ printed[i] < logged + 1
    BY <1>2, ElementOfSeq DEF TailInv, TailTypeOK, LogOrdered
  <2>6. \A j \in 1 .. Size + 1 : j \in 1 .. Size \/ j = Size + 1
    BY <1>2
  <2>7. TailTypeOK' /\ TailRests' /\ posGen' <= gen'
    <3>1. file' \in [lines : Seq(Nat), exists : BOOLEAN]
      BY <2>2, <2>4
    <3>2. change' \in Nat
      BY <2>1 DEF TailInv, TailTypeOK
    <3>3. QED
      BY <1>1, <1>2, <3>1, <3>2 DEF TailInv, TailTypeOK, TailRests
  <2>8. LogOrdered'
    <3>1. ASSUME NEW i \in 1 .. Size + 1
          PROVE  file'.lines[i] <= logged + 1
      <4>1. CASE i \in 1 .. Size
        <5>1. file'.lines[i] = file.lines[i]
          BY <2>4, <4>1
        <5>2. file.lines[i] \in Nat /\ file.lines[i] < logged + 1
          BY <2>3, <4>1
        <5>3. QED
          BY <1>2, <5>1, <5>2
      <4>2. CASE i = Size + 1
        BY <1>2, <2>4, <4>2
      <4>3. QED
        BY <2>6, <4>1, <4>2
    <3>2. \A i \in 1 .. Len(printed) : printed[i] <= logged + 1
      BY <1>2, <2>5
    <3>3. QED
      BY <1>1, <2>4, <3>1, <3>2 DEF LogOrdered
  <2>9. ASSUME ~torn' PROVE TailFollows'
    <3>1. TailFollows /\ Reached' = Reached
      BY <1>1, <2>9 DEF TailInv, Reached
    <3>2. \A i \in 1 .. Len(printed), j \in 1 .. Size + 1 :
             j > Reached => printed[i] < file'.lines[j]
      BY <2>4, <2>5, <2>6, <3>1 DEF TailFollows
    <3>3. Reached \in Nat /\ (reading # None => reading.size \in Nat)
      BY <3>1 DEF Reached, TailInv, TailTypeOK, TailRests
    <3>4. Reached <= Size + 1 /\ (reading # None => reading.size <= Size + 1)
      BY <1>2, <3>1, <3>3 DEF TailFollows
    <3>5. QED
      BY <1>1, <2>4, <3>1, <3>2, <3>4 DEF TailFollows
  <2>10. QED
    BY <2>7, <2>8, <2>9 DEF TailInv
<1>5. QED
  BY <1>3, <1>4

LEMMA CutKeepsTail ==
    ASSUME TailInv, NEW exists \in BOOLEAN, Cut(exists)
    PROVE  TailInv'
<1>1. /\ file' = [lines |-> <<>>, exists |-> exists] /\ change' = change + 1 /\ gen' = gen + 1
      /\ torn' = (torn \/ reading # None)
      /\ UNCHANGED <<logged, running, pos, reading, fetched, seen, printed, posGen>>
  BY DEF Cut
<1>2. file'.lines \in Seq(Nat) /\ Size' = 0 /\ file' \in [lines : Seq(Nat), exists : BOOLEAN]
  BY <1>1, EmptySeq DEF Size
<1>3. gen' # posGen' /\ posGen' <= gen'
  BY <1>1 DEF TailInv, TailTypeOK
<1>4. TailTypeOK' /\ TailRests'
  BY <1>1, <1>2 DEF TailInv, TailTypeOK, TailRests
<1>5. LogOrdered'
  BY <1>1, <1>2 DEF TailInv, LogOrdered, Rising, Size
<1>6. ASSUME ~torn' PROVE TailFollows'
  <2>1. ~torn /\ reading = None
    BY <1>1, <1>6 DEF TailInv, TailTypeOK
  <2>2. Reached' = 0
    BY <1>3 DEF Reached
  <2>3. QED
    BY <1>1, <1>2, <2>1, <2>2 DEF TailInv, TailFollows
<1>7. QED
  BY <1>3, <1>4, <1>5, <1>6 DEF TailInv

LEMMA StartKeepsTail ==
    ASSUME TailInv, Start
    PROVE  TailInv'
<1>1. /\ ~running /\ running' = TRUE /\ file' = [file EXCEPT !.exists = TRUE]
      /\ change' \in {change, change + 1} /\ Look(0)
      /\ UNCHANGED <<gen, logged, fetched, seen, printed, torn>>
  BY DEF Start
<1>2. reading = None /\ printed = <<>> /\ ~fetched
  BY <1>1 DEF TailInv, TailRests
<1>3. file'.lines = file.lines /\ file' \in [lines : Seq(Nat), exists : BOOLEAN]
  BY <1>1 DEF TailInv, TailTypeOK
<1>4. pos' \in Nat /\ posGen' = gen /\ reading' \in {None} \cup [from : Nat, size : Nat]
  BY <1>1, LookTypes DEF TailInv
<1>5. TailTypeOK' /\ posGen' <= gen' /\ TailRests'
  BY <1>1, <1>2, <1>3, <1>4 DEF TailInv, TailTypeOK, TailRests
<1>6. LogOrdered'
  BY <1>1, <1>3 DEF TailInv, LogOrdered, Size
<1>7. TailFollows'
  <2>1. Len(printed) = 0 /\ Rising(printed) /\ Size \in Nat
    BY <1>2, LenProperties DEF Rising, TailInv, TailTypeOK, Size
  <2>2. 0 <= Size /\ 1 .. Len(printed) = {}
    BY <2>1
  <2>3. \A i \in 1 .. Len(printed), j \in 1 .. Size :
           (gen = posGen => j > 0) => printed[i] < file.lines[j]
    BY <2>2, Zenon
  <2>4. fetched' = FALSE /\ UNCHANGED <<gen, printed>> /\ 0 \in Nat
    BY <1>1, <1>2 DEF TailInv, TailTypeOK
  <2>5. QED
    BY <1>1, <1>3, <2>1, <2>2, <2>3, <2>4, LookFollows DEF TailInv
<1>8. QED
  BY <1>5, <1>6, <1>7 DEF TailInv

LEMMA FetchKeepsTail ==
    ASSUME TailInv, Fetch
    PROVE  TailInv'
<1> DEFINE n == IF reading.size < Size THEN reading.size ELSE Size
<1>1. /\ reading # None /\ ~fetched /\ fetched' = TRUE
      /\ printed' = printed \o SubSeq(file.lines, reading.from + 1, n)
      /\ UNCHANGED <<file, change, gen, logged, torn, running, pos, reading, seen, posGen>>
  BY DEF Fetch, logger
<1>2. /\ reading.from \in Nat /\ reading.size \in Nat /\ file.lines \in Seq(Nat)
      /\ printed \in Seq(Nat) /\ Size = Len(file.lines) /\ Size \in Nat
  BY <1>1, LenProperties DEF TailInv, TailTypeOK, Size
<1>3. n \in Nat /\ n <= Size /\ running
  BY <1>1, <1>2 DEF TailInv, TailRests
<1> HIDE DEF n
<1>4. \A s \in Seq(Nat), lines \in Seq(Nat), m \in Nat : n <= Len(lines) =>
         /\ Joined(s, lines, m, n) \in Seq(Nat)
         /\ \A i \in 1 .. Len(Joined(s, lines, m, n)) :
               \/ i \in 1 .. Len(s) /\ Joined(s, lines, m, n)[i] = s[i]
               \/ /\ i > Len(s) /\ i - Len(s) + m \in m + 1 .. n
                  /\ Joined(s, lines, m, n)[i] = lines[i - Len(s) + m]
  BY <1>3, JoinedIs
<1>5. /\ printed' \in Seq(Nat)
      /\ \A i \in 1 .. Len(printed') :
            \/ i \in 1 .. Len(printed) /\ printed'[i] = printed[i]
            \/ /\ i - Len(printed) + reading.from \in reading.from + 1 .. n
               /\ printed'[i] = file.lines[i - Len(printed) + reading.from]
  <2>1. printed' = Joined(printed, file.lines, reading.from, n)
    BY <1>1 DEF Joined
  <2>2. n <= Len(file.lines)
    BY <1>2, <1>3
  <2> DEFINE from == reading.from
             lines == file.lines
  <2>3. from \in Nat /\ lines \in Seq(Nat) /\ n <= Len(lines) /\ printed' = Joined(printed, lines, from, n)
    BY <1>2, <2>1, <2>2
  <2> HIDE DEF from, lines
  <2>4. /\ Joined(printed, lines, from, n) \in Seq(Nat)
        /\ \A i \in 1 .. Len(Joined(printed, lines, from, n)) :
              \/ i \in 1 .. Len(printed) /\ Joined(printed, lines, from, n)[i] = printed[i]
              \/ /\ i > Len(printed) /\ i - Len(printed) + from \in from + 1 .. n
                 /\ Joined(printed, lines, from, n)[i] = lines[i - Len(printed) + from]
    BY <1>2, <1>4, <2>3, Zenon
  <2>5. /\ printed' \in Seq(Nat)
        /\ \A i \in 1 .. Len(printed') :
              \/ i \in 1 .. Len(printed) /\ printed'[i] = printed[i]
              \/ /\ i - Len(printed) + from \in from + 1 .. n
                 /\ printed'[i] = lines[i - Len(printed) + from]
    BY <2>3, <2>4
  <2>6. QED
    BY <2>5 DEF from, lines
<1>6. \A k \in reading.from + 1 .. n : k \in 1 .. Size
  BY <1>2, <1>3
<1>7. TailTypeOK' /\ posGen' <= gen' /\ TailRests'
  BY <1>1, <1>3, <1>5 DEF TailInv, TailTypeOK, TailRests
<1>8. LogOrdered'
  BY <1>1, <1>5, <1>6 DEF TailInv, LogOrdered, Size
<1>9. ASSUME ~torn' PROVE TailFollows'
  <2>1. /\ TailFollows /\ gen = posGen /\ reading.from <= reading.size /\ reading.size <= Size
        /\ Reached = reading.from /\ Reached' = reading.size
    BY <1>1, <1>9 DEF TailInv, TailFollows, Reached
  <2>2. n = reading.size
    BY <1>2, <2>1 DEF n
  <2>3. Rising(printed')
    <3>1. \A i \in 1 .. Len(printed), j \in 1 .. Len(file.lines) :
             j > reading.from => printed[i] < file.lines[j]
      BY <1>2, <2>1 DEF TailFollows
    <3>2. n <= Len(file.lines) /\ Rising(printed) /\ Rising(file.lines)
      BY <1>2, <1>3, <2>1 DEF TailFollows, TailInv, LogOrdered
    <3>3. \A s \in Seq(Nat), lines \in Seq(Nat), m \in Nat :
             /\ n <= Len(lines) /\ Rising(s) /\ Rising(lines)
             /\ \A i \in 1 .. Len(s), j \in 1 .. Len(lines) : j > m => s[i] < lines[j]
             => Rising(Joined(s, lines, m, n))
      BY <1>3, JoinedRises
    <3>4. Rising(Joined(printed, file.lines, reading.from, n))
      BY <1>2, <3>1, <3>2, <3>3, Zenon
    <3>5. QED
      BY <1>1, <3>4 DEF Joined
  <2>4. ASSUME NEW i \in 1 .. Len(printed'), NEW j \in 1 .. Size, j > reading.size
        PROVE  printed'[i] < file.lines[j]
    <3>1. CASE i \in 1 .. Len(printed) /\ printed'[i] = printed[i]
      <4>1. j > reading.from
        BY <1>2, <2>1, <2>4
      <4>2. QED
        BY <2>1, <2>4, <3>1, <4>1 DEF TailFollows
    <3>2. ASSUME NEW k \in reading.from + 1 .. n, printed'[i] = file.lines[k]
          PROVE  printed'[i] < file.lines[j]
      <4>1. k \in 1 .. Size /\ k < j
        <5>1. k <= n /\ k \in Int
          BY <1>2, <1>3, <3>2
        <5>2. k \in 1 .. Size
          BY <1>6, <3>2
        <5>3. QED
          BY <1>2, <2>2, <2>4, <5>1, <5>2
      <4>2. Rising(file.lines)
        BY DEF TailInv, LogOrdered
      <4>3. QED
        BY <1>2, <2>4, <3>2, <4>1, <4>2 DEF Rising
    <3>3. QED
      BY <1>5, <3>1, <3>2
  <2>5. QED
    BY <1>1, <2>1, <2>3, <2>4 DEF TailFollows, Size
<1>10. QED
  BY <1>7, <1>8, <1>9 DEF TailInv

\* For a log and rotations of any number: the next read begins behind all the lines that
\* were printed, or with a file that was cut since, unless a file was cut under a read.
THEOREM TailInvariant == TailSpec => []TailInv
<1>1. TailInit => TailInv
  <2>1. SUFFICES ASSUME TailInit PROVE TailInv
    OBVIOUS
  <2>2. /\ file \in [lines : Seq(Nat), exists : BOOLEAN] /\ Size = 0
        /\ printed = <<>> /\ printed \in Seq(Nat) /\ Len(printed) = 0
    BY <2>1, EmptySeq DEF TailInit, Size
  <2>3. TailTypeOK
    <3>1. /\ change = 0 /\ gen = 0 /\ logged = 0 /\ posGen = 0 /\ seen = -1 /\ pos = 0
          /\ running = FALSE /\ fetched = FALSE /\ torn = FALSE /\ reading = None
      BY <2>1 DEF TailInit
    <3>2. file \in [lines : Seq(Nat), exists : BOOLEAN] /\ printed \in Seq(Nat)
      BY <2>2
    <3>3. -1 \in Int
      OBVIOUS
    <3>4. QED
      BY <3>1, <3>2, <3>3 DEF TailTypeOK
  <2>6. posGen <= gen /\ TailRests
    BY <2>1 DEF TailInit, TailRests
  <2>4. LogOrdered /\ TailFollows
    BY <2>1, <2>2 DEF TailInit, LogOrdered, TailFollows, Rising, Reached
  <2>5. QED
    BY <2>3, <2>4, <2>6 DEF TailInv
<1>2. TailInv /\ [TailNext]_tailVars => TailInv'
  <2>1. SUFFICES ASSUME TailInv, [TailNext]_tailVars PROVE TailInv'
    OBVIOUS
  <2>2. CASE OpenLog
    <3>1. /\ file' = [file EXCEPT !.exists = TRUE] /\ change' \in {change, change + 1}
          /\ UNCHANGED <<gen, logged, running, pos, reading, fetched, seen, printed, posGen, torn>>
      BY <2>2 DEF OpenLog
    <3>2. file'.lines = file.lines /\ file' \in [lines : Seq(Nat), exists : BOOLEAN]
      BY <2>1, <3>1 DEF TailInv, TailTypeOK
    <3>3. QED
      BY <2>1, <3>1, <3>2
      DEF TailInv, TailTypeOK, LogOrdered, TailRests, TailFollows, Reached, Size
  <2>3. CASE Log
    BY <2>1, <2>3, LogKeepsTail
  <2>4. CASE Truncate
    BY <2>1, <2>4, CutKeepsTail DEF Truncate
  <2>5. CASE MoveAway
    BY <2>1, <2>5, CutKeepsTail DEF MoveAway
  <2>6. CASE Start
    BY <2>1, <2>6, StartKeepsTail
  <2>7. CASE Fetch
    BY <2>1, <2>7, FetchKeepsTail
  <2>8. CASE Close
    <3>1. /\ reading # None /\ fetched /\ fetched' = FALSE /\ ReadNew(reading.size)
          /\ UNCHANGED <<logger, running, seen, printed>>
      BY <2>8 DEF Close
    <3>2. reading.size \in Nat /\ running /\ seen' \in Int
      BY <2>1, <3>1 DEF TailInv, TailTypeOK, TailRests
    <3>3. ~torn => Behind(reading.size)
      BY <2>1, <3>1 DEF TailInv, TailFollows, Reached, Behind
    <3>4. QED
      BY <2>1, <3>1, <3>2, <3>3, ReadFollows
  <2>9. CASE FirstLook
    <3>1. UNCHANGED <<logger, running, pos, reading, fetched, printed, posGen>> /\ running
          /\ seen' = change
      BY <2>9 DEF FirstLook
    <3>2. QED
      BY <2>1, <3>1
      DEF logger, TailInv, TailTypeOK, LogOrdered, TailRests, TailFollows, Reached, Size
  <2>10. CASE Poll
    <3>1. /\ seen # -1 /\ seen' = change /\ UNCHANGED <<logger, running, fetched, printed>>
          /\ IF Idle THEN ReadNew(pos) ELSE UNCHANGED <<pos, reading, posGen, fooled>>
      BY <2>10 DEF Poll
    <3>2. running /\ pos \in Nat /\ change \in Nat /\ seen' \in Int
      BY <2>1, <3>1 DEF TailInv, TailTypeOK, TailRests
    <3>3. CASE Idle
      <4>1. reading = None /\ fetched' = FALSE /\ ReadNew(pos) /\ ~fetched
        BY <2>1, <3>1, <3>3 DEF Idle, TailInv, TailRests, TailTypeOK
      <4>2. ~torn => Behind(pos)
        BY <2>1, <4>1 DEF TailInv, TailFollows, Reached, Behind
      <4>3. QED
        BY <2>1, <3>1, <3>2, <4>1, <4>2, ReadFollows
    <3>4. CASE ~Idle
      BY <2>1, <3>1, <3>2, <3>4
      DEF logger, TailInv, TailTypeOK, LogOrdered, TailRests, TailFollows, Reached, Size
    <3>5. QED
      BY <3>3, <3>4
  <2>11. CASE UNCHANGED tailVars
    BY <2>1, <2>11
    DEF tailVars, TailInv, TailTypeOK, LogOrdered, TailRests, TailFollows, Reached, Size
  <2>12. QED
    BY <2>1, <2>2, <2>3, <2>4, <2>5, <2>6, <2>7, <2>8, <2>9, <2>10, <2>11 DEF TailNext
<1>3. QED
  BY <1>1, <1>2, PTL DEF TailSpec

\* For a log and rotations of any number: a line is printed once and in its order, as
\* long as the file was not cut under a read.
THEOREM TailFaithfulHolds == TailSpec => []TailFaithful
<1>1. TailInv => TailFaithful
  BY DEF TailInv, TailFollows, TailFaithful, Rising
<1>2. QED
  BY <1>1, TailInvariant, PTL
=============================================================================
