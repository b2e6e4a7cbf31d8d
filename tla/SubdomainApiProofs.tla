------------------------- MODULE SubdomainApiProofs -------------------------
(***************************************************************************)
(* Proofs about the ownership of subdomains, for any requests, tokens,     *)
(* subdomains and hashes.                                                  *)
(*                                                                         *)
(* With the in-memory storage a request is alone from its first step to    *)
(* its last.  What it finds when it decides has changed until it writes    *)
(* only by expiring, and a link is written at most MaxRun after the        *)
(* registration it leads to, so that it outlives it by no more.  With      *)
(* Redis neither holds; what is left is that a registration in force is    *)
(* never deleted.                                                          *)
(***************************************************************************)
EXTENDS RedisStorage, TLAPS

Kind == {"target", "profile"}

Registration(s) == store[DomainKey(s)]
Link(a, k, h) == store[LinkKey(a, k, h)]

InForce(e) == e # Undefined /\ clock <= e.expiresAt

\* An entry written now.
New(v) == [value |-> v, expiresAt |-> clock + Ttl]

StoreOK ==
    /\ store \in [Key -> Entry \cup {Undefined}]
    /\ \A s \in Subdomain : Registration(s) # Undefined => Registration(s).value \in Owners
    /\ \A a \in Owners, k \in Kind, h \in Hash :
          Link(a, k, h) # Undefined => Link(a, k, h).value \in Subdomain

ApiTypeOK ==
    /\ StoreOK
    /\ clock \in Nat
    /\ began \in 0..clock
    /\ pc \in [Req -> Awaiting \cup {"new", "ok", "refused", "failed", "past"}]
    /\ job \in [Req -> Job \cup {Undefined}]
    /\ sub \in [Req -> Subdomain \cup {Undefined}]

\* A request has what the call it awaits needs.
Prepared ==
    \A r \in Req :
        /\ pc[r] \notin {"new", "past"} => job[r] \in Job
        /\ pc[r] \in {"getOwner", "register", "linkTarget", "linkProfile"} => sub[r] \in Subdomain
        /\ pc[r] \in {"lookupProfile", "linkProfile"} => job[r].profile \in Hash
        /\ pc[r] \in {"lookupTarget", "linkTarget"} => job[r].target \in Hash
        /\ pc[r] \in {"lookupProfile", "lookupTarget"} => job[r].kind = "create"
        /\ pc[r] = "getOwner" => job[r].kind = "renew"
        /\ pc[r] \in {"new", "lookupProfile", "lookupTarget"} => sub[r] = Undefined

ApiInv == ApiTypeOK /\ Prepared

-----------------------------------------------------------------------------
(* The in-memory storage *)

Alone == \A q, r \in Req : InFlight(q) /\ InFlight(r) => q = r

\* Every registered subdomain was settled on by a request: a fresh one is free.
SettledFirst ==
    \A s \in Subdomain : Registration(s) # Undefined => \E r \in Req : sub[r] = s

\* Nothing expires later than what is written now.
NotAhead == \A k \in Key : store[k] # Undefined => store[k].expiresAt <= clock + Ttl

\* A request has no more than MaxRun.
OnTime == \A r \in Req : InFlight(r) => clock <= began + MaxRun

\* What is left of the registration under a link of a client: it is gone, and the
\* link nearly; or it is the client's and expires less than MaxRun earlier; or the
\* link had nearly expired when somebody else registered the subdomain.
Backs(g, a, e) ==
    \/ g = Undefined /\ e.expiresAt < clock + MaxRun
    \/ g # Undefined /\ g.value = a /\ e.expiresAt <= g.expiresAt + MaxRun
    \/ g # Undefined /\ e.expiresAt + Ttl < g.expiresAt + MaxRun

LinksBacked ==
    \A a \in AuthToken, k \in Kind, h \in Hash :
        LET e == Link(a, k, h)
        IN  e # Undefined => e.value \in taken \/ Backs(Registration(e.value), a, e)

\* An entry the request under way may have written.
Recent(e, v) == e \in Entry /\ e.value = v /\ began + Ttl <= e.expiresAt

\* A request that is going to register displaces nobody, or it is a create whose
\* link has outlived its registration.
Yields(j, s) ==
    \/ Owner(s) \in {Undefined, Anonymous, j.token}
    \/ /\ j.kind = "create"
       /\ s \in taken \/ began + Ttl < Registration(s).expiresAt + MaxRun

\* What a request has decided and written is still so at its next step.
StillSo ==
    \A r \in Req :
        /\ pc[r] = "register" => Yields(job[r], sub[r])
        /\ pc[r] \in {"linkTarget", "linkProfile"} => Recent(Registration(sub[r]), job[r].token)
        /\ pc[r] = "linkProfile" /\ job[r].target # Undefined =>
              Recent(Link(job[r].token, "target", job[r].target), sub[r])

MemoryInv ==
    /\ ApiInv
    /\ Alone
    /\ SettledFirst
    /\ NotAhead
    /\ OnTime
    /\ LinksBacked
    /\ StillSo

\* The client has renewed nothing.
OnlyCreates(a) ==
    \A p \in Req : pc[p] \notin {"new", "past"} /\ job[p].token = a => job[p].kind = "create"

\* While nothing has expired, the link of a profile leads to what a client that
\* only creates was given for it; a create under way will hand out the same.
ProfilesFollowed ==
    \A r \in Req :
        clock <= Ttl /\ pc[r] \notin {"new", "past"} /\ job[r].kind = "create" /\ job[r].profile # Undefined
            /\ OnlyCreates(job[r].token)
        => LET e == Link(job[r].token, "profile", job[r].profile)
           IN  /\ pc[r] = "ok" => e # Undefined /\ e.value = sub[r]
               /\ pc[r] \in {"register", "linkTarget", "linkProfile"} =>
                     e = Undefined \/ e.value = sub[r]
               /\ pc[r] = "lookupTarget" => e = Undefined

\* Nothing expires in the first Ttl seconds.
LongLived == \A k \in Key : store[k] # Undefined => store[k].expiresAt >= Ttl

-----------------------------------------------------------------------------
(* Any storage *)

\* While nothing has expired, a link leads to a registration, and so will the one
\* that is about to be written.
LinksLead ==
    /\ LongLived
    /\ clock <= Ttl =>
          /\ \A a \in Owners, k \in Kind, h \in Hash :
                Link(a, k, h) # Undefined => Registration(Link(a, k, h).value) # Undefined
          /\ \A r \in Req :
                pc[r] \in {"linkTarget", "linkProfile"} => Registration(sub[r]) # Undefined

-----------------------------------------------------------------------------
(* Lemmas on the storage *)

\* Keys are told apart by what they are made of.
LEMMA KeysApart ==
    /\ \A s \in Subdomain : DomainKey(s) \in Key
    /\ \A a \in Owners, k \in Kind, h \in Hash : LinkKey(a, k, h) \in Key
    /\ \A s, t : DomainKey(s) = DomainKey(t) => s = t
    /\ \A a, k, h, b, l, g :
          LinkKey(a, k, h) = LinkKey(b, l, g) => a = b /\ k = l /\ h = g
    /\ \A s, a, k, h : DomainKey(s) # LinkKey(a, k, h)
BY DEF DomainKey, LinkKey, Key, Kind

\* A lookup forgets nothing but what has expired.
Forgets ==
    /\ StoreOK'
    /\ \A x \in Key : \/ store'[x] = store[x]
                      \/ ~InForce(store[x]) /\ store'[x] = Undefined

LEMMA GetForgets ==
    ASSUME ApiTypeOK, NEW k \in Key, Get(k) PROVE Forgets
<1>1. store \in [Key -> Entry \cup {Undefined}]
  BY DEF ApiTypeOK, StoreOK
<1>2. InForce(store[k]) => Value(k) # Undefined
  <2>1. InForce(store[k]) => store[k] \in Entry /\ Value(k) = store[k].value
    BY <1>1 DEF InForce, Value
  <2> QED  BY <2>1, ApiAssumption DEF Entry
<1>3. /\ store' \in [Key -> Entry \cup {Undefined}]
      /\ \A x \in Key : \/ store'[x] = store[x]
                        \/ ~InForce(store[x]) /\ store'[x] = Undefined
  BY <1>1, <1>2 DEF Get
<1>4. /\ \A s \in Subdomain : store'[DomainKey(s)] \in {store[DomainKey(s)], Undefined}
      /\ \A a \in Owners, l \in Kind, h \in Hash :
            store'[LinkKey(a, l, h)] \in {store[LinkKey(a, l, h)], Undefined}
  BY <1>3, KeysApart
<1>5. StoreOK'
  BY <1>3, <1>4 DEF ApiTypeOK, StoreOK, Registration, Link
<1> QED  BY <1>3, <1>5 DEF Forgets

\* A registration is written under one key, and so is a link.
Registers(s, a) ==
    /\ StoreOK' /\ New(a) \in Entry
    /\ store'[DomainKey(s)] = New(a)
    /\ \A x \in Key : x # DomainKey(s) => store'[x] = store[x]

LEMMA SetRegisters ==
    ASSUME ApiTypeOK, NEW s \in Subdomain, NEW a \in Owners, Set(DomainKey(s), a)
    PROVE  Registers(s, a)
<1>1. New(a) \in Entry /\ New(a).value = a
  BY ApiAssumption DEF New, Entry, ApiTypeOK
<1>2. /\ store' \in [Key -> Entry \cup {Undefined}] /\ store'[DomainKey(s)] = New(a)
      /\ \A x \in Key : x # DomainKey(s) => store'[x] = store[x]
  BY <1>1, KeysApart DEF Set, New, ApiTypeOK, StoreOK
<1>3. StoreOK'
  BY <1>1, <1>2, KeysApart DEF ApiTypeOK, StoreOK, Registration, Link
<1> QED  BY <1>1, <1>2, <1>3 DEF Registers

Links(a, k, h, s) ==
    /\ StoreOK' /\ New(s) \in Entry
    /\ store'[LinkKey(a, k, h)] = New(s)
    /\ \A x \in Key : x # LinkKey(a, k, h) => store'[x] = store[x]

LEMMA SetLinks ==
    ASSUME ApiTypeOK, NEW a \in Owners, NEW k \in Kind, NEW h \in Hash, NEW s \in Subdomain,
           Set(LinkKey(a, k, h), s)
    PROVE  Links(a, k, h, s)
<1>1. New(s) \in Entry /\ New(s).value = s
  BY ApiAssumption DEF New, Entry, ApiTypeOK
<1>2. /\ store' \in [Key -> Entry \cup {Undefined}] /\ store'[LinkKey(a, k, h)] = New(s)
      /\ \A x \in Key : x # LinkKey(a, k, h) => store'[x] = store[x]
  BY <1>1, KeysApart DEF Set, New, ApiTypeOK, StoreOK
<1>3. StoreOK'
  BY <1>1, <1>2, KeysApart DEF ApiTypeOK, StoreOK, Registration, Link
<1> QED  BY <1>1, <1>2, <1>3 DEF Links

\* The value under a key, said with the entry.
LEMMA ValueInForce ==
    ASSUME ApiTypeOK, NEW k \in Key
    PROVE  /\ Value(k) # Undefined <=> InForce(store[k])
           /\ InForce(store[k]) => Value(k) = store[k].value
<1>1. store[k] \in Entry \cup {Undefined}
  BY DEF ApiTypeOK, StoreOK
<1>2. InForce(store[k]) => store[k].value # Undefined
  BY <1>1, ApiAssumption DEF InForce, Entry
<1> QED  BY <1>2 DEF Value, InForce

-----------------------------------------------------------------------------
(* Types *)

\* What a job holds.
LEMMA JobParts ==
    ASSUME NEW j \in Job
    PROVE  /\ j.kind \in {"renew", "create"} /\ j.token \in Owners
           /\ j.target \in Hash \cup {Undefined} /\ j.profile \in Hash \cup {Undefined}
           /\ j.subdomain \in Subdomain \cup {Undefined}
           /\ j.kind = "create" => j.token \in AuthToken
BY DEF Job, Renew, Create, NoTunnelId, Owners

\* Each step of a request that has started, by its effect on the storage.
Effect(r) ==
    \/ pc[r] \in {"getOwner", "lookupProfile", "lookupTarget"} /\ Forgets
    \/ pc[r] = "register" /\ Registers(sub[r], job[r].token)
    \/ pc[r] = "linkTarget" /\ Links(job[r].token, "target", job[r].target, sub[r])
    \/ pc[r] = "linkProfile" /\ Links(job[r].token, "profile", job[r].profile, sub[r])

LEMMA StepEffect ==
    ASSUME ApiInv, NEW r \in Req, Step(r) \/ Unheard(r) PROVE Effect(r)
<1>1. ApiTypeOK
  BY DEF ApiInv
<1>2. CASE GetOwner(r)
  <2>1. sub[r] \in Subdomain
    BY <1>2 DEF ApiInv, Prepared, GetOwner
  <2> QED  BY <1>1, <1>2, <2>1, KeysApart, GetForgets DEF Effect, GetOwner
<1>3. CASE LookupProfile(r)
  <2>1. job[r].token \in Owners /\ job[r].profile \in Hash
    BY <1>3, JobParts DEF ApiInv, Prepared, LookupProfile
  <2>2. LinkKey(job[r].token, "profile", job[r].profile) \in Key
    BY <2>1, KeysApart DEF Kind
  <2> QED  BY <1>1, <1>3, <2>2, GetForgets DEF Effect, LookupProfile
<1>4. CASE LookupTarget(r)
  <2>1. job[r].token \in Owners /\ job[r].target \in Hash
    BY <1>4, JobParts DEF ApiInv, Prepared, LookupTarget
  <2>2. LinkKey(job[r].token, "target", job[r].target) \in Key
    BY <2>1, KeysApart DEF Kind
  <2> QED  BY <1>1, <1>4, <2>2, GetForgets DEF Effect, LookupTarget
<1>5. CASE pc[r] = "register" /\ Set(DomainKey(sub[r]), job[r].token)
  <2>1. sub[r] \in Subdomain /\ job[r].token \in Owners
    BY <1>5, JobParts DEF ApiInv, Prepared
  <2> QED  BY <1>1, <1>5, <2>1, SetRegisters DEF Effect
<1>6. CASE pc[r] = "linkTarget" /\ Set(LinkKey(job[r].token, "target", job[r].target), sub[r])
  <2>1. sub[r] \in Subdomain /\ job[r].token \in Owners /\ job[r].target \in Hash
    BY <1>6, JobParts DEF ApiInv, Prepared
  <2> QED  BY <1>1, <1>6, <2>1, SetLinks DEF Effect, Kind
<1>7. CASE pc[r] = "linkProfile" /\ Set(LinkKey(job[r].token, "profile", job[r].profile), sub[r])
  <2>1. sub[r] \in Subdomain /\ job[r].token \in Owners /\ job[r].profile \in Hash
    BY <1>7, JobParts DEF ApiInv, Prepared
  <2> QED  BY <1>1, <1>7, <2>1, SetLinks DEF Effect, Kind
<1> QED  BY <1>2, <1>3, <1>4, <1>5, <1>6, <1>7
         DEF Step, Register, LinkTarget, LinkProfile, Unheard, PutRegistration

\* A step of the code moves one request and keeps the jobs and the clock.
Moves(r) ==
    /\ UNCHANGED <<clock, began, job>>
    /\ taken \subseteq taken'
    /\ pc[r] = "register" /\ Owner(sub[r]) \in AuthToken \ {job[r].token} => sub[r] \in taken'
    /\ pc' = [pc EXCEPT ![r] = pc'[r]]
    /\ sub' = [sub EXCEPT ![r] = sub'[r]]
    /\ \/ pc[r] = "getOwner" /\ sub'[r] = sub[r] /\ pc'[r] \in {"register", "refused"}
       \/ /\ pc[r] = "lookupProfile" /\ job[r].target # Undefined
          /\ pc'[r] = "lookupTarget" /\ sub'[r] = sub[r]
       \/ /\ pc[r] \in {"lookupProfile", "lookupTarget"}
          /\ pc'[r] = "register" /\ sub'[r] \in Subdomain
       \/ /\ pc[r] = "register"
          /\ pc'[r] \in {AfterRegister(job[r]), "unheard"} /\ sub'[r] = sub[r]
       \/ /\ pc[r] = "linkTarget"
          /\ pc'[r] \in {AfterLinkTarget(job[r]), "unheard"} /\ sub'[r] = sub[r]
       \/ pc[r] = "linkProfile" /\ pc'[r] \in {"ok", "unheard"} /\ sub'[r] = sub[r]

LEMMA StepMoves ==
    ASSUME ApiInv, NEW r \in Req, Step(r) \/ Unheard(r) PROVE Moves(r)
<1>1. /\ pc \in [Req -> Awaiting \cup {"new", "ok", "refused", "failed", "past"}]
      /\ sub \in [Req -> Subdomain \cup {Undefined}]
  BY DEF ApiInv, ApiTypeOK
<1>2. CASE GetOwner(r)
  BY <1>1, <1>2 DEF GetOwner, Goto, Moves
<1>3. CASE LookupProfile(r)
  BY <1>1, <1>3 DEF LookupProfile, Settle, Goto, Moves
<1>4. CASE LookupTarget(r)
  BY <1>1, <1>4 DEF LookupTarget, Settle, Goto, Moves
<1>5. CASE Register(r)
  BY <1>1, <1>5 DEF Register, PutRegistration, Goto, Moves
<1>6. CASE LinkTarget(r)
  BY <1>1, <1>6 DEF LinkTarget, Goto, Moves
<1>7. CASE LinkProfile(r)
  BY <1>1, <1>7 DEF LinkProfile, Goto, Moves
<1>8. CASE Unheard(r)
  BY <1>1, <1>8 DEF Unheard, PutRegistration, Goto, Moves
<1> QED  BY <1>2, <1>3, <1>4, <1>5, <1>6, <1>7, <1>8 DEF Step

LEMMA StepKeepsApiInv ==
    ASSUME ApiInv, NEW r \in Req, Step(r) \/ Unheard(r) PROVE ApiInv'
<1>1. Effect(r) /\ Moves(r)
  BY StepEffect, StepMoves
<1>2. StoreOK'
  BY <1>1 DEF Effect, Forgets, Registers, Links
<1>3. job[r] \in Job /\ sub'[r] \in Subdomain \cup {Undefined}
  BY <1>1 DEF Moves, ApiInv, ApiTypeOK, Prepared
<1>4. job[r].target \in Hash \cup {Undefined} /\ job[r].profile \in Hash \cup {Undefined}
  BY <1>3, JobParts
<1>5. ApiTypeOK'
  <2>1. pc'[r] \in Awaiting \cup {"ok", "refused"}
    BY <1>1 DEF Moves, AfterRegister, AfterLinkTarget, Awaiting
  <2> QED  BY <1>1, <1>2, <1>3, <2>1 DEF Moves, ApiInv, ApiTypeOK
<1>6. Prepared'
  <2>1. /\ pc'[r] # "new" /\ pc'[r] # "getOwner" /\ pc'[r] # "lookupProfile"
        /\ pc'[r] \in {"register", "linkTarget", "linkProfile"} => sub'[r] \in Subdomain
        /\ pc'[r] = "linkProfile" => job[r].profile \in Hash
        /\ pc'[r] \in {"lookupTarget", "linkTarget"} => job[r].target \in Hash
        /\ pc'[r] = "lookupTarget" => job[r].kind = "create" /\ sub'[r] = Undefined
    BY <1>1, <1>3, <1>4 DEF Moves, ApiInv, Prepared, AfterRegister, AfterLinkTarget
  <2>2. \A q \in Req \ {r} : pc'[q] = pc[q] /\ sub'[q] = sub[q]
    BY <1>1 DEF Moves, ApiInv, ApiTypeOK
  <2> QED  BY <1>1, <1>3, <2>1, <2>2 DEF Moves, ApiInv, Prepared
<1> QED  BY <1>5, <1>6 DEF ApiInv

LEMMA OtherKeepsApiInv ==
    ASSUME ApiInv,
           \/ \E r \in Req, j \in Job : Start(r, j)
           \/ \E r \in Req : Fail(r)
           \/ Restart
           \/ Tick
           \/ UNCHANGED vars
    PROVE  ApiInv'
<1>1. ASSUME NEW r \in Req, NEW j \in Job, Start(r, j) PROVE ApiInv'
  <2>1. /\ pc[r] = "new" /\ job' = [job EXCEPT ![r] = j] /\ UNCHANGED <<store, clock>>
        /\ sub[r] = Undefined /\ began' \in 0..clock
    BY <1>1 DEF Start, ApiInv, ApiTypeOK, Prepared
  <2>2. /\ j.target \in Hash \cup {Undefined} /\ j.profile \in Hash \cup {Undefined}
        /\ j.subdomain \in Subdomain \cup {Undefined} /\ j.kind \in {"renew", "create"}
    BY JobParts
  <2>3. \E l \in {"refused", "getOwner", "lookupProfile", "lookupTarget", "register"} :
           \E s \in Subdomain \cup {Undefined} :
              /\ pc' = [pc EXCEPT ![r] = l] /\ sub' = [sub EXCEPT ![r] = s]
              /\ l \in {"getOwner", "register"} => s # Undefined
              /\ l \in {"lookupProfile", "lookupTarget"} => s = Undefined /\ j.kind = "create"
              /\ l = "getOwner" => j.kind = "renew"
              /\ l = "lookupProfile" => j.profile # Undefined
              /\ l = "lookupTarget" => j.target # Undefined
    <3>1. sub = [sub EXCEPT ![r] = Undefined]
      BY <2>1 DEF ApiInv, ApiTypeOK
    <3>2. CASE j.kind = "renew"
      BY <1>1, <2>1, <2>2, <3>2 DEF Start, Goto
    <3>3. CASE j.kind = "create"
      <4>1. CASE j.profile # Undefined /\ Goto(r, "lookupProfile") /\ UNCHANGED sub
        BY <3>1, <3>3, <4>1 DEF Goto
      <4>2. CASE j.target # Undefined /\ Goto(r, "lookupTarget") /\ UNCHANGED sub
        BY <3>1, <3>3, <4>2 DEF Goto
      <4>3. CASE Settle(r, Undefined)
        <5>1. \E s \in Subdomain : sub' = [sub EXCEPT ![r] = s]
          BY <4>3 DEF Settle
        <5> QED  BY <4>3, <5>1, ApiAssumption DEF Settle, Goto
      <4> QED  BY <1>1, <3>3, <4>1, <4>2, <4>3 DEF Start
    <3> QED  BY <2>2, <3>2, <3>3
  <2>4. ApiTypeOK'
    BY <2>1, <2>3 DEF ApiInv, ApiTypeOK, StoreOK, Registration, Link, Awaiting
  <2>5. Prepared'
    BY <2>1, <2>2, <2>3, ApiAssumption DEF ApiInv, ApiTypeOK, Prepared
  <2> QED  BY <2>4, <2>5 DEF ApiInv
<1>2. ASSUME NEW r \in Req, Fail(r) PROVE ApiInv'
  BY <1>2 DEF Fail, Goto, InFlight, Awaiting, ApiInv, ApiTypeOK, Prepared, StoreOK, Registration, Link
<1>3. CASE Restart
  <2>1. StoreOK'
    BY <1>3, KeysApart DEF Restart, ApiInv, ApiTypeOK, StoreOK, Registration, Link
  <2> QED  BY <1>3, <2>1 DEF Restart, ApiInv, ApiTypeOK, Prepared
<1>4. CASE Tick
  BY <1>4 DEF Tick, ApiInv, ApiTypeOK, Prepared, StoreOK, Registration, Link
<1>5. CASE UNCHANGED vars
  BY <1>5 DEF vars, ApiInv, ApiTypeOK, Prepared, StoreOK, Registration, Link
<1> QED  BY <1>1, <1>2, <1>3, <1>4, <1>5

-----------------------------------------------------------------------------
(* The in-memory storage *)

\* A lookup changes no value.
LEMMA ForgetsNoValue ==
    ASSUME ApiTypeOK, Forgets, clock' = clock, NEW k \in Key
    PROVE  Value(k)' = Value(k) /\ (InForce(store[k]) => store'[k] = store[k])
BY DEF Forgets, InForce, Value

\* The numbers of the storage.
LEMMA Numbers ==
    ASSUME ApiTypeOK
    PROVE  /\ clock \in Nat /\ began \in Nat /\ began <= clock
           /\ Ttl \in Nat /\ Ttl > 0 /\ MaxRun \in Nat /\ MaxRun <= Ttl
           /\ \A k \in Key : store[k] # Undefined => store[k] \in Entry /\ store[k].expiresAt \in Nat
           /\ \A s \in Subdomain : Registration(s) # Undefined =>
                 /\ Registration(s) \in Entry /\ Registration(s).expiresAt \in Nat
                 /\ Registration(s).value \in Owners
           /\ \A a \in Owners, k \in Kind, h \in Hash : Link(a, k, h) # Undefined =>
                 /\ Link(a, k, h) \in Entry /\ Link(a, k, h).expiresAt \in Nat
                 /\ Link(a, k, h).value \in Subdomain
<1>1. \A k \in Key : store[k] # Undefined => store[k] \in Entry /\ store[k].expiresAt \in Nat
  BY DEF ApiTypeOK, StoreOK, Entry
<1> QED  BY <1>1, KeysApart, ApiAssumption DEF ApiTypeOK, StoreOK, Registration, Link

\* The owner is read off the registration.
LEMMA OwnerOf ==
    ASSUME ApiTypeOK, NEW s \in Subdomain
    PROVE  /\ Owner(s) # Undefined => /\ Registration(s) # Undefined
                                      /\ Registration(s).value = Owner(s)
                                      /\ clock <= Registration(s).expiresAt
           /\ Registration(s) # Undefined /\ clock <= Registration(s).expiresAt
                 => Owner(s) = Registration(s).value
<1>1. DomainKey(s) \in Key
  BY KeysApart
<1> QED  BY <1>1, ValueInForce DEF Owner, Registration, InForce

\* A request that is going to register displaces nobody, or nearly so.
LEMMA RegistersOwn ==
    ASSUME MemoryInv, NEW r \in Req, Step(r), pc[r] # "register", pc'[r] = "register"
    PROVE  Yields(job[r], sub'[r])
<1>1. Moves(r) /\ ApiTypeOK /\ job[r] \in Job
  BY StepMoves DEF MemoryInv, ApiInv, Prepared, Moves
<1>2. CASE GetOwner(r)
  <2>1. sub'[r] = sub[r] /\ MayRenew(job[r].token, Owner(sub[r]))
    BY <1>1, <1>2 DEF GetOwner, Goto, ApiTypeOK, Moves
  <2> QED  BY <2>1 DEF MayRenew, Yields
<1>3. ASSUME NEW k \in Kind, NEW h \in Hash, job[r].token \in AuthToken, job[r].kind = "create",
             sub'[r] \in Subdomain,
             LET found == Value(LinkKey(job[r].token, k, h))
             IN  IF found # Undefined THEN sub'[r] = found ELSE Fresh(sub'[r])
      PROVE  Yields(job[r], sub'[r])
  <2> DEFINE a == job[r].token
             e == Link(a, k, h)
             s == sub'[r]
  <2>1. LinkKey(a, k, h) \in Key /\ a \in Owners
    BY <1>3, KeysApart DEF Owners
  <2>2. CASE InForce(e)
    <3>1. s = e.value
      BY <1>1, <1>3, <2>1, <2>2, ValueInForce DEF Link
    <3>2. s \in taken \/ Backs(Registration(s), a, e)
      BY <1>3, <2>2, <3>1 DEF MemoryInv, LinksBacked, InForce
    <3>3. e.expiresAt \in Nat /\ clock <= e.expiresAt
      BY <1>1, <2>1, <2>2, Numbers DEF InForce
    <3>4. CASE s \in taken
      BY <1>3, <3>4 DEF Yields
    <3>5. CASE Registration(s) = Undefined
      BY <3>5 DEF Owner, Value, Registration, Yields
    <3>6. CASE Registration(s) # Undefined /\ Registration(s).value = a
      BY <1>1, <1>3, <3>6, OwnerOf DEF Yields
    <3>7. CASE Registration(s) # Undefined /\ e.expiresAt + Ttl < Registration(s).expiresAt + MaxRun
      <4>1. began + Ttl < Registration(s).expiresAt + MaxRun
        BY <1>1, <1>3, <3>3, <3>7, Numbers
      <4> QED  BY <1>3, <4>1 DEF Yields
    <3> QED  BY <3>2, <3>4, <3>5, <3>6, <3>7 DEF Backs
  <2>3. CASE ~InForce(e)
    <3>1. Fresh(s)
      BY <1>1, <1>3, <2>1, <2>3, ValueInForce DEF Link
    <3>2. Registration(s) = Undefined
      BY <1>3, <3>1 DEF Fresh, MemoryInv, SettledFirst
    <3> QED  BY <3>2 DEF Owner, Value, Registration, Yields
  <2> QED  BY <2>2, <2>3
<1>4. CASE LookupProfile(r)
  <2>1. /\ job[r].token \in AuthToken /\ job[r].profile \in Hash /\ sub'[r] \in Subdomain
        /\ job[r].kind = "create"
    BY <1>1, <1>4, JobParts DEF LookupProfile, MemoryInv, ApiInv, Prepared, Moves
  <2>2. Settle(r, Value(LinkKey(job[r].token, "profile", job[r].profile)))
    BY <1>1, <1>4 DEF LookupProfile, Goto, ApiTypeOK
  <2>3. LET found == Value(LinkKey(job[r].token, "profile", job[r].profile))
        IN  IF found # Undefined THEN sub'[r] = found ELSE Fresh(sub'[r])
    BY <1>1, <2>2 DEF Settle, ApiTypeOK
  <2> QED  BY <1>3, <2>1, <2>3 DEF Kind
<1>5. CASE LookupTarget(r)
  <2>1. /\ job[r].token \in AuthToken /\ job[r].target \in Hash /\ sub'[r] \in Subdomain
        /\ job[r].kind = "create"
    BY <1>1, <1>5, JobParts DEF LookupTarget, MemoryInv, ApiInv, Prepared, Moves
  <2>2. LET found == Value(LinkKey(job[r].token, "target", job[r].target))
        IN  IF found # Undefined THEN sub'[r] = found ELSE Fresh(sub'[r])
    BY <1>1, <1>5 DEF LookupTarget, Settle, ApiTypeOK
  <2> QED  BY <1>3, <2>1, <2>2 DEF Kind
<1> QED  BY <1>1, <1>2, <1>4, <1>5
         DEF Step, Register, LinkTarget, LinkProfile, Moves, AfterLinkTarget

\* What a step leaves of the registrations and links.
LEMMA EffectOnEntries ==
    ASSUME ApiInv, NEW r \in Req, Effect(r), clock' = clock
    PROVE  /\ \A s \in Subdomain :
                 \/ Registration(s)' = Registration(s)
                 \/ ~InForce(Registration(s)) /\ Registration(s)' = Undefined
                 \/ pc[r] = "register" /\ s = sub[r] /\ Registration(s)' = New(job[r].token)
           /\ \A a \in Owners, k \in Kind, h \in Hash :
                 \/ Link(a, k, h)' = Link(a, k, h)
                 \/ ~InForce(Link(a, k, h)) /\ Link(a, k, h)' = Undefined
                 \/ /\ Link(a, k, h)' = New(sub[r]) /\ a = job[r].token
                    /\ \/ pc[r] = "linkTarget" /\ k = "target" /\ h = job[r].target
                       \/ pc[r] = "linkProfile" /\ k = "profile" /\ h = job[r].profile
<1>1. CASE Forgets
  BY <1>1, KeysApart DEF Forgets, Registration, Link
<1>2. CASE pc[r] = "register" /\ Registers(sub[r], job[r].token)
  BY <1>2, KeysApart DEF Registers, Registration, Link
<1>3. CASE pc[r] = "linkTarget" /\ Links(job[r].token, "target", job[r].target, sub[r])
  BY <1>3, KeysApart DEF Links, Registration, Link
<1>4. CASE pc[r] = "linkProfile" /\ Links(job[r].token, "profile", job[r].profile, sub[r])
  BY <1>4, KeysApart DEF Links, Registration, Link
<1> QED  BY <1>1, <1>2, <1>3, <1>4 DEF Effect

\* What a step writes is there afterwards.
LEMMA EffectWritten ==
    ASSUME NEW r \in Req, Effect(r)
    PROVE  /\ pc[r] = "register" => store'[DomainKey(sub[r])] = New(job[r].token)
           /\ pc[r] = "linkTarget" =>
                 store'[LinkKey(job[r].token, "target", job[r].target)] = New(sub[r])
           /\ pc[r] = "linkProfile" =>
                 store'[LinkKey(job[r].token, "profile", job[r].profile)] = New(sub[r])
BY DEF Effect, Registers, Links

\* A registration that replaces another backs the links that lead to it, unless it
\* takes the subdomain from the client they belong to.
LEMMA NewBacks ==
    ASSUME ApiTypeOK, NotAhead, NEW s \in Subdomain, NEW a \in AuthToken, NEW b \in Owners,
           NEW e \in Entry, e.expiresAt <= clock + Ttl, Backs(Registration(s), a, e),
           Owner(s) # a \/ b = a
    PROVE  Backs(New(b), a, e)
<1>1. /\ New(b) # Undefined /\ New(b).value = b /\ New(b).expiresAt = clock + Ttl
      /\ e.expiresAt \in Nat
  BY Numbers, ApiAssumption DEF New, Entry
<1>2. Registration(s) # Undefined => Registration(s).expiresAt <= clock + Ttl
  BY KeysApart DEF NotAhead, Registration
<1>3. CASE b = a
  BY <1>1, <1>3, Numbers DEF Backs
<1>4. CASE Registration(s) = Undefined
  BY <1>1, <1>4, Numbers DEF Backs
<1>5. CASE Registration(s) # Undefined /\ Registration(s).value = a /\ Owner(s) # a
  <2>1. Registration(s).expiresAt < clock
    BY <1>5, OwnerOf, Numbers
  <2> QED  BY <1>1, <1>5, <2>1, Numbers DEF Backs
<1>6. CASE Registration(s) # Undefined /\ e.expiresAt + Ttl < Registration(s).expiresAt + MaxRun
  BY <1>1, <1>2, <1>6, Numbers DEF Backs
<1> QED  BY <1>3, <1>4, <1>5, <1>6 DEF Backs

\* A registration that has expired leaves links that nearly have.
LEMMA GoneBacks ==
    ASSUME ApiTypeOK, NEW s \in Subdomain, NEW a \in AuthToken, NEW e \in Entry,
           Backs(Registration(s), a, e), ~InForce(Registration(s))
    PROVE  Backs(Undefined, a, e)
<1>1. e.expiresAt \in Nat
  BY DEF Entry
<1>2. Registration(s) # Undefined => Registration(s).expiresAt < clock
  BY Numbers DEF InForce
<1> QED  BY <1>1, <1>2, Numbers DEF Backs

\* What a request has written is in force.
LEMMA RecentInForce ==
    ASSUME ApiTypeOK, clock <= began + MaxRun, NEW v, NEW e, Recent(e, v)
    PROVE  InForce(e) /\ e # Undefined /\ e.expiresAt \in Nat
BY Numbers, ApiAssumption DEF Recent, InForce, Entry

LEMMA NewIsRecent ==
    ASSUME ApiTypeOK, NEW v \in Subdomain \cup Owners PROVE Recent(New(v), v)
BY Numbers DEF Recent, New, Entry

LEMMA StepKeepsLinksBacked ==
    ASSUME MemoryInv, NEW r \in Req, Step(r) PROVE LinksBacked'
<1>1. /\ ApiInv /\ ApiTypeOK /\ Prepared /\ Effect(r) /\ Moves(r)
      /\ UNCHANGED <<clock, began, job>> /\ taken \subseteq taken'
  BY StepEffect, StepMoves DEF MemoryInv, ApiInv, Moves
<1>2. /\ job[r].token \in Owners
      /\ pc[r] \in {"register", "linkTarget", "linkProfile"} => sub[r] \in Subdomain
  BY <1>1, JobParts DEF Moves, Prepared
<1> SUFFICES ASSUME NEW a \in AuthToken, NEW k \in Kind, NEW h \in Hash, NEW e,
                    e = Link(a, k, h)', e # Undefined, e.value \notin taken'
             PROVE  Backs(Registration(e.value)', a, e)
  BY <1>1 DEF LinksBacked, Backs
<1>3. a \in Owners /\ a \notin {Undefined, Anonymous}
  BY ApiAssumption DEF Owners
<1>4. CASE e = Link(a, k, h)
  <2> DEFINE s == e.value
  <2>1. e \in Entry /\ s \in Subdomain /\ e.expiresAt <= clock + Ttl
    <3>1. LinkKey(a, k, h) \in Key
      BY <1>3, KeysApart
    <3> QED  BY <1>1, <1>3, <1>4, <3>1, Numbers DEF MemoryInv, NotAhead, Link
  <2>2. Backs(Registration(s), a, e)
    BY <1>1, <1>4 DEF MemoryInv, LinksBacked
  <2>3. CASE Registration(s)' = Registration(s)
    BY <2>2, <2>3
  <2>4. CASE ~InForce(Registration(s)) /\ Registration(s)' = Undefined
    BY <1>1, <2>1, <2>2, <2>4, GoneBacks
  <2>5. CASE pc[r] = "register" /\ s = sub[r] /\ Registration(s)' = New(job[r].token)
    <3>1. Owner(s) # a \/ job[r].token = a
      BY <1>1, <2>5 DEF Moves
    <3> QED  BY <1>1, <1>2, <2>1, <2>2, <2>5, <3>1, NewBacks DEF MemoryInv
  <2> QED  BY <1>1, <2>1, <2>3, <2>4, <2>5, EffectOnEntries
<1>5. CASE e = New(sub[r]) /\ a = job[r].token /\ pc[r] \in {"linkTarget", "linkProfile"}
  <2> DEFINE s == e.value
  <2>1. s = sub[r] /\ s \in Subdomain /\ e.expiresAt = clock + Ttl
    BY <1>2, <1>5 DEF New
  <2>2. Recent(Registration(s), a) /\ clock <= began + MaxRun
    BY <1>5, <2>1 DEF MemoryInv, StillSo, OnTime, InFlight, Awaiting
  <2>3. InForce(Registration(s)) /\ Registration(s) # Undefined
        /\ Registration(s).expiresAt \in Nat
    BY <1>1, <2>2, RecentInForce
  <2>4. Registration(s)' = Registration(s)
    BY <1>1, <1>5, <2>1, <2>3, EffectOnEntries
  <2>5. e.expiresAt <= Registration(s).expiresAt + MaxRun
    BY <1>1, <2>1, <2>2, <2>3, Numbers DEF Recent
  <2> QED  BY <2>2, <2>3, <2>4, <2>5 DEF Backs, Recent
<1> QED  BY <1>1, <1>3, <1>4, <1>5, EffectOnEntries

LEMMA StepKeepsStillSo ==
    ASSUME MemoryInv, NEW r \in Req, Step(r) PROVE StillSo'
<1>1. /\ ApiInv /\ ApiTypeOK /\ Prepared /\ Effect(r) /\ Moves(r)
      /\ UNCHANGED <<clock, began, job>> /\ taken \subseteq taken'
      /\ InFlight(r) /\ clock <= began + MaxRun
  BY StepEffect, StepMoves DEF MemoryInv, ApiInv, Moves, OnTime, InFlight, Awaiting
<1>2. \A q \in Req \ {r} : pc'[q] = pc[q] /\ ~InFlight(q)
  BY <1>1 DEF MemoryInv, Alone, Moves, ApiTypeOK
<1>3. \A q \in Req \ {r} : pc'[q] \notin {"register", "linkTarget", "linkProfile"}
  BY <1>2 DEF InFlight, Awaiting
<1> DEFINE a == job[r].token
           t == job[r].target
<1>4. pc'[r] = "register" => Yields(job[r], sub[r])'
  <2> SUFFICES ASSUME pc'[r] = "register" PROVE Yields(job[r], sub[r])'
    OBVIOUS
  <2>1. Forgets /\ sub'[r] \in Subdomain /\ pc[r] # "register"
    BY <1>1 DEF Moves, Effect, AfterRegister, AfterLinkTarget, Prepared
  <2>2. PICK s \in Subdomain : s = sub'[r]
    BY <2>1
  <2>3. DomainKey(s) \in Key /\ Yields(job[r], s)
    BY <2>1, <2>2, RegistersOwn, KeysApart
  <2>4. Value(DomainKey(s))' = Value(DomainKey(s))
    BY <1>1, <2>1, <2>3, ForgetsNoValue
  <2>5. Registration(s)' = Registration(s) \/ Owner(s)' = Undefined
    BY <2>1, <2>3 DEF Forgets, Registration, Owner, Value
  <2>6. /\ Owner(s) \in {Undefined, Anonymous, a} => Owner(s)' \in {Undefined, Anonymous, a}
        /\ s \in taken => s \in taken'
        /\ began' = began /\ job' = job
    BY <1>1, <2>4 DEF Owner
  <2>7. Yields(job[r], s)'
    BY <2>3, <2>5, <2>6 DEF Yields
  <2> QED  BY <2>2, <2>7 DEF Yields, Owner, Value, Registration
<1>5. ASSUME pc'[r] \in {"linkTarget", "linkProfile"}
      PROVE  /\ Recent(store'[DomainKey(sub'[r])], a)
             /\ pc'[r] = "linkProfile" /\ t # Undefined =>
                   Recent(store'[LinkKey(a, "target", t)], sub'[r])
  <2>1. /\ pc[r] \in {"register", "linkTarget"} /\ sub[r] = sub'[r] /\ sub[r] \in Subdomain
        /\ pc'[r] = "linkProfile" /\ t # Undefined => pc[r] = "linkTarget"
    BY <1>1, <1>5 DEF Moves, Prepared, AfterRegister
  <2>2. Recent(New(a), a) /\ Recent(New(sub[r]), sub[r])
    BY <1>1, <2>1, JobParts, NewIsRecent DEF Prepared
  <2>3. CASE pc[r] = "register"
    BY <1>1, <2>1, <2>2, <2>3, EffectWritten
  <2>4. CASE pc[r] = "linkTarget"
    <3>1. Recent(Registration(sub[r]), a)
      BY <2>4 DEF MemoryInv, StillSo
    <3>2. InForce(Registration(sub[r]))
      BY <1>1, <3>1, RecentInForce
    <3>3. store'[DomainKey(sub[r])] = Registration(sub[r])
      BY <1>1, <2>1, <2>4, <3>2, EffectOnEntries DEF Registration
    <3> QED  BY <1>1, <2>1, <2>2, <2>4, <3>1, <3>3, EffectWritten
  <2> QED  BY <2>1, <2>3, <2>4
<1>6. /\ pc'[r] \in {"linkTarget", "linkProfile"} => Recent(Registration(sub[r]), job[r].token)'
      /\ pc'[r] = "linkProfile" /\ job'[r].target # Undefined =>
            Recent(Link(job[r].token, "target", job[r].target), sub[r])'
  BY <1>1, <1>5 DEF Registration, Link, Recent
<1> QED  BY <1>3, <1>4, <1>6 DEF StillSo

LEMMA StepKeepsMemory ==
    ASSUME MemoryInv, NEW r \in Req, Step(r) PROVE MemoryInv'
<1>1. /\ ApiInv /\ ApiTypeOK /\ Prepared /\ Effect(r) /\ Moves(r)
      /\ UNCHANGED <<clock, began, job>> /\ InFlight(r)
  BY StepEffect, StepMoves DEF MemoryInv, ApiInv, Moves, InFlight, Awaiting
<1>2. ApiInv'
  BY <1>1, StepKeepsApiInv
<1>3. \A q \in Req \ {r} : pc'[q] = pc[q] /\ sub'[q] = sub[q] /\ ~InFlight(q)
  BY <1>1 DEF MemoryInv, Alone, Moves, ApiTypeOK
<1>4. Alone'
  BY <1>3 DEF Alone, InFlight
<1>5. SettledFirst'
  <2>1. \A s \in Subdomain :
           \/ Registration(s)' = Registration(s)
           \/ ~InForce(Registration(s)) /\ Registration(s)' = Undefined
           \/ pc[r] = "register" /\ s = sub[r] /\ Registration(s)' = New(job[r].token)
    BY <1>1, EffectOnEntries
  <2>2. \A s \in Subdomain, q \in Req : sub[q] = s => sub'[q] = s
    BY <1>1, <1>3, ApiAssumption DEF Moves, Prepared
  <2> QED  BY <2>1, <2>2 DEF MemoryInv, SettledFirst
<1>6. NotAhead'
  <2>1. \A v : New(v).expiresAt = clock + Ttl
    BY DEF New
  <2>2. clock + Ttl <= clock + Ttl
    BY <1>1, Numbers
  <2> QED  BY <1>1, <2>1, <2>2 DEF Effect, Forgets, Registers, Links, MemoryInv, NotAhead
<1>7. OnTime'
  BY <1>1, <1>3 DEF MemoryInv, OnTime, InFlight
<1> QED  BY <1>2, <1>4, <1>5, <1>6, <1>7, StepKeepsLinksBacked, StepKeepsStillSo DEF MemoryInv

LEMMA StartKeepsMemory ==
    ASSUME ~Shared, MemoryInv, NEW r \in Req, NEW j \in Job, Start(r, j) PROVE MemoryInv'
<1>1. /\ ApiInv /\ ApiTypeOK /\ pc[r] = "new" /\ sub[r] = Undefined
      /\ UNCHANGED <<store, clock, taken>> /\ began' = clock
      /\ job' = [job EXCEPT ![r] = j] /\ \A q \in Req : ~InFlight(q)
  BY DEF MemoryInv, ApiInv, Prepared, Start
<1>2. ApiInv'
  BY <1>1, OtherKeepsApiInv
<1>3. /\ pc' = [pc EXCEPT ![r] = pc'[r]] /\ sub' = [sub EXCEPT ![r] = sub'[r]]
      /\ pc'[r] \in {"refused", "getOwner", "lookupProfile", "lookupTarget", "register"}
      /\ pc'[r] = "register" => sub'[r] \in Subdomain /\ Fresh(sub'[r])
  <2>1. CASE j.kind = "renew"
    BY <1>1, <2>1 DEF Start, Goto, ApiInv, ApiTypeOK
  <2>2. CASE j.kind # "renew"
    BY <1>1, <2>2 DEF Start, Settle, Goto, ApiInv, ApiTypeOK
  <2> QED  BY <2>1, <2>2
<1>4. \A q \in Req \ {r} : pc'[q] = pc[q] /\ sub'[q] = sub[q] /\ ~InFlight(q)
  BY <1>1, <1>3 DEF ApiInv, ApiTypeOK
<1>5. Alone'
  BY <1>4 DEF Alone, InFlight
<1>6. SettledFirst'
  <2>1. \A s \in Subdomain, q \in Req : sub[q] = s => sub'[q] = s
    BY <1>1, <1>4, ApiAssumption
  <2> QED  BY <1>1, <2>1 DEF MemoryInv, SettledFirst, Registration
<1>7. NotAhead' /\ LinksBacked'
  BY <1>1 DEF MemoryInv, NotAhead, LinksBacked, Backs, Registration, Link
<1>8. OnTime'
  <2>1. clock <= clock + MaxRun
    BY <1>1, Numbers
  <2> QED  BY <1>1, <2>1 DEF OnTime
<1>9. StillSo'
  <2>1. \A q \in Req \ {r} : pc'[q] \notin {"register", "linkTarget", "linkProfile"}
    BY <1>4 DEF InFlight, Awaiting
  <2>2. ASSUME pc'[r] = "register" PROVE store'[DomainKey(sub'[r])] = Undefined
    BY <1>1, <1>3, <2>2 DEF Fresh, MemoryInv, SettledFirst, Registration
  <2>3. pc'[r] = "register" => Yields(job[r], sub[r])'
    BY <2>2 DEF Yields, Owner, Value
  <2> QED  BY <1>3, <2>1, <2>3 DEF StillSo
<1> QED  BY <1>2, <1>5, <1>6, <1>7, <1>8, <1>9 DEF MemoryInv

LEMMA RestartKeepsMemory ==
    ASSUME ~Shared, MemoryInv, Restart PROVE MemoryInv'
<1>1. /\ pc' = [r \in Req |-> IF pc[r] = "new" THEN "new" ELSE "past"]
      /\ store' = [k \in Key |-> Undefined]
  BY DEF Restart
<1>2. /\ \A s \in Subdomain : Registration(s)' = Undefined
      /\ \A a \in Owners, k \in Kind, h \in Hash : Link(a, k, h)' = Undefined
  BY <1>1, KeysApart DEF Registration, Link
<1>3. ApiInv'
  BY OtherKeepsApiInv DEF MemoryInv
<1>4. \A r \in Req : pc'[r] \in {"new", "past"}
  BY <1>1
<1>5. Alone' /\ OnTime' /\ StillSo'
  BY <1>4 DEF Alone, OnTime, InFlight, Awaiting, StillSo
<1>6. SettledFirst' /\ NotAhead' /\ LinksBacked'
  BY <1>1, <1>2 DEF SettledFirst, NotAhead, LinksBacked, Owners
<1> QED  BY <1>3, <1>5, <1>6 DEF MemoryInv

LEMMA TickKeepsMemory ==
    ASSUME ~Shared, MemoryInv, Tick PROVE MemoryInv'
<1>1. /\ UNCHANGED <<store, began, pc, job, sub, taken>> /\ clock' = clock + 1
      /\ ApiTypeOK /\ Prepared
      /\ \A r \in Req : InFlight(r) => clock < began + MaxRun
  BY DEF Tick, MemoryInv, ApiInv
<1>2. ApiInv'
  BY OtherKeepsApiInv DEF MemoryInv
<1>3. Alone' /\ SettledFirst'
  BY <1>1 DEF MemoryInv, Alone, InFlight, SettledFirst, Registration
<1>4. NotAhead'
  BY <1>1, Numbers DEF MemoryInv, NotAhead
<1>5. OnTime'
  BY <1>1, Numbers DEF OnTime, InFlight
<1>6. LinksBacked'
  <2> SUFFICES ASSUME NEW a \in AuthToken, NEW k \in Kind, NEW h \in Hash, NEW e,
                      e = Link(a, k, h), e # Undefined, e.value \notin taken
               PROVE  Backs(Registration(e.value), a, e)'
    BY <1>1 DEF LinksBacked, Link, Registration
  <2>1. e.expiresAt \in Nat /\ Backs(Registration(e.value), a, e)
    BY <1>1, Numbers DEF MemoryInv, LinksBacked, Owners
  <2>2. Registration(e.value)' = Registration(e.value)
    BY <1>1 DEF Registration
  <2> QED  BY <1>1, <2>1, <2>2, Numbers DEF Backs
<1>7. StillSo'
  <2>1. ASSUME NEW r \in Req, pc[r] = "register" PROVE Yields(job[r], sub[r])'
    <3>1. Yields(job[r], sub[r]) /\ sub[r] \in Subdomain
      BY <1>1, <2>1 DEF MemoryInv, StillSo, Prepared
    <3>2. /\ Registration(sub[r])' = Registration(sub[r])
          /\ Registration(sub[r]) \in Entry \cup {Undefined}
      BY <1>1, <3>1, KeysApart DEF Registration, ApiTypeOK, StoreOK
    <3>3. Owner(sub[r])' \in {Owner(sub[r]), Undefined}
      BY <1>1, <3>2, Numbers DEF Owner, Value, Registration, Entry
    <3> QED  BY <1>1, <3>1, <3>2, <3>3 DEF Yields
  <2> QED  BY <1>1, <2>1 DEF MemoryInv, StillSo, Recent, Registration, Link
<1> QED  BY <1>2, <1>3, <1>4, <1>5, <1>6, <1>7 DEF MemoryInv

LEMMA InitHolds == Init => ApiInv /\ MemoryInv
<1> SUFFICES ASSUME Init PROVE ApiInv /\ MemoryInv
  OBVIOUS
<1>1. /\ \A s \in Subdomain : Registration(s) = Undefined
      /\ \A a \in Owners, k \in Kind, h \in Hash : Link(a, k, h) = Undefined
  BY KeysApart DEF Init, Registration, Link
<1>2. ApiInv
  BY <1>1 DEF Init, ApiInv, ApiTypeOK, StoreOK, Prepared
<1>3. Alone /\ OnTime /\ StillSo
  BY DEF Init, Alone, OnTime, InFlight, Awaiting, StillSo
<1>4. SettledFirst /\ NotAhead /\ LinksBacked
  BY <1>1 DEF Init, SettledFirst, NotAhead, LinksBacked, Owners
<1> QED  BY <1>2, <1>3, <1>4 DEF MemoryInv

LEMMA MemoryInductive ==
    ASSUME ~Shared, MemoryInv, [Next]_vars PROVE MemoryInv'
<1>1. CASE UNCHANGED vars
  <2>1. ApiInv'
    BY <1>1, OtherKeepsApiInv DEF MemoryInv
  <2>2. Alone' /\ SettledFirst' /\ NotAhead' /\ OnTime' /\ LinksBacked'
    BY <1>1 DEF vars, MemoryInv, Alone, OnTime, InFlight, SettledFirst, NotAhead, LinksBacked,
                Backs, Registration, Link
  <2>3. StillSo'
    BY <1>1 DEF vars, MemoryInv, StillSo, Yields, Recent, Owner, Value, Registration, Link
  <2> QED  BY <2>1, <2>2, <2>3 DEF MemoryInv
<1> QED  BY <1>1, StepKeepsMemory, StartKeepsMemory, RestartKeepsMemory, TickKeepsMemory DEF Next

\* The storage of the memory, for any requests and with the clock running in the
\* middle of them: what a request decided is still so when it writes, and a link
\* outlives the registration it leads to by less than a request takes.
THEOREM MemoryInvariant == ASSUME ~Shared PROVE Spec => []MemoryInv
<1>1. Init => MemoryInv
  BY InitHolds
<1>2. MemoryInv /\ [Next]_vars => MemoryInv'
  BY MemoryInductive
<1> QED  BY <1>1, <1>2, PTL DEF Spec

\* With the in-memory storage, the link a client's create follows leads to a
\* subdomain of that client, for any clients and any times, but for the last MaxRun
\* of its life and for subdomains lost in that time.
THEOREM LinksOwnedHolds == ASSUME ~Shared PROVE Spec => []LinksOwned
<1>1. MemoryInv => LinksOwned
  <2> SUFFICES ASSUME MemoryInv, NEW a \in AuthToken, NEW k \in Kind, NEW h \in Hash,
                      Value(LinkKey(a, k, h)) # Undefined,
                      Value(LinkKey(a, k, h)) \notin taken
               PROVE  \/ Owner(Value(LinkKey(a, k, h))) = a
                      \/ Link(a, k, h).expiresAt < clock + MaxRun
    BY DEF LinksOwned, Kind, Link
  <2> DEFINE e == Link(a, k, h)
             s == Value(LinkKey(a, k, h))
  <2>1. LinkKey(a, k, h) \in Key /\ ApiTypeOK /\ a \in Owners
    BY KeysApart DEF Owners, MemoryInv, ApiInv
  <2>2. e # Undefined /\ s = e.value
    BY <2>1, ValueInForce DEF Link, InForce
  <2>3. e.expiresAt \in Nat /\ s \in Subdomain
    BY <2>1, <2>2, Numbers
  <2>4. Backs(Registration(s), a, e)
    BY <2>2 DEF MemoryInv, LinksBacked
  <2>5. DomainKey(s) \in Key /\ (Registration(s) # Undefined => Registration(s).expiresAt <= clock + Ttl)
    BY <2>3, KeysApart DEF MemoryInv, NotAhead, Registration
  <2>6. CASE Registration(s) = Undefined
    BY <2>4, <2>6 DEF Backs
  <2>7. CASE Registration(s) # Undefined /\ Registration(s).value = a
             /\ e.expiresAt <= Registration(s).expiresAt + MaxRun
    <3>1. CASE clock <= Registration(s).expiresAt
      BY <2>1, <2>3, <2>7, <3>1, OwnerOf
    <3>2. CASE ~(clock <= Registration(s).expiresAt)
      BY <2>1, <2>3, <2>7, <3>2, Numbers
    <3> QED  BY <3>1, <3>2
  <2>8. CASE Registration(s) # Undefined /\ e.expiresAt + Ttl < Registration(s).expiresAt + MaxRun
    BY <2>1, <2>3, <2>5, <2>8, Numbers
  <2> QED  BY <2>4, <2>6, <2>7, <2>8 DEF Backs
<1> QED  BY <1>1, MemoryInvariant, PTL

\* With the in-memory storage, no step gives a registered client's subdomain to
\* anybody else, however many clients renew and create, but for a create whose link
\* outlived its registration.
THEOREM OwnerKeptHolds == ASSUME ~Shared PROVE Spec => OwnerKept
<1> DEFINE Kept == \A s \in Subdomain :
              Owner(s) \in AuthToken /\ Owner(s)' \notin {Owner(s), Undefined} =>
                  /\ \E r \in Req : pc[r] = "register" /\ sub[r] = s /\ job[r].kind = "create"
                  /\ s \in taken \/ clock + Ttl < store[DomainKey(s)].expiresAt + 2 * MaxRun
<1>1. ASSUME MemoryInv, [Next]_vars PROVE [Kept]_vars
  <2> SUFFICES ASSUME Next, NEW s \in Subdomain, Owner(s) \in AuthToken,
                      Owner(s)' \notin {Owner(s), Undefined}
               PROVE  /\ \E r \in Req : pc[r] = "register" /\ sub[r] = s /\ job[r].kind = "create"
                      /\ s \in taken \/ clock + Ttl < store[DomainKey(s)].expiresAt + 2 * MaxRun
    BY <1>1
  <2>1. ApiInv /\ ApiTypeOK /\ DomainKey(s) \in Key /\ Owner(s) \notin {Undefined, Anonymous}
    BY <1>1, KeysApart, ApiAssumption DEF MemoryInv, ApiInv, Owners
  <2>2. Registration(s) # Undefined /\ Registration(s).expiresAt \in Nat /\ InForce(Registration(s))
    BY <2>1, OwnerOf, Numbers DEF InForce
  <2>3. CASE \E r \in Req : Step(r)
    <3>1. PICK r \in Req : Step(r)
      BY <2>3
    <3>2. Effect(r) /\ clock' = clock
      BY <2>1, <3>1, StepEffect, StepMoves DEF Moves
    <3>3. Registration(s)' # Registration(s)
      BY <3>2 DEF Owner, Value, Registration
    <3>4. pc[r] = "register" /\ s = sub[r] /\ Registration(s)' = New(job[r].token)
      BY <2>1, <2>2, <3>2, <3>3, EffectOnEntries
    <3>5. Owner(s)' \in {job[r].token, Undefined}
      BY <3>4 DEF Owner, Value, Registration, New
    <3>6. /\ job[r].kind = "create"
          /\ s \in taken \/ began + Ttl < Registration(s).expiresAt + MaxRun
      BY <1>1, <2>1, <3>4, <3>5 DEF MemoryInv, StillSo, Yields
    <3>7. clock <= began + MaxRun
      BY <1>1, <3>4 DEF MemoryInv, OnTime, InFlight, Awaiting
    <3>8. began + Ttl < Registration(s).expiresAt + MaxRun =>
             clock + Ttl < Registration(s).expiresAt + 2 * MaxRun
      BY <2>1, <2>2, <3>7, Numbers
    <3> QED  BY <3>4, <3>6, <3>8 DEF Registration
  <2>4. CASE \E r \in Req, j \in Job : Start(r, j)
    BY <2>4 DEF Start, Owner, Value
  <2>5. CASE Restart
    BY <2>1, <2>5 DEF Restart, Owner, Value
  <2>6. CASE Tick
    <3>1. store' = store /\ clock' = clock + 1
      BY <2>6 DEF Tick
    <3> QED  BY <2>1, <3>1, OwnerOf DEF Owner, Value, Registration
  <2> QED  BY <2>3, <2>4, <2>5, <2>6 DEF Next
<1>2. MemoryInv /\ [Next]_vars => [Kept]_vars
  BY <1>1
<1> QED  BY <1>2, MemoryInvariant, PTL DEF Spec, OwnerKept, Kept

\* With the in-memory storage, a request that is answered with success finds its
\* registration and both of its links stored.
THEOREM SuccessIsStoredHolds == ASSUME ~Shared PROVE Spec => SuccessIsStored
<1> DEFINE Stored == \A r \in Req : pc[r] \in Awaiting /\ pc'[r] = "ok" =>
              LET j == job[r]
                  linked(kind, hash) ==
                      hash # Undefined => Value(LinkKey(j.token, kind, hash))' = sub[r]
              IN  /\ Owner(sub[r])' = j.token
                  /\ linked("target", j.target) /\ linked("profile", j.profile)
<1>1. ASSUME MemoryInv, [Next]_vars PROVE [Stored]_vars
  <2> SUFFICES ASSUME Next, NEW r \in Req, pc[r] \in Awaiting, pc'[r] = "ok"
               PROVE  LET j == job[r]
                          linked(kind, hash) ==
                              hash # Undefined => Value(LinkKey(j.token, kind, hash))' = sub[r]
                      IN  /\ Owner(sub[r])' = j.token
                          /\ linked("target", j.target) /\ linked("profile", j.profile)
    BY <1>1
  <2>1. ApiInv /\ ApiTypeOK /\ Prepared
    BY <1>1 DEF MemoryInv, ApiInv
  <2>2. Step(r)
    <3>1. ASSUME NEW q \in Req, NEW j \in Job, Start(q, j) PROVE FALSE
      BY <2>1, <3>1 DEF Start, Settle, Goto, ApiTypeOK, Awaiting
    <3>2. ~Restart /\ ~Tick
      BY <2>1 DEF Restart, Tick, Awaiting
    <3>3. ASSUME NEW q \in Req \ {r}, Step(q) PROVE FALSE
      <4>1. Moves(q)
        BY <2>1, <3>3, StepMoves
      <4> QED  BY <2>1, <4>1 DEF Moves, ApiTypeOK, Awaiting
    <3> QED  BY <3>1, <3>2, <3>3 DEF Next
  <2>3. Effect(r) /\ Moves(r)
    BY <2>1, <2>2, StepEffect, StepMoves
  <2>4. PICK a \in Owners, s \in Subdomain, t \in Hash \cup {Undefined}, p \in Hash \cup {Undefined} :
           job[r].token = a /\ sub[r] = s /\ job[r].target = t /\ job[r].profile = p
    BY <2>1, <2>3, JobParts DEF Moves, Prepared
  <2>5. /\ pc[r] \in {"register", "linkTarget", "linkProfile"}
        /\ UNCHANGED <<clock, job>> /\ sub'[r] = s
        /\ pc[r] = "register" => t = Undefined /\ p = Undefined
        /\ pc[r] = "linkTarget" => t # Undefined /\ p = Undefined
        /\ pc[r] = "linkProfile" => p # Undefined
    BY <2>1, <2>3, <2>4, ApiAssumption DEF Moves, AfterRegister, AfterLinkTarget, Prepared
  <2>6. clock <= began + MaxRun /\ Recent(New(a), a) /\ Recent(New(s), s)
    BY <1>1, <2>1, <2>4, <2>5, NewIsRecent DEF MemoryInv, OnTime, InFlight, Awaiting
  <2>7. Recent(store'[DomainKey(s)], a)
    <3>1. CASE pc[r] = "register"
      BY <2>3, <2>4, <2>6, <3>1, EffectWritten
    <3>2. CASE pc[r] \in {"linkTarget", "linkProfile"}
      <4>1. Recent(Registration(s), a)
        BY <1>1, <2>4, <3>2 DEF MemoryInv, StillSo
      <4>2. InForce(Registration(s))
        BY <2>1, <2>6, <4>1, RecentInForce
      <4> QED  BY <2>1, <2>3, <2>5, <3>2, <4>1, <4>2, EffectOnEntries DEF Registration
    <3> QED  BY <2>5, <3>1, <3>2
  <2>8. t # Undefined => Recent(store'[LinkKey(a, "target", t)], s)
    <3>1. CASE pc[r] = "linkTarget"
      BY <2>3, <2>4, <2>6, <3>1, EffectWritten
    <3>2. ASSUME pc[r] = "linkProfile", t # Undefined
          PROVE  Recent(store'[LinkKey(a, "target", t)], s)
      <4>1. Recent(Link(a, "target", t), s)
        BY <1>1, <2>4, <3>2 DEF MemoryInv, StillSo
      <4>2. InForce(Link(a, "target", t)) /\ "target" \in Kind /\ t \in Hash
        BY <2>1, <2>4, <2>6, <3>2, <4>1, RecentInForce DEF Kind
      <4> QED  BY <2>1, <2>3, <2>4, <2>5, <3>2, <4>1, <4>2, EffectOnEntries DEF Link
    <3> QED  BY <2>5, <3>1, <3>2
  <2>9. p # Undefined => Recent(store'[LinkKey(a, "profile", p)], s)
    BY <2>3, <2>4, <2>5, <2>6, EffectWritten
  <2>10. \A k, v : Recent(store'[k], v) => Value(k)' = v
    <3>1. ASSUME NEW k, NEW v, Recent(store'[k], v) PROVE Value(k)' = v
      <4>1. InForce(store'[k]) /\ store'[k].value = v
        BY <2>1, <2>6, <3>1, RecentInForce DEF Recent
      <4> QED  BY <2>5, <4>1 DEF Value, InForce
    <3> QED  BY <3>1
  <2>11. Owner(sub[r])' = a
    <3>1. Value(DomainKey(s))' = a
      BY <2>7, <2>10
    <3> QED  BY <2>5, <3>1 DEF Owner, Value
  <2> QED  BY <2>4, <2>5, <2>8, <2>9, <2>10, <2>11
<1>2. MemoryInv /\ [Next]_vars => [Stored]_vars
  BY <1>1
<1> QED  BY <1>2, MemoryInvariant, PTL DEF Spec, SuccessIsStored, Stored
-----------------------------------------------------------------------------
(* While nothing has expired *)

LEMMA AllInForce ==
    ASSUME ApiTypeOK, LongLived, clock <= Ttl, NEW k \in Key, store[k] # Undefined
    PROVE  InForce(store[k])
<1>1. store[k] \in Entry /\ clock \in Nat /\ Ttl \in Nat /\ store[k].expiresAt >= Ttl
  BY ApiAssumption DEF ApiTypeOK, StoreOK, LongLived
<1> QED  BY <1>1 DEF InForce, Entry

LEMMA EffectKeepsLongLived ==
    ASSUME ApiTypeOK, LongLived, NEW r \in Req, Effect(r) PROVE LongLived'
<1>1. \A v : New(v).expiresAt >= Ttl
  BY ApiAssumption DEF New, ApiTypeOK
<1> QED  BY <1>1 DEF Effect, Forgets, Registers, Links, LongLived

\* What a create makes of the link of its profile.
LEMMA ProfileLookedUp ==
    ASSUME ApiInv, LongLived, clock <= Ttl, NEW r \in Req, Step(r), pc[r] = "lookupProfile"
    PROVE  LET e == Link(job[r].token, "profile", job[r].profile)
           IN  /\ pc'[r] = "lookupTarget" => e = Undefined
               /\ pc'[r] = "register" => e = Undefined \/ e.value = sub'[r]
<1>1. ApiTypeOK /\ LookupProfile(r) /\ job[r].token \in Owners /\ job[r].profile \in Hash
  BY JobParts
  DEF ApiInv, Prepared, Step, GetOwner, LookupTarget, Register, LinkTarget, LinkProfile
<1> DEFINE k == LinkKey(job[r].token, "profile", job[r].profile)
<1>2. k \in Key /\ store[k] = Link(job[r].token, "profile", job[r].profile)
  BY <1>1, KeysApart DEF Kind, Link
<1>3. store[k] # Undefined => Value(k) # Undefined /\ Value(k) = store[k].value
  BY <1>1, <1>2, AllInForce, ValueInForce
<1>4. \/ Value(k) = Undefined /\ pc'[r] = "lookupTarget"
      \/ pc'[r] = "register" /\ (Value(k) # Undefined => sub'[r] = Value(k))
  BY <1>1 DEF LookupProfile, Settle, Goto, ApiTypeOK
<1> QED  BY <1>2, <1>3, <1>4

LEMMA StepKeepsProfiles ==
    ASSUME MemoryInv, LongLived, ProfilesFollowed, NEW r \in Req, Step(r)
    PROVE  ProfilesFollowed'
<1>1. /\ ApiInv /\ ApiTypeOK /\ Prepared /\ Effect(r) /\ Moves(r) /\ UNCHANGED <<clock, job>>
  BY StepEffect, StepMoves DEF MemoryInv, ApiInv, Moves
<1>2. \A q \in Req \ {r} : pc'[q] = pc[q] /\ sub'[q] = sub[q] /\ ~InFlight(q)
  BY <1>1 DEF MemoryInv, Alone, InFlight, Moves, Awaiting, ApiTypeOK
<1>3. \A q \in Req : pc'[q] \notin {"new", "past"} <=> pc[q] \notin {"new", "past"}
  BY <1>1, <1>2 DEF Moves, AfterRegister, AfterLinkTarget
<1> SUFFICES ASSUME NEW q \in Req, clock <= Ttl, pc[q] \notin {"new", "past"}, job[q].kind = "create",
                    job[q].profile # Undefined, OnlyCreates(job[q].token)
             PROVE  LET e == store'[LinkKey(job[q].token, "profile", job[q].profile)]
                    IN  /\ pc'[q] = "ok" => e # Undefined /\ e.value = sub'[q]
                        /\ pc'[q] \in {"register", "linkTarget", "linkProfile"} =>
                              e = Undefined \/ e.value = sub'[q]
                        /\ pc'[q] = "lookupTarget" => e = Undefined
  BY <1>1, <1>3 DEF ProfilesFollowed, OnlyCreates, Link
<1>4. PICK a \in Owners, p \in Hash : job[q].token = a /\ job[q].profile = p
  BY <1>1, JobParts DEF Prepared
<1> DEFINE e == Link(a, "profile", p)
           f == store'[LinkKey(a, "profile", p)]
<1>5. /\ pc[q] = "ok" => e # Undefined /\ e.value = sub[q]
      /\ pc[q] \in {"register", "linkTarget", "linkProfile"} => e = Undefined \/ e.value = sub[q]
      /\ pc[q] = "lookupTarget" => e = Undefined
  BY <1>4 DEF ProfilesFollowed
<1>6. \/ f = e
      \/ f = New(sub[r]) /\ a = job[r].token /\ pc[r] = "linkProfile" /\ p = job[r].profile
  <2>1. LinkKey(a, "profile", p) \in Key /\ "profile" \in Kind
    BY KeysApart DEF Kind
  <2>2. \/ f = e
        \/ ~InForce(e) /\ f = Undefined
        \/ f = New(sub[r]) /\ a = job[r].token /\ pc[r] = "linkProfile" /\ p = job[r].profile
    BY <1>1, <2>1, EffectOnEntries DEF Link
  <2>3. ~InForce(e) => e = Undefined
    BY <1>1, <2>1, AllInForce DEF Link
  <2> QED  BY <2>2, <2>3
<1>7. New(sub[r]).value = sub[r] /\ (sub[r] \in Subdomain => New(sub[r]) # Undefined)
  BY <1>1, ApiAssumption DEF New, Entry, ApiTypeOK
<1> HIDE DEF e, f
<1>8. /\ pc'[q] = "ok" => f # Undefined /\ f.value = sub'[q]
      /\ pc'[q] \in {"register", "linkTarget", "linkProfile"} => f = Undefined \/ f.value = sub'[q]
      /\ pc'[q] = "lookupTarget" => f = Undefined
  <2>1. CASE q # r
    <3>1. pc'[q] = pc[q] /\ sub'[q] = sub[q]
          /\ pc[q] \notin {"register", "linkTarget", "linkProfile", "lookupTarget"}
      BY <1>2, <2>1 DEF InFlight, Awaiting
    <3>2. CASE f = e
      BY <1>5, <3>1, <3>2
    <3>3. CASE f = New(sub[r]) /\ a = job[r].token /\ pc[r] = "linkProfile" /\ p = job[r].profile
      <4>1. job[r].kind = "create" /\ job[r].profile # Undefined /\ sub[r] \in Subdomain
        BY <1>1, <1>4, <3>3, ApiAssumption DEF OnlyCreates, Prepared
      <4>2. e = Undefined \/ e.value = sub[r]
        BY <1>4, <3>3, <4>1 DEF ProfilesFollowed, e
      <4> QED  BY <1>5, <1>7, <3>1, <3>3, <4>1, <4>2
    <3> QED  BY <1>6, <3>2, <3>3
  <2>2. CASE q = r
    <3>1. CASE pc[r] = "lookupProfile"
      <4>1. f = e /\ pc'[r] \in {"lookupTarget", "register"}
        BY <1>1, <1>6, <3>1 DEF Moves
      <4>2. /\ pc'[r] = "lookupTarget" => e = Undefined
            /\ pc'[r] = "register" => e = Undefined \/ e.value = sub'[r]
        BY <1>1, <1>4, <2>2, <3>1, ProfileLookedUp DEF e
      <4> QED  BY <2>2, <4>1, <4>2
    <3>2. CASE pc[r] = "linkProfile"
      <4>1. f = New(sub[r]) /\ sub'[r] = sub[r] /\ sub[r] \in Subdomain
            /\ pc'[r] \in {"ok", "unheard"}
        BY <1>1, <1>4, <2>2, <3>2, EffectWritten DEF Moves, Prepared, f
      <4> QED  BY <1>7, <2>2, <4>1
    <3>3. CASE pc[r] \in {"lookupTarget", "register", "linkTarget"}
      <4>1. /\ f = e /\ pc'[r] \in {"register", "linkTarget", "linkProfile", "unheard"}
            /\ pc[r] \in {"register", "linkTarget"} => sub'[r] = sub[r]
        BY <1>1, <1>4, <1>6, <2>2, <3>3, ApiAssumption DEF Moves, AfterRegister, AfterLinkTarget
      <4> QED  BY <1>5, <2>2, <3>3, <4>1
    <3> QED  BY <1>1, <2>2, <3>1, <3>2, <3>3 DEF Moves, Prepared
  <2> QED  BY <2>1, <2>2
<1> QED  BY <1>4, <1>8 DEF f

LEMMA OtherKeepsProfiles ==
    ASSUME MemoryInv, LongLived, ProfilesFollowed,
           (\E r \in Req, j \in Job : Start(r, j)) \/ Restart \/ Tick \/ UNCHANGED vars
    PROVE  ProfilesFollowed'
<1>1. ASSUME NEW r \in Req, NEW j \in Job, Start(r, j) PROVE ProfilesFollowed'
  <2>1. /\ pc[r] = "new" /\ job' = [job EXCEPT ![r] = j] /\ UNCHANGED <<store, clock>>
        /\ job \in [Req -> Job \cup {Undefined}]
    BY <1>1 DEF Start, MemoryInv, ApiInv, ApiTypeOK
  <2>2. /\ \A q \in Req \ {r} : pc'[q] = pc[q] /\ sub'[q] = sub[q] /\ job'[q] = job[q]
        /\ pc'[r] \notin {"new", "past"} /\ job'[r] = j
        /\ j.kind = "create" /\ j.profile # Undefined => pc'[r] = "lookupProfile"
    <3>1. CASE j.kind = "renew"
      BY <1>1, <2>1, <3>1 DEF Start, Goto, MemoryInv, ApiInv, ApiTypeOK
    <3>2. CASE j.kind # "renew"
      BY <1>1, <2>1, <3>2 DEF Start, Settle, Goto, MemoryInv, ApiInv, ApiTypeOK
    <3> QED  BY <3>1, <3>2
  <2>3. \A a \in Owners : OnlyCreates(a)' => OnlyCreates(a)
    BY <2>1, <2>2 DEF OnlyCreates
  <2> SUFFICES ASSUME NEW q \in Req, clock <= Ttl, pc'[q] \notin {"new", "past"}, job'[q].kind = "create",
                      job'[q].profile # Undefined, OnlyCreates(job[q].token)'
               PROVE  LET e == store'[LinkKey(job'[q].token, "profile", job'[q].profile)]
                      IN  /\ pc'[q] = "ok" => e # Undefined /\ e.value = sub'[q]
                          /\ pc'[q] \in {"register", "linkTarget", "linkProfile"} =>
                                e = Undefined \/ e.value = sub'[q]
                          /\ pc'[q] = "lookupTarget" => e = Undefined
    BY <2>1 DEF ProfilesFollowed, Link
  <2>4. CASE q = r
    BY <2>2, <2>4
  <2>5. CASE q # r
    <3>1. /\ pc[q] \notin {"new", "past"} /\ job[q].kind = "create" /\ job[q].profile # Undefined
          /\ pc'[q] = pc[q] /\ sub'[q] = sub[q] /\ job'[q] = job[q]
      BY <2>2, <2>5
    <3>2. job[q].token \in Owners
      BY <3>1, JobParts DEF MemoryInv, ApiInv, Prepared
    <3>3. OnlyCreates(job[q].token)
      <4>1. ASSUME NEW a \in Owners, a = job[q].token PROVE OnlyCreates(a)
        BY <2>3, <3>1, <4>1 DEF OnlyCreates
      <4> QED  BY <3>2, <4>1
    <3> QED  BY <2>1, <3>1, <3>3 DEF ProfilesFollowed, Link
  <2> QED  BY <2>4, <2>5
<1>2. CASE Restart
  <2>1. \A r \in Req : pc'[r] \in {"new", "past"}
    BY <1>2 DEF Restart
  <2> QED  BY <2>1 DEF ProfilesFollowed
<1>3. CASE Tick
  <2>1. /\ UNCHANGED <<store, pc, job, sub>> /\ clock' = clock + 1 /\ clock \in Nat /\ Ttl \in Nat
    BY <1>3, ApiAssumption DEF Tick, MemoryInv, ApiInv, ApiTypeOK
  <2>2. clock' <= Ttl => clock <= Ttl
    BY <2>1
  <2> QED  BY <2>1, <2>2 DEF ProfilesFollowed, OnlyCreates, Link
<1>4. CASE UNCHANGED vars
  BY <1>4 DEF vars, ProfilesFollowed, OnlyCreates, Link
<1> QED  BY <1>1, <1>2, <1>3, <1>4

\* The storage forgets nothing in the first Ttl seconds, whatever the steps.
LEMMA KeepsLongLived ==
    ASSUME ApiInv, LongLived,
           \/ \E r \in Req : Step(r) \/ Unheard(r)
           \/ \E r \in Req, j \in Job : Start(r, j)
           \/ \E r \in Req : Fail(r)
           \/ Restart
           \/ Tick
           \/ UNCHANGED vars
    PROVE  LongLived'
<1>1. ASSUME NEW r \in Req, Step(r) \/ Unheard(r) PROVE LongLived'
  BY <1>1, StepEffect, EffectKeepsLongLived DEF ApiInv
<1>2. CASE UNCHANGED store
  BY <1>2 DEF LongLived
<1>3. CASE Restart
  BY <1>3 DEF Restart, LongLived
<1>4. /\ \A r \in Req : Fail(r) => UNCHANGED store
      /\ \A r \in Req, j \in Job : Start(r, j) => UNCHANGED store
      /\ Tick \/ UNCHANGED vars => UNCHANGED store
  BY DEF Fail, Start, Tick, vars
<1> QED  BY <1>1, <1>2, <1>3, <1>4

\* Creating again with one profile gives the same subdomain, while nothing has
\* expired, for any number of requests of any clients.
THEOREM CreateReusesHolds == ASSUME ~Shared PROVE Spec => []CreateReuses
<1>1. Init => LongLived /\ ProfilesFollowed
  BY DEF Init, LongLived, ProfilesFollowed
<1>2. MemoryInv /\ LongLived /\ ProfilesFollowed /\ [Next]_vars => (LongLived /\ ProfilesFollowed)'
  <2> SUFFICES ASSUME MemoryInv, LongLived, ProfilesFollowed, [Next]_vars
               PROVE  LongLived' /\ ProfilesFollowed'
    OBVIOUS
  <2>1. LongLived'
    BY KeepsLongLived DEF Next, MemoryInv
  <2>2. ProfilesFollowed'
    BY StepKeepsProfiles, OtherKeepsProfiles DEF Next
  <2> QED  BY <2>1, <2>2
<1>3. MemoryInv /\ ProfilesFollowed => CreateReuses
  <2> SUFFICES ASSUME MemoryInv, ProfilesFollowed, NEW q \in Req, NEW r \in Req,
                      pc[q] = "ok", pc[r] = "ok", clock <= Ttl,
                      job[q].kind = "create", job[r].kind = "create",
                      job[q].token = job[r].token,
                      job[q].profile = job[r].profile, job[q].profile # Undefined,
                      \A p \in Req : pc[p] \notin {"new", "past"} /\ job[p].token = job[q].token
                                        => job[p].kind = "create"
               PROVE  sub[q] = sub[r]
    BY DEF CreateReuses
  <2>1. OnlyCreates(job[q].token)
    BY DEF OnlyCreates
  <2> QED  BY <2>1 DEF ProfilesFollowed
<1> QED  BY <1>1, <1>2, <1>3, MemoryInvariant, PTL DEF Spec

-----------------------------------------------------------------------------
(* Any storage *)

LEMMA KeepsLinksLead ==
    ASSUME ApiInv, LinksLead,
           \/ \E r \in Req : Step(r) \/ Unheard(r)
           \/ \E r \in Req, j \in Job : Start(r, j)
           \/ \E r \in Req : Fail(r)
           \/ Restart
           \/ Tick
           \/ UNCHANGED vars
    PROVE  LinksLead'
<1> DEFINE Lead == /\ \A a \in Owners, k \in Kind, h \in Hash :
                         Link(a, k, h) # Undefined => Registration(Link(a, k, h).value) # Undefined
                   /\ \A r \in Req :
                         pc[r] \in {"linkTarget", "linkProfile"} => Registration(sub[r]) # Undefined
<1>1. LongLived'
  BY KeepsLongLived DEF LinksLead
<1>2. ApiTypeOK /\ Prepared /\ LongLived /\ (clock <= Ttl => Lead)
  BY DEF ApiInv, LinksLead
<1>3. ASSUME NEW r \in Req, Step(r) \/ Unheard(r), clock <= Ttl PROVE Lead'
  <2>1. Effect(r) /\ Moves(r) /\ clock' = clock
    BY <1>3, StepEffect, StepMoves DEF Moves
  <2>2. \A v \in Subdomain \cup Owners : New(v) # Undefined /\ New(v).value = v
    BY <1>2, ApiAssumption DEF New, Entry, ApiTypeOK
  <2>3. \A s \in Subdomain : Registration(s) # Undefined => store'[DomainKey(s)] # Undefined
    <3>1. ASSUME NEW s \in Subdomain, Registration(s) # Undefined
          PROVE  store'[DomainKey(s)] # Undefined
      <4>1. InForce(Registration(s))
        BY <1>2, <1>3, <3>1, AllInForce, KeysApart DEF Registration
      <4>2. pc[r] = "register" => job[r].token \in Owners
        BY <1>2, JobParts DEF Prepared
      <4> QED  BY <2>1, <2>2, <3>1, <4>1, <4>2, EffectOnEntries DEF Registration
    <3> QED  BY <3>1
  <2>4. ASSUME NEW a \in Owners, NEW k \in Kind, NEW h \in Hash,
               store'[LinkKey(a, k, h)] # Undefined
        PROVE  store'[DomainKey(store'[LinkKey(a, k, h)].value)] # Undefined
    <3>1. CASE store'[LinkKey(a, k, h)] = Link(a, k, h)
      <4>1. Link(a, k, h).value \in Subdomain /\ Registration(Link(a, k, h).value) # Undefined
        BY <1>2, <1>3, <2>4, <3>1 DEF ApiTypeOK, StoreOK
      <4> QED  BY <2>3, <3>1, <4>1
    <3>2. CASE store'[LinkKey(a, k, h)] = New(sub[r]) /\ pc[r] \in {"linkTarget", "linkProfile"}
      <4>1. sub[r] \in Subdomain /\ Registration(sub[r]) # Undefined
        BY <1>2, <1>3, <3>2 DEF Prepared
      <4> QED  BY <2>2, <2>3, <3>2, <4>1
    <3> QED  BY <2>1, <2>4, <3>1, <3>2, EffectOnEntries DEF Link
  <2>5. ASSUME NEW q \in Req, pc'[q] \in {"linkTarget", "linkProfile"}
        PROVE  store'[DomainKey(sub'[q])] # Undefined
    <3>1. CASE pc[q] \in {"linkTarget", "linkProfile"}
      <4>1. sub'[q] = sub[q] /\ sub[q] \in Subdomain
        BY <1>2, <2>1, <3>1 DEF Moves, Prepared, ApiTypeOK
      <4> QED  BY <1>2, <1>3, <2>3, <3>1, <4>1
    <3>2. CASE pc[q] \notin {"linkTarget", "linkProfile"}
      <4>1. q = r /\ pc[r] = "register" /\ sub'[r] = sub[r]
        BY <1>2, <2>1, <2>5, <3>2 DEF Moves, ApiTypeOK
      <4>2. job[r].token \in Owners
        BY <1>2, <4>1, JobParts DEF Prepared
      <4> QED  BY <2>1, <2>2, <4>1, <4>2, EffectWritten
    <3> QED  BY <3>1, <3>2
  <2> QED  BY <2>4, <2>5 DEF Registration, Link
<1>4. ASSUME UNCHANGED <<store, sub>>, clock <= Ttl,
             \A r \in Req : pc'[r] \in {"linkTarget", "linkProfile"} => pc'[r] = pc[r]
      PROVE  Lead'
  BY <1>2, <1>4 DEF Registration, Link
<1>5. ASSUME NEW r \in Req, NEW j \in Job, Start(r, j), clock <= Ttl PROVE Lead'
  <2>1. /\ UNCHANGED store /\ pc[r] = "new"
        /\ \A q \in Req \ {r} : pc'[q] = pc[q] /\ sub'[q] = sub[q]
        /\ pc'[r] \notin {"linkTarget", "linkProfile"}
    <3>1. CASE j.kind = "renew"
      BY <1>2, <1>5, <3>1 DEF Start, Goto, ApiTypeOK
    <3>2. CASE j.kind # "renew"
      BY <1>2, <1>5, <3>2 DEF Start, Settle, Goto, ApiTypeOK
    <3> QED  BY <3>1, <3>2
  <2> QED  BY <1>2, <1>5, <2>1 DEF Registration, Link
<1>6. ASSUME NEW r \in Req, Fail(r), clock <= Ttl PROVE Lead'
  BY <1>2, <1>4, <1>6 DEF Fail, Goto, ApiTypeOK
<1>7. ASSUME Restart, clock <= Ttl PROVE Lead'
  <2>1. \A r \in Req : pc'[r] \notin {"linkTarget", "linkProfile"}
    BY <1>7 DEF Restart
  <2>2. CASE Shared
    BY <1>4, <1>7, <2>1, <2>2 DEF Restart
  <2>3. CASE ~Shared
    <3>1. \A a \in Owners, k \in Kind, h \in Hash : store'[LinkKey(a, k, h)] = Undefined
      BY <1>7, <2>3, KeysApart DEF Restart
    <3> QED  BY <2>1, <3>1 DEF Link
  <2> QED  BY <2>2, <2>3
<1>8. ASSUME Tick \/ UNCHANGED vars, clock <= Ttl PROVE Lead'
  BY <1>4, <1>8 DEF Tick, vars
<1>9. clock' <= Ttl => clock <= Ttl
  <2>1. clock' = clock \/ clock' = clock + 1
    <3>1. ASSUME NEW r \in Req, Step(r) \/ Unheard(r) PROVE clock' = clock
      BY <3>1, StepMoves DEF Moves
    <3> QED  BY <3>1 DEF Start, Fail, Restart, Tick, vars
  <2> QED  BY <1>2, <2>1, ApiAssumption DEF ApiTypeOK
<1>10. clock' <= Ttl => Lead'
  BY <1>3, <1>5, <1>6, <1>7, <1>8, <1>9
<1> QED  BY <1>1, <1>10 DEF LinksLead

LEMMA LinksLeadSuffices ==
    ASSUME ApiInv, LinksLead PROVE LinksRegistered
<1> SUFFICES ASSUME clock <= Ttl, NEW a \in Owners, NEW k \in Kind, NEW h \in Hash,
                    Value(LinkKey(a, k, h)) # Undefined
             PROVE  Owner(Value(LinkKey(a, k, h))) # Undefined
  BY DEF LinksRegistered, Kind
<1> DEFINE e == Link(a, k, h)
<1>1. LinkKey(a, k, h) \in Key /\ ApiTypeOK /\ LongLived
  BY KeysApart DEF ApiInv, LinksLead
<1>2. e # Undefined /\ Value(LinkKey(a, k, h)) = e.value /\ e.value \in Subdomain
  BY <1>1, ValueInForce DEF Link, InForce, ApiTypeOK, StoreOK
<1>3. Registration(e.value) # Undefined /\ DomainKey(e.value) \in Key
  BY <1>2, KeysApart DEF LinksLead
<1> QED  BY <1>1, <1>2, <1>3, AllInForce, ValueInForce DEF Owner, Registration

\* The API over any storage, its requests interleaved at every await and cut off by
\* restarts: while nothing has expired, a link leads to a registered subdomain.
THEOREM LinksRegisteredHolds == Spec => []LinksRegistered
<1>1. Init => ApiInv /\ LinksLead
  BY InitHolds, KeysApart DEF Init, LinksLead, LongLived, Link
<1>2. ApiInv /\ LinksLead /\ [Next]_vars => (ApiInv /\ LinksLead)'
  BY StepKeepsApiInv, OtherKeepsApiInv, KeepsLinksLead DEF Next
<1> QED  BY <1>1, <1>2, LinksLeadSuffices, PTL DEF Spec

\* The same over Redis, where besides commands are refused, are lost with their
\* connection, or are carried out without an answer.
THEOREM RedisLinksRegistered == RedisSpec => []LinksRegistered
<1>1. RedisInit => ApiInv /\ LinksLead
  BY InitHolds, KeysApart DEF RedisInit, Init, LinksLead, LongLived, Link
<1>2. ApiInv /\ LinksLead /\ [RedisNext]_redisVars => (ApiInv /\ LinksLead)'
  <2>1. [RedisNext]_redisVars =>
           \/ \E r \in Req : Step(r) \/ Unheard(r)
           \/ \E r \in Req, j \in Job : Start(r, j)
           \/ \E r \in Req : Fail(r)
           \/ Restart
           \/ Tick
           \/ UNCHANGED vars
    BY DEF RedisNext, Begin, Reply, ErrorReply, Lose, Slip, Connects, Drops, RedisRestart,
           redisVars
  <2> QED  BY <2>1, StepKeepsApiInv, OtherKeepsApiInv, KeepsLinksLead
<1> QED  BY <1>1, <1>2, LinksLeadSuffices, PTL DEF RedisSpec
====
