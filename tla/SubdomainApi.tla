---------------------------- MODULE SubdomainApi ----------------------------
(***************************************************************************)
(* The API process: who owns a subdomain.  RenewSubdomainController.ts     *)
(* renews and creates registrations in a key-value storage that is either  *)
(* the process's own memory (InMemoryStorage.ts) or Redis (Redis.ts).      *)
(*                                                                         *)
(* Every await of a controller is a step of its own.  With the in-memory   *)
(* storage the promises are resolved already, so a request runs to its end *)
(* before the next one starts; the clock goes on meanwhile, and each call  *)
(* of the storage reads it anew.  With Redis the requests interleave at    *)
(* every await, and the storage outlives the process; RedisStorage adds    *)
(* the connection and the commands that fail.                              *)
(***************************************************************************)
EXTENDS Integers, FiniteSets

CONSTANTS
    Req,         \* API requests, each used once
    Subdomain,   \* tunnel ids
    AuthToken,   \* tokens of registered clients
    Anonymous,   \* scoped.ts: the empty token of a request without one
    Hash,        \* SHA-256 hashes of targets and profiles
    Undefined,
    Shared,      \* TRUE: Redis, FALSE: InMemoryStorage
    Ttl,         \* life of an entry (DEF_TIME_MONTHS_IN_SECONDS)
    MaxRun,      \* bound on the time a request over the in-memory storage takes
    MaxClock     \* bound on the clock

Owners == AuthToken \cup {Anonymous}

\* What the storage keeps under a key.
Entry == [value : Subdomain \cup Owners, expiresAt : Nat]

ASSUME ApiAssumption ==
    /\ Anonymous \notin AuthToken
    /\ Undefined \notin Subdomain \cup Owners \cup Hash \cup Entry
    /\ Shared \in BOOLEAN
    /\ Ttl \in Nat \ {0} /\ MaxClock \in Nat
    /\ MaxRun \in Nat /\ MaxRun <= Ttl

\* RegisteredSubdomains.ts: domains/<s> and domains-by-token/<token>/<kind>/<hash>
DomainKey(s) == <<"domains", s>>
LinkKey(token, kind, hash) == <<"domains-by-token", token, kind, hash>>
Key == {DomainKey(s) : s \in Subdomain}
          \cup {LinkKey(a, k, h) : a \in Owners, k \in {"target", "profile"}, h \in Hash}

\* What a request asks for.  A create needs a token (securedMiddleware), a renew
\* names a subdomain; of a renew without a tunnel id nothing else is read.
Renew  == [kind   : {"renew"}, subdomain : Subdomain, token : Owners,
           target : Hash \cup {Undefined}, profile : Hash \cup {Undefined}]
Create == [kind   : {"create"}, subdomain : {Undefined}, token : AuthToken,
           target : Hash \cup {Undefined}, profile : Hash \cup {Undefined}]
NoTunnelId == [kind |-> "renew", subdomain |-> Undefined, token |-> Anonymous,
               target |-> Undefined, profile |-> Undefined]
Job == Renew \cup Create \cup {NoTunnelId}

VARIABLES
    store,   \* key -> entry or Undefined
    clock,   \* Date.now()
    began,   \* when the request over the in-memory storage started; 0 over Redis
    pc,      \* request -> the storage call it awaits, or how it was answered
    job,     \* request -> what it asked for
    sub,     \* request -> the subdomain it settled on
    taken    \* history: subdomains a client lost to another one while registered

vars == <<store, clock, began, pc, job, sub, taken>>

\* "unheard" awaits a reply that never comes (RedisStorage).
Awaiting == {"getOwner", "lookupProfile", "lookupTarget", "register", "linkTarget",
             "linkProfile", "unheard"}

InFlight(r) == pc[r] \in Awaiting

Init ==
    /\ store = [k \in Key |-> Undefined]
    /\ clock = 0
    /\ began = 0
    /\ pc    = [r \in Req |-> "new"]
    /\ job   = [r \in Req |-> Undefined]
    /\ sub   = [r \in Req |-> Undefined]
    /\ taken = {}

-----------------------------------------------------------------------------
(* The storage *)

Value(k) ==
    IF store[k] # Undefined /\ clock <= store[k].expiresAt THEN store[k].value ELSE Undefined

\* get() forgets an entry it finds expired.
Get(k) == store' = IF Value(k) = Undefined THEN [store EXCEPT ![k] = Undefined] ELSE store

Set(k, v) == store' = [store EXCEPT ![k] = [value |-> v, expiresAt |-> clock + Ttl]]

Owner(s) == Value(DomainKey(s))

Goto(r, label) == pc' = [pc EXCEPT ![r] = label]

-----------------------------------------------------------------------------
(* renewSubdomainController and createSubdomainController *)

\* The storage calls after the registration, in their order.
AfterRegister(j) ==
    IF j.target # Undefined THEN "linkTarget"
    ELSE IF j.profile # Undefined THEN "linkProfile" ELSE "ok"

AfterLinkTarget(j) == IF j.profile # Undefined THEN "linkProfile" ELSE "ok"

\* generateTunnelId: 128 random bits, so an id nobody has used.
Fresh(s) == \A r \in Req : sub[r] # s

\* The create registers what it found, or a generated id when it found nothing
\* and looks no further.
Settle(r, found) ==
    /\ \E s \in Subdomain :
          /\ IF found # Undefined THEN s = found ELSE Fresh(s)
          /\ sub' = [sub EXCEPT ![r] = s]
    /\ Goto(r, "register")

Start(r, j) ==
    /\ pc[r] = "new"
    /\ Shared \/ \A q \in Req : ~InFlight(q)
    /\ job' = [job EXCEPT ![r] = j]
    /\ IF j.kind = "renew"
       THEN /\ sub' = [sub EXCEPT ![r] = j.subdomain]
            /\ Goto(r, IF j.subdomain = Undefined THEN "refused" ELSE "getOwner")
       ELSE \/ j.profile # Undefined /\ Goto(r, "lookupProfile") /\ UNCHANGED sub
            \/ /\ j.profile = Undefined /\ j.target # Undefined
               /\ Goto(r, "lookupTarget") /\ UNCHANGED sub
            \/ j.profile = Undefined /\ j.target = Undefined /\ Settle(r, Undefined)
    /\ began' = IF Shared THEN 0 ELSE clock
    /\ UNCHANGED <<store, clock, taken>>

\* Mutant: a registered subdomain is refused to nobody.
MayRenewAny(token, owner) == TRUE

\* `token && token !== authToken`: no owner, and the empty one, refuse nobody.
MayRenew(token, owner) == owner \in {Undefined, Anonymous, token}

GetOwner(r) ==
    /\ pc[r] = "getOwner"
    /\ Get(DomainKey(sub[r]))
    /\ Goto(r, IF MayRenew(job[r].token, Owner(sub[r])) THEN "register" ELSE "refused")
    /\ UNCHANGED <<clock, began, job, sub, taken>>

LookupProfile(r) ==
    LET key == LinkKey(job[r].token, "profile", job[r].profile)
    IN  /\ pc[r] = "lookupProfile"
        /\ Get(key)
        /\ IF Value(key) = Undefined /\ job[r].target # Undefined
           THEN Goto(r, "lookupTarget") /\ UNCHANGED sub
           ELSE Settle(r, Value(key))
        /\ UNCHANGED <<clock, began, job, taken>>

LookupTarget(r) ==
    LET key == LinkKey(job[r].token, "target", job[r].target)
    IN  /\ pc[r] = "lookupTarget"
        /\ Get(key)
        /\ Settle(r, Value(key))
        /\ UNCHANGED <<clock, began, job, taken>>

\* Whoever owned the subdomain is overwritten.
PutRegistration(r) ==
    /\ Set(DomainKey(sub[r]), job[r].token)
    /\ taken' = IF Owner(sub[r]) \in AuthToken \ {job[r].token}
                THEN taken \cup {sub[r]} ELSE taken

\* Mutant: a request whose registration failed goes on to its links.
RegisterBestEffort(r) ==
    /\ pc[r] = "register"
    /\ \/ PutRegistration(r)
       \/ Shared /\ UNCHANGED <<store, taken>>
    /\ Goto(r, AfterRegister(job[r]))
    /\ UNCHANGED <<clock, began, job, sub>>

\* Mutant: a registration that is in force is not refreshed.
RegisterOnce(r) ==
    /\ pc[r] = "register"
    /\ IF Owner(sub[r]) = job[r].token THEN UNCHANGED <<store, taken>> ELSE PutRegistration(r)
    /\ Goto(r, AfterRegister(job[r]))
    /\ UNCHANGED <<clock, began, job, sub>>

Register(r) ==
    /\ pc[r] = "register"
    /\ PutRegistration(r)
    /\ Goto(r, AfterRegister(job[r]))
    /\ UNCHANGED <<clock, began, job, sub>>

LinkTarget(r) ==
    /\ pc[r] = "linkTarget"
    /\ Set(LinkKey(job[r].token, "target", job[r].target), sub[r])
    /\ Goto(r, AfterLinkTarget(job[r]))
    /\ UNCHANGED <<clock, began, job, sub, taken>>

\* Mutant: the profile's link is written under the key of the targets.
LinkProfileAsTarget(r) ==
    /\ pc[r] = "linkProfile"
    /\ Set(LinkKey(job[r].token, "target", job[r].profile), sub[r])
    /\ Goto(r, "ok")
    /\ UNCHANGED <<clock, began, job, sub, taken>>

LinkProfile(r) ==
    /\ pc[r] = "linkProfile"
    /\ Set(LinkKey(job[r].token, "profile", job[r].profile), sub[r])
    /\ Goto(r, "ok")
    /\ UNCHANGED <<clock, began, job, sub, taken>>

\* The API process ends and is started again: requests are forgotten, and with
\* them everything the process kept in its own memory.
Restart ==
    /\ \E r \in Req : pc[r] \notin {"new", "past"}
    /\ pc' = [r \in Req |-> IF pc[r] = "new" THEN "new" ELSE "past"]
    /\ job' = [r \in Req |-> Undefined]
    /\ store' = IF Shared THEN store ELSE [k \in Key |-> Undefined]
    /\ taken' = IF Shared THEN taken ELSE {}
    /\ UNCHANGED <<clock, began, sub>>

\* Time passes, between the storage calls of one request too; a request that
\* never waits for anything is over within MaxRun.
Tick ==
    /\ clock < MaxClock
    /\ Shared \/ (\A r \in Req : ~InFlight(r)) \/ clock < began + MaxRun
    /\ clock' = clock + 1
    /\ UNCHANGED <<store, began, pc, job, sub, taken>>

Step(r) ==
    GetOwner(r) \/ LookupProfile(r) \/ LookupTarget(r) \/ Register(r) \/ LinkTarget(r)
        \/ LinkProfile(r)

Next ==
    \/ \E r \in Req : (\E j \in Job : Start(r, j)) \/ Step(r)
    \/ Restart
    \/ Tick

Spec == Init /\ [][Next]_vars

-----------------------------------------------------------------------------
(* Properties *)

\* A subdomain that is registered to a client stays that client's until the
\* registration expires: a renewal with another token never displaces it, and a
\* create hands out what belongs to somebody else only where its own link outlived
\* the registration it was made with, which is over 2 * MaxRun after the other
\* client's registration was last written.  A client that has lost its subdomain
\* in this way still has its links, and its next create takes the subdomain back
\* at any time: of those in taken, only what renewals do is said.
OwnerKept ==
    [][\A s \in Subdomain :
          Owner(s) \in AuthToken /\ Owner(s)' \notin {Owner(s), Undefined} =>
              /\ \E r \in Req : pc[r] = "register" /\ sub[r] = s /\ job[r].kind = "create"
              /\ s \in taken \/ clock + Ttl < store[DomainKey(s)].expiresAt + 2 * MaxRun]_vars

\* The link a client's create follows leads to a subdomain of that client, so
\* that the unconditional registration of a create displaces nobody: links are
\* written after the registration and may outlive it, but only by the time one
\* request takes.
LinksOwned ==
    \A a \in AuthToken, k \in {"target", "profile"}, h \in Hash :
        LET key == LinkKey(a, k, h)
        IN  Value(key) # Undefined =>
                \/ Owner(Value(key)) = a
                \/ store[key].expiresAt < clock + MaxRun
                \/ Value(key) \in taken

\* A request that is answered with success finds what it asked for stored, the
\* registration and both links.
SuccessIsStored ==
    [][\A r \in Req : pc[r] \in Awaiting /\ pc'[r] = "ok" =>
          LET j == job[r]
              linked(kind, hash) ==
                  hash # Undefined => Value(LinkKey(j.token, kind, hash))' = sub[r]
          IN  /\ Owner(sub[r])' = j.token
              /\ linked("target", j.target) /\ linked("profile", j.profile)]_vars

\* Creating twice with one token and one profile hash gives one subdomain, while
\* nothing has expired and no renewal gave the profile another one.
CreateReuses ==
    \A q, r \in Req :
        /\ pc[q] = "ok" /\ pc[r] = "ok" /\ clock <= Ttl
        /\ job[q].kind = "create" /\ job[r].kind = "create"
        /\ job[q].token = job[r].token
        /\ job[q].profile = job[r].profile /\ job[q].profile # Undefined
        /\ \A p \in Req : pc[p] \notin {"new", "past"} /\ job[p].token = job[q].token
                            => job[p].kind = "create"
        => sub[q] = sub[r]

\* However requests interleave, fail half way or are cut off by a restart, a link
\* leads to a registered subdomain as long as nothing has expired.
LinksRegistered ==
    clock <= Ttl =>
        \A a \in Owners, k \in {"target", "profile"}, h \in Hash :
            LET s == Value(LinkKey(a, k, h)) IN s # Undefined => Owner(s) # Undefined
=============================================================================
