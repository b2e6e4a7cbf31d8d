----------------------------- MODULE ShareRelay -----------------------------
(***************************************************************************)
(* The /share namespace (socket-server/ShareNamespace.ts): a host registers *)
(* a public key, clients connect to it, and the relay carries their frames *)
(* until one of the two ends the session or loses its connection.          *)
(*                                                                         *)
(* A handler runs to its end, so each is one action; it stands for the     *)
(* arrival of the client's message, however long that took.  A message the *)
(* handler answers with `share-error`, or drops because its session is     *)
(* gone, changes nothing here and is a stuttering step.  toHost and        *)
(* toClient log what the relay emitted, session by session: the frames to  *)
(* a client carry no session id, so the model speaks for clients that keep *)
(* to one session per connection.                                          *)
(***************************************************************************)
EXTENDS Integers, FiniteSets, Sequences

CONSTANTS
    Socket,      \* connections to the namespace, each used once
    PublicKey,
    Session,     \* session ids (randomUUID), each used once
    None,
    MaxStream    \* bound on the messages to one end of a session

ASSUME ShareAssumption ==
    /\ None \notin Socket \cup [host : Socket, client : Socket]
    /\ MaxStream \in Nat \ {0}

VARIABLES
    link,         \* "new", "up", "dead" (lost, not noticed yet), "gone"
    connectedUsers, \* the sockets ConnectedUsers.ts counts
    shareHosts,   \* public key -> the socket that registered it
    sessions,     \* session -> its host and client while it lasts
    parties,      \* history: session -> the host and client it was opened for
    endedBy,      \* history: session -> the socket that asked to end it
    toHost,       \* session -> messages emitted to its host
    toClient      \* session -> messages emitted to its client

shareVars == <<link, connectedUsers, shareHosts, sessions, parties, endedBy, toHost, toClient>>

Promise == INSTANCE ShareSessions WITH
    ends <- parties,
    over <- [id \in Session |-> parties[id] # None /\ sessions[id] = None],
    atHost <- toHost,
    atClient <- toClient

\* Mutant: event and payload are swapped.
MessageSwapped(event, payload) == [event |-> payload, payload |-> event]

\* What emit() sends.
Message(event, payload) == [event |-> event, payload |-> payload]

ShareInit ==
    /\ link           = [s \in Socket |-> "new"]
    /\ connectedUsers = {}
    /\ shareHosts     = [k \in PublicKey |-> None]
    /\ sessions       = [id \in Session |-> None]
    /\ parties        = [id \in Session |-> None]
    /\ endedBy        = [id \in Session |-> None]
    /\ toHost         = [id \in Session |-> <<>>]
    /\ toClient       = [id \in Session |-> <<>>]

Has(id) == sessions[id] # None

\* Only the two ends of a session were told its id.
Knows(s, id) == Has(id) /\ s \in {sessions[id].host, sessions[id].client}

Room(id) == Len(toHost[id]) < MaxStream /\ Len(toClient[id]) < MaxStream

-----------------------------------------------------------------------------
(* Connections *)

\* The middleware verifies the token, then the connection is counted.
Connect(s) ==
    /\ link[s] = "new"
    /\ link' = [link EXCEPT ![s] = "up"]
    /\ connectedUsers' = connectedUsers \cup {s}
    /\ UNCHANGED <<shareHosts, sessions, parties, endedBy, toHost, toClient>>

Refuse(s) ==
    /\ link[s] = "new"
    /\ link' = [link EXCEPT ![s] = "gone"]
    /\ UNCHANGED <<connectedUsers, shareHosts, sessions, parties, endedBy, toHost, toClient>>

\* The client or its network dies; the relay has not noticed.
Dies(s) ==
    /\ link[s] = "up"
    /\ link' = [link EXCEPT ![s] = "dead"]
    /\ UNCHANGED <<connectedUsers, shareHosts, sessions, parties, endedBy, toHost, toClient>>

-----------------------------------------------------------------------------
(* The handlers of share.on('connection') *)

ShareRegister(s, k) ==
    /\ link[s] = "up"
    /\ shareHosts[k] = None
    /\ shareHosts' = [shareHosts EXCEPT ![k] = s]
    /\ UNCHANGED <<link, connectedUsers, sessions, parties, endedBy, toHost, toClient>>

ShareConnect(s, k, id) ==
    LET session == [host |-> shareHosts[k], client |-> s]
    IN  /\ link[s] = "up"
        /\ shareHosts[k] # None
        /\ parties[id] = None
        /\ sessions' = [sessions EXCEPT ![id] = session]
        /\ parties' = [parties EXCEPT ![id] = session]
        /\ toHost' = [toHost EXCEPT ![id] = Append(@, Message("share-client", None))]
        /\ toClient' = [toClient EXCEPT ![id] = Append(@, Message("share-connected", None))]
        /\ UNCHANGED <<link, connectedUsers, shareHosts, endedBy>>

SessionStart(s, id) ==
    /\ link[s] = "up" /\ Knows(s, id) /\ Room(id)
    /\ toHost' = [toHost EXCEPT ![id] = Append(@, Message("share-session-start", None))]
    /\ UNCHANGED <<link, connectedUsers, shareHosts, sessions, parties, endedBy, toClient>>

\* Mutant: the wrong side of `session.host === socket`.
EmitToPeerSwapped(s, id, m) ==
    IF sessions[id].host = s
    THEN toHost' = [toHost EXCEPT ![id] = Append(@, m)] /\ UNCHANGED toClient
    ELSE toClient' = [toClient EXCEPT ![id] = Append(@, m)] /\ UNCHANGED toHost

\* What the host sends goes to the client, what anybody else sends to the host.
EmitToPeer(s, id, m) ==
    IF sessions[id].host = s
    THEN toClient' = [toClient EXCEPT ![id] = Append(@, m)] /\ UNCHANGED toHost
    ELSE toHost' = [toHost EXCEPT ![id] = Append(@, m)] /\ UNCHANGED toClient

ShareData(s, id) ==
    /\ link[s] = "up" /\ Knows(s, id) /\ Room(id)
    /\ EmitToPeer(s, id, Message("share-data", s))
    /\ UNCHANGED <<link, connectedUsers, shareHosts, sessions, parties, endedBy>>

ShareEnd(s, id) ==
    /\ link[s] = "up" /\ Knows(s, id)
    /\ sessions' = [sessions EXCEPT ![id] = None]
    /\ endedBy' = [endedBy EXCEPT ![id] = s]
    /\ EmitToPeer(s, id, Message("share-end", None))
    /\ UNCHANGED <<link, connectedUsers, shareHosts, parties>>

-----------------------------------------------------------------------------
(* The 'disconnect' closures of a socket: one per key it registered, one per *)
(* session it opened as client.                                              *)

\* Sessions the closures of share-register end: those s hosts, if it has a key.
Hosted(s) == {id \in Session : Has(id) /\ sessions[id].host = s
                               /\ \E k \in PublicKey : shareHosts[k] = s}

\* Sessions the closures of share-connect end.
Joined(s) == {id \in Session : Has(id) /\ sessions[id].client = s}

\* Mutant: the closure of share-register only frees the key.
ClosedByJoined(s) == Joined(s)

ClosedBy(s) == Hosted(s) \cup Joined(s)

\* Mutant: the key of a host that left stays taken.
KeyLeft(k, s) == shareHosts[k]

KeyAfter(k, s) == IF shareHosts[k] = s THEN None ELSE shareHosts[k]

\* Mutant: a host's disappearance is not told to its clients.
TellClientNever(s, id) == FALSE

\* An emit to s itself is lost, its connection is closed already.
TellClient(s, id) == id \in Hosted(s) /\ sessions[id].client # s

TellHost(s, id) == id \in Joined(s) /\ sessions[id].host # s

Disconnect(s) ==
    LET end(stream) == Append(stream, Message("share-end", None))
    IN  /\ link[s] \in {"up", "dead"}
        /\ link' = [link EXCEPT ![s] = "gone"]
        /\ connectedUsers' = connectedUsers \ {s}
        /\ shareHosts' = [k \in PublicKey |-> KeyAfter(k, s)]
        /\ sessions' = [id \in Session |-> IF id \in ClosedBy(s) THEN None ELSE sessions[id]]
        /\ toClient' = [id \in Session |->
              IF TellClient(s, id) THEN end(toClient[id]) ELSE toClient[id]]
        /\ toHost' = [id \in Session |->
              IF TellHost(s, id) THEN end(toHost[id]) ELSE toHost[id]]
        /\ UNCHANGED <<parties, endedBy>>

ShareNext ==
    \E s \in Socket :
        \/ Connect(s) \/ Refuse(s) \/ Dies(s) \/ Disconnect(s)
        \/ \E k \in PublicKey : ShareRegister(s, k)
        \/ \E k \in PublicKey, id \in Session : ShareConnect(s, k, id)
        \/ \E id \in Session : SessionStart(s, id) \/ ShareData(s, id) \/ ShareEnd(s, id)

ShareSpec == ShareInit /\ [][ShareNext]_shareVars

\* Engine.io's ping timeout finds a dead connection in the end.
ShareFairSpec ==
    ShareSpec /\ \A s \in Socket : WF_shareVars(link[s] = "dead" /\ Disconnect(s))

-----------------------------------------------------------------------------
(* Properties *)

Streams == Seq([event : {"share-client", "share-connected", "share-session-start",
                         "share-data", "share-end"},
                payload : Socket \cup {None}])

Pair == [host : Socket, client : Socket]

\* Type invariant of the namespace's two maps and of the emitted messages.
ShareTypeOK ==
    /\ link \in [Socket -> {"new", "up", "dead", "gone"}]
    /\ connectedUsers \in SUBSET Socket
    /\ shareHosts \in [PublicKey -> Socket \cup {None}]
    /\ sessions \in [Session -> Pair \cup {None}]
    /\ parties \in [Session -> Pair \cup {None}]
    /\ endedBy \in [Session -> Socket \cup {None}]
    /\ toHost \in [Session -> Streams]
    /\ toClient \in [Session -> Streams]

Open(s) == link[s] \in {"up", "dead"}

\* The two maps name connected sockets only, although nothing but the closures
\* of the handlers cleans them: whoever hosts a key or takes part in a session
\* is connected, and a session's host still holds the key that lets its
\* disconnect end the session.
PartiesConnected ==
    /\ \A k \in PublicKey : shareHosts[k] # None => Open(shareHosts[k])
    /\ \A id \in Session : Has(id) =>
          /\ Open(sessions[id].host) /\ Open(sessions[id].client)
          /\ \E k \in PublicKey : shareHosts[k] = sessions[id].host

\* Of a session that is over each end was told, unless it asked for the end
\* itself or has lost its connection too.
EndNotified ==
    LET told(stream) == stream # <<>> /\ stream[Len(stream)].event = "share-end"
        knows(p, stream, id) == told(stream) \/ endedBy[id] = p \/ link[p] = "gone"
    IN  \A id \in Session : parties[id] # None /\ ~Has(id) =>
            /\ knows(parties[id].host, toHost[id], id)
            /\ knows(parties[id].client, toClient[id], id)

\* Every session keeps the promise of ShareSessions: both ends are greeted
\* first, payload crosses over, and share-end is the last message, sent once,
\* although four different handlers can end a session.
SessionsKept == Promise!SessionsSpec

\* A key whose host died becomes free again, and a session one of whose ends
\* died comes to its end: the relay never waits for a dead socket for ever.
DeadLetGo ==
    /\ \A k \in PublicKey, s \in Socket :
          (shareHosts[k] = s /\ link[s] = "dead") ~> (shareHosts[k] # s)
    /\ \A id \in Session, s \in Socket :
          (Has(id) /\ s \in {sessions[id].host, sessions[id].client} /\ link[s] = "dead")
             ~> ~Has(id)
=============================================================================
