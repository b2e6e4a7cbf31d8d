----------------------------- MODULE TunnelRelay -----------------------------
(***************************************************************************)
(* The relay process: visitors' HTTP requests and WebSocket upgrades are   *)
(* forwarded over a socket of the tunnel's pool and the client's answer is *)
(* piped back.                                                             *)
(*                                                                         *)
(* socket-server/TunnelForwardRouter.ts and TunnelUpgradeMiddleware.ts     *)
(* start a request; http/TunnelRequest.ts and http/TunnelResponse.ts carry *)
(* it over the socket, whose events reach every request on that socket and *)
(* are told apart by the request id.  The registry is TunnelRegistry.      *)
(* What arrives from outside (the visitor, the tunnel client, the network) *)
(* may happen at any moment between two handlers.                          *)
(***************************************************************************)
EXTENDS TunnelRegistry

CONSTANTS
    Http,        \* HTTP requests, each used once
    Upgrade,     \* upgrade requests, each used once
    Ip,          \* visitor addresses that parse as IPv4
    MaxChunk     \* bound on the chunks of one answer

Request == Http \cup Upgrade

\* Rules are CIDR lists; a network is the set of addresses it contains.
ASSUME RelayAssumption ==
    /\ Http \cap Upgrade = {}
    /\ \A r \in Rules : /\ r.allowCidr \subseteq SUBSET Ip
                        /\ r.denyCidr \subseteq SUBSET Ip
    /\ Undefined \notin Ip \cup Socket \cup {"400", "403", "404", "500", "502", "answer"}
    /\ MaxChunk \in Nat

VARIABLES
    alive,      \* socket -> the client process at its other end still runs
    via,        \* request -> the socket it was forwarded over
    res,        \* the visitor's side: "new", "open", "ended" (end() called), "closed"
    status,     \* what was written as status line: a code, "answer" (the client's)
    buffer,     \* the chunks in the tunnel response that the pipe has not taken yet
    body,       \* what was written after the status line
    upload,     \* what the client was told of the upload: "open", "ended", "dropped"
    answer,     \* how far the client's answer came
    sent,       \* number of chunks the client sent
    listens,    \* request -> events of its socket it listens to
    counters    \* the gauges of stats/metrics.ts

relayVars == <<alive, via, res, status, buffer, body, upload, answer, sent, listens,
               counters>>
vars == <<registryVars, relayVars>>

RelayInit ==
    /\ RegistryInit
    /\ alive    = [s \in Socket |-> TRUE]
    /\ via      = [r \in Request |-> Undefined]
    /\ res      = [r \in Request |-> "new"]
    /\ status   = [r \in Request |-> Undefined]
    /\ buffer   = [r \in Request |-> <<>>]
    /\ body     = [r \in Request |-> <<>>]
    /\ upload   = [r \in Request |-> Undefined]
    /\ answer   = [r \in Request |-> "none"]
    /\ sent     = [r \in Request |-> 0]
    /\ listens  = [r \in Request |-> {}]
    /\ counters = [requestsInFlight |-> 0, websocketsOpen |-> 0]

-----------------------------------------------------------------------------
(* A visitor's request arrives *)

\* Deny wins; an empty allow list allows every address; an address that does
\* not parse (Undefined) is never admitted.
Admits(rules, ip) ==
    /\ ip # Undefined
    /\ \A net \in rules.denyCidr : ip \notin net
    /\ rules.allowCidr # {} => \E net \in rules.allowCidr : ip \in net

Gauge(r) == IF r \in Http THEN "requestsInFlight" ELSE "websocketsOpen"

\* The relay's own text "Tunnel disconnected"; the client's chunks count from 1.
Notice(r) == <<r, 0>>

\* The response is complete as soon as it is begun: nothing is forwarded.
AnswerAtOnce(r, code) ==
    /\ res' = [res EXCEPT ![r] = "ended"]
    /\ status' = [status EXCEPT ![r] = code]
    /\ UNCHANGED <<alive, via, buffer, body, upload, answer, sent, listens, counters>>

\* No x-tunnel-id header, or no pool under that id.
Reject(r, t) ==
    /\ res[r] = "new"
    /\ \/ t = Undefined /\ AnswerAtOnce(r, "400")
       \/ t \in Tunnel /\ ~Has(t) /\ AnswerAtOnce(r, "404")
    /\ UNCHANGED registryVars

\* The pool's turn is taken before the address is looked at.
Block(r, t, ip) ==
    /\ res[r] = "new"
    /\ Resolve(t) /\ ~Admits(cidrRules[t], ip)
    /\ AnswerAtOnce(r, "403")

\* createTunnelRequest emits 'request' and subscribes the response to the
\* socket's events; the disconnect listener is attached in the same turn.
Forward(r, t, ip) ==
    /\ res[r] = "new"
    /\ Resolve(t) /\ Admits(cidrRules[t], ip)
    /\ via' = [via EXCEPT ![r] = NextPick(t)]
    /\ res' = [res EXCEPT ![r] = "open"]
    /\ upload' = [upload EXCEPT ![r] = "open"]
    /\ listens' = [listens EXCEPT ![r] = {"response", "pipe", "disconnect"}]
    /\ counters' = [counters EXCEPT ![Gauge(r)] = @ + 1]
    /\ UNCHANGED <<alive, status, buffer, body, answer, sent>>

-----------------------------------------------------------------------------
(* The client's events *)

\* Mutant: the handlers do not compare the id.
HearsAnyId(q, event, r) == event \in listens[q] /\ via[q] = via[r]

\* The handlers of request q that an event with the id of r sets off.
Hears(q, event, r) == event \in listens[q] /\ via[q] = via[r] /\ q = r

\* The tunnel response of q is piped: that of an upgrade only once its head is
\* written, and none after end().
Flows(q) == res[q] = "open" /\ (q \in Upgrade => status[q] = "answer")

\* Node sends a head once: a code set after it went out changes nothing.
HeadOnWire(q, code) == IF status[q] = Undefined THEN code ELSE status[q]

Speaks(r) == via[r] # Undefined /\ conn[via[r]] = "open" /\ alive[via[r]]

\* Mutant: the listeners for the head stay.
HeadHeardAgain(q) == listens[q]

\* The listeners for 'response' and 'request-error' are taken off together.
HeadHeard(q) == listens[q] \ {"response"}

\* 'response': the head goes out.  An upgraded connection that was ended
\* before its head came is written after its end and is destroyed.
ClientResponse(r) ==
    /\ Speaks(r) /\ answer[r] = "none"
    /\ answer' = [answer EXCEPT ![r] = "head"]
    /\ LET hearers == {q \in Request : Hears(q, "response", r)}
           late    == {q \in hearers \cap Upgrade : res[q] = "ended"}
       IN  /\ status' = [q \in Request |->
                            IF q \in hearers /\ res[q] = "open" THEN "answer" ELSE status[q]]
           /\ res' = [q \in Request |-> IF q \in late THEN "closed" ELSE res[q]]
           /\ upload' = [q \in Request |->
                            IF q \in late /\ upload[q] = "open" THEN "dropped" ELSE upload[q]]
           /\ listens' = [q \in Request |->
                            IF q \in late THEN {}
                            ELSE IF q \in hearers THEN HeadHeard(q)
                            ELSE listens[q]]
           /\ counters' = [counters EXCEPT !["websocketsOpen"] = @ - Cardinality(late)]
    /\ UNCHANGED <<registryVars, alive, via, buffer, body, sent>>

\* 'response-pipe': the chunk waits in the tunnel response until the pipe takes
\* it.  What is pushed there for a visitor that is gone nobody reads.
ClientPipe(r) ==
    /\ Speaks(r) /\ answer[r] = "head" /\ sent[r] < MaxChunk
    /\ sent' = [sent EXCEPT ![r] = @ + 1]
    /\ buffer' = [q \in Request |->
                     IF Hears(q, "pipe", r) /\ res[q] = "open"
                     THEN Append(buffer[q], <<r, sent[r] + 1>>) ELSE buffer[q]]
    /\ UNCHANGED <<registryVars, alive, via, res, status, body, upload, answer, listens,
                   counters>>

\* Mutant: the listener for 'response' and 'request-error' stays.
CleanedPipesOnly(q) == listens[q] \ {"pipe"}

\* Mutant: nothing is cleaned up.
NotCleaned(q) == listens[q]

\* cleanup() of the tunnel response of q.
Cleaned(q) == listens[q] \ {"response", "pipe"}

\* cleanup() of the requests that hear the end of an answer.
AnswerStops(r, event) ==
    /\ listens' = [q \in Request |->
                      IF Hears(q, event, r) THEN Cleaned(q) ELSE listens[q]]
    /\ UNCHANGED <<registryVars, alive, via, body, upload, sent, counters>>

\* 'response-pipe-end': the end queues behind the chunks (PipeEnds).
ClientEnd(r) ==
    /\ Speaks(r) /\ answer[r] = "head"
    /\ answer' = [answer EXCEPT ![r] = "end"]
    /\ AnswerStops(r, "pipe")
    /\ UNCHANGED <<res, status, buffer>>

\* 'response-pipe-error': the tunnel response is destroyed with what waits in it,
\* its _destroy completes without an error, and a pipe does not end its
\* destination when the source only closes.
ClientPipeError(r) ==
    /\ Speaks(r) /\ answer[r] = "head"
    /\ answer' = [answer EXCEPT ![r] = "pipe-error"]
    /\ AnswerStops(r, "pipe")
    /\ buffer' = [q \in Request |-> IF Hears(q, "pipe", r) THEN <<>> ELSE buffer[q]]
    /\ UNCHANGED <<res, status>>

\* 'request-error': a 502 to an HTTP visitor, the end of an upgrade.
ClientRequestError(r) ==
    /\ Speaks(r) /\ answer[r] = "none"
    /\ answer' = [answer EXCEPT ![r] = "request-error"]
    /\ AnswerStops(r, "response")
    /\ LET failed == {q \in Request : Hears(q, "response", r) /\ res[q] = "open"}
       IN  /\ res' = [q \in Request |-> IF q \in failed THEN "ended" ELSE res[q]]
           /\ status' = [q \in Request |->
                            IF q \in failed \cap Http THEN HeadOnWire(q, "502") ELSE status[q]]
    /\ UNCHANGED buffer

-----------------------------------------------------------------------------
(* The visitor's side *)

\* The pipe hands a chunk on.  A visitor that reads slowly pauses it at any time.
PipeFlows(r) ==
    /\ Flows(r) /\ buffer[r] # <<>>
    /\ body' = [body EXCEPT ![r] = Append(@, Head(buffer[r]))]
    /\ buffer' = [buffer EXCEPT ![r] = Tail(@)]
    /\ UNCHANGED <<registryVars, alive, via, res, status, upload, answer, sent, listens,
                   counters>>

\* The pipe has come to the end of the answer and ends the visitor's side.
PipeEnds(r) ==
    /\ Flows(r) /\ buffer[r] = <<>> /\ answer[r] = "end"
    /\ res' = [res EXCEPT ![r] = "ended"]
    /\ UNCHANGED <<registryVars, alive, via, status, buffer, body, upload, answer, sent,
                   listens, counters>>

\* Mutant: the disconnect listener of a closed HTTP response stays.
UnsubscribedNot(r) == IF r \in Upgrade THEN {} ELSE listens[r]

\* The close handlers take off the disconnect listener; that of an upgrade
\* destroys the tunnel response, and with it every listener.
Unsubscribed(r) == IF r \in Upgrade THEN {} ELSE listens[r] \ {"disconnect"}

\* Mutant: an upgrade counts down the gauge of the requests.
CountedDownMixed(r) ==
    IF via[r] # Undefined THEN [counters EXCEPT !["requestsInFlight"] = @ - 1] ELSE counters

\* Only what was counted up has the handler that counts down.
CountedDown(r) ==
    IF via[r] # Undefined THEN [counters EXCEPT ![Gauge(r)] = @ - 1] ELSE counters

Closes(r) ==
    /\ res' = [res EXCEPT ![r] = "closed"]
    /\ listens' = [listens EXCEPT ![r] = Unsubscribed(r)]
    /\ counters' = CountedDown(r)
    /\ buffer' = [buffer EXCEPT ![r] = <<>>]
    /\ UNCHANGED <<registryVars, alive, via, status, body, answer, sent>>

\* What was ended is flushed.  An upgraded connection is closed when the other
\* end has ended too, which ends the upload.
Flushed(r) ==
    /\ res[r] = "ended"
    /\ Closes(r)
    /\ upload' = [upload EXCEPT ![r] = IF r \in Upgrade /\ @ = "open" THEN "ended" ELSE @]

\* The visitor's last byte arrives: 'request-pipe-end'.
UploadEnd(r) ==
    /\ upload[r] = "open"
    /\ upload' = [upload EXCEPT ![r] = "ended"]
    /\ UNCHANGED <<registryVars, alive, via, res, status, buffer, body, answer, sent, listens,
                   counters>>

\* The connection of an HTTP request breaks.  'aborted' carries no error, so
\* an upload under way is destroyed without a word to the client.
VisitorLeaves(r) ==
    /\ r \in Http
    /\ \/ res[r] \in {"open", "ended"} /\ Closes(r)
       \/ /\ res[r] = "closed" /\ upload[r] = "open"
          /\ UNCHANGED <<registryVars, alive, via, res, status, buffer, body, answer, sent,
                         listens, counters>>
    /\ upload' = [upload EXCEPT ![r] = IF @ = "open" THEN "dropped" ELSE @]

\* engine.io ends an upgraded connection it does not own when nothing was
\* written to it for a second.
UpgradeTimeout(r) ==
    /\ r \in Upgrade /\ res[r] = "open" /\ status[r] = Undefined
    /\ res' = [res EXCEPT ![r] = "ended"]
    /\ UNCHANGED <<registryVars, alive, via, status, buffer, body, upload, answer, sent,
                   listens, counters>>

-----------------------------------------------------------------------------
(* The tunnel's side *)

ClientConnects(s, h) == Connect(s, h) /\ UNCHANGED relayVars

\* The client process stops or its network does: nothing more arrives.
ClientDies(s) ==
    /\ conn[s] = "open" /\ alive[s]
    /\ alive' = [alive EXCEPT ![s] = FALSE]
    /\ UNCHANGED <<registryVars, via, res, status, buffer, body, upload, answer, sent,
                   listens, counters>>

\* The requests over s that still listen for its disconnect.
Hit(s) == {r \in Request : via[r] = s /\ "disconnect" \in listens[r]}

\* Mutant: only HTTP visitors are ended.
FailingHttp(s) == {r \in Hit(s) \cap Http : res[r] = "open"}

\* Mutant: a response whose head is out is left to the client.
FailingHeadless(s) == {r \in Hit(s) : res[r] = "open" /\ status[r] = Undefined}

\* Those whose visitor's side is not ended yet are ended now.
Failing(s) == {r \in Hit(s) : res[r] = "open"}

\* The socket disconnects (the client closes it, or its heartbeat is missed):
\* the registry lets it go and every request over it is ended, the HTTP ones
\* with a text that lands in the body of a response already under way.  What
\* still waits for the pipe comes too late for a side that is ended.
SocketDisconnects(s) ==
    /\ Disconnect(s)
    /\ res' = [r \in Request |-> IF r \in Failing(s) THEN "ended" ELSE res[r]]
    /\ status' = [r \in Request |->
                     IF r \in Failing(s) \cap Http THEN HeadOnWire(r, "500") ELSE status[r]]
    /\ body' = [r \in Request |->
                   IF r \in Failing(s) \cap Http THEN Append(body[r], Notice(r)) ELSE body[r]]
    /\ buffer' = [r \in Request |-> IF r \in Failing(s) THEN <<>> ELSE buffer[r]]
    /\ listens' = [r \in Request |->
                      IF r \in Hit(s) THEN listens[r] \ {"disconnect"} ELSE listens[r]]
    /\ UNCHANGED <<alive, via, upload, answer, sent, counters>>

\* The relay process ends (an error on an upgraded connection is nobody's to
\* handle, or the daemon stops it) and starts again with nothing.
Crash ==
    /\ \E s \in Socket : conn[s] = "open"
    /\ conn' = [s \in Socket |-> IF conn[s] = "open" THEN "closed" ELSE conn[s]]
    /\ pools' = [t \in Tunnel |-> Undefined]
    /\ index' = [t \in Tunnel |-> 0]
    /\ cidrRules' = [t \in Tunnel |-> Undefined]
    /\ targetHosts' = [t \in Tunnel |-> Undefined]
    /\ bySocket' = [s \in Socket |-> Undefined]
    /\ res' = [r \in Request |-> IF res[r] = "new" THEN "new" ELSE "closed"]
    /\ buffer' = [r \in Request |-> <<>>]
    /\ upload' = [r \in Request |-> IF upload[r] = "open" THEN "dropped" ELSE upload[r]]
    /\ listens' = [r \in Request |-> {}]
    /\ counters' = [requestsInFlight |-> 0, websocketsOpen |-> 0]
    /\ UNCHANGED <<handshake, alive, via, status, body, answer, sent>>

-----------------------------------------------------------------------------
ClientStep(r) ==
    ClientResponse(r) \/ ClientPipe(r) \/ ClientEnd(r) \/ ClientPipeError(r)
        \/ ClientRequestError(r)

RelayNext ==
    \/ \E r \in Request, t \in Tunnel \cup {Undefined} : Reject(r, t)
    \/ \E r \in Request, t \in Tunnel, ip \in Ip \cup {Undefined} :
          Block(r, t, ip) \/ Forward(r, t, ip)
    \/ \E r \in Request : ClientStep(r)
    \/ \E r \in Request :
          \/ PipeFlows(r) \/ PipeEnds(r) \/ Flushed(r)
          \/ UploadEnd(r) \/ VisitorLeaves(r) \/ UpgradeTimeout(r)
    \/ \E s \in Socket, h \in Handshake : ClientConnects(s, h)
    \/ \E s \in Socket : ClientDies(s) \/ SocketDisconnects(s)
    \/ Crash

RelaySpec == RelayInit /\ [][RelayNext]_vars

\* A client that runs answers once it has the whole request; a client that does
\* not is missed by the heartbeat; a visitor sends its request to the end or is
\* cut off (Node's requestTimeout); a visitor takes what it is sent, so the pipe
\* goes on and what was ended is flushed.
RelayFairness ==
    /\ \A r \in Request : WF_vars(ClientStep(r) /\ upload[r] = "ended" /\ r \in Http)
    /\ \A s \in Socket : WF_vars(SocketDisconnects(s) /\ ~alive[s])
    /\ \A r \in Http : WF_vars(upload[r] = "open" /\ (UploadEnd(r) \/ VisitorLeaves(r)))
    /\ \A r \in Request : WF_vars(PipeFlows(r) \/ PipeEnds(r)) /\ WF_vars(Flushed(r))

RelayFairSpec == RelaySpec /\ RelayFairness

-----------------------------------------------------------------------------
(* Properties *)

Forwarded(r) == via[r] # Undefined

\* A visitor is never left waiting on a socket that is gone: while its side is
\* open the socket it was forwarded over is connected, and it listens for that
\* socket's disconnect; once its side is closed it holds no disconnect listener.
NoOrphan ==
    \A r \in Request :
        /\ res[r] = "open" => conn[via[r]] = "open" /\ "disconnect" \in listens[r]
        /\ res[r] = "closed" => "disconnect" \notin listens[r]

\* The body is the chunks of the visitor's own answer, after its head, in their
\* order and without a gap, whatever else travels over the same socket, and at
\* most the relay's notice after them, when the socket has disconnected.  A body
\* that is ended is whole, however slowly it was piped, unless the socket
\* disconnected first: then an HTTP visitor is told by the notice, even where
\* the client had ended the answer.
BodyFaithful ==
    \A r \in Request :
        LET n     == Cardinality({i \in DOMAIN body[r] : body[r][i] # Notice(r)})
            whole == answer[r] = "end" /\ n = sent[r]
        IN  /\ \A i \in 1 .. n : body[r][i] = <<r, i>>
            /\ n > 0 => status[r] = "answer"
            /\ n <= sent[r] /\ Len(body[r]) - n <= 1
            /\ Len(body[r]) > n => r \in Http /\ conn[via[r]] = "closed"
            /\ res[r] = "ended" /\ status[r] = "answer" =>
                  \/ whole
                  \/ IF r \in Http THEN Len(body[r]) > n ELSE conn[via[r]] = "closed"

\* An HTTP response has one head: once it has one, whether from the answer, the
\* client's error or the disconnect, it hears neither an answer nor an error on a
\* socket that can still bring them, so no second head is written (which throws
\* and ends the relay) and no text of an error lands in a body.
HeadOnce ==
    \A r \in Http :
        status[r] # Undefined /\ "response" \in listens[r] => conn[via[r]] = "closed"

\* The gauges count the forwarded requests whose visitor's side is not closed:
\* every request is counted up and down once, whatever ends it.
GaugesExact ==
    LET current(R) == {r \in R : Forwarded(r) /\ res[r] \in {"open", "ended"}}
    IN  /\ counters["requestsInFlight"] = Cardinality(current(Http))
        /\ counters["websocketsOpen"] = Cardinality(current(Upgrade))

\* A tunnel response listens to its socket no longer than the answer lasts, and
\* that of a closed upgrade to nothing.
ListenersReleased ==
    \A r \in Request :
        /\ answer[r] \in {"end", "pipe-error", "request-error"} =>
              listens[r] \subseteq {"disconnect"}
        /\ res[r] = "closed" /\ r \in Upgrade => listens[r] = {}

\* Every HTTP visitor is answered in the end, by the client or by the relay,
\* unless the client breaks its answer off in the middle (ClientPipeError).
EveryVisitorAnswered ==
    \A r \in Http : res[r] = "open" ~> res[r] = "closed" \/ answer[r] = "pipe-error"

\* Whatever the client does, a request over a socket that disconnected closes.
DisconnectCloses ==
    \A r \in Request :
        Forwarded(r) /\ conn[via[r]] = "closed" ~> res[r] = "closed"

\* The listeners of an answered or abandoned request go, too, unless the visitor
\* left in the middle of its upload: then the client waits for the rest of it.
ListenersGo ==
    \A r \in Http :
        res[r] = "closed" /\ Forwarded(r) /\ upload[r] # "dropped"
            ~> "pipe" \notin listens[r] \/ conn[via[r]] = "closed"

\* What the changelog says of the CIDR rules: requests "from IPs not matching the
\* rules are blocked"; so a tunnel without rules blocks nobody.
UnfilteredAdmitsAll ==
    [][\A r \in Request, t \in Tunnel :
          status'[r] = "403" /\ status[r] # "403" /\ index'[t] # index[t]
              => cidrRules[t] # [allowCidr |-> {}, denyCidr |-> {}]]_vars
=============================================================================
