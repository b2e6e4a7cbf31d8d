-------------------------- MODULE TunnelRelayProofs --------------------------
(***************************************************************************)
(* Theorems about TunnelRelay, for every pool of sockets, every set of     *)
(* HTTP requests and upgrades over them, every length of an answer and     *)
(* every order of the client's, the visitors' and the network's events.    *)
(***************************************************************************)
EXTENDS TunnelRelay, TunnelRegistryProofs, SequenceTheorems, FiniteSetTheorems

(* The inductive invariant, request by request *)

\* What the invariants of the relay's own variables take for granted.
RelayTypeOK ==
    /\ alive \in [Socket -> BOOLEAN]
    /\ via \in [Request -> Socket \cup {Undefined}]
    /\ res \in [Request -> {"new", "open", "ended", "closed"}]
    /\ status \in [Request -> {"400", "403", "404", "500", "502", "answer", Undefined}]
    /\ buffer \in [Request -> Seq(Request \X Nat)]
    /\ body \in [Request -> Seq(Request \X Nat)]
    /\ upload \in [Request -> {"open", "ended", "dropped", Undefined}]
    /\ answer \in [Request ->
                      {"none", "head", "end", "pipe-error", "request-error"}]
    /\ sent \in [Request -> 0 .. MaxChunk]
    /\ listens \in [Request -> SUBSET {"response", "pipe", "disconnect"}]
    /\ counters \in [{"requestsInFlight", "websocketsOpen"} -> Int]

\* A request that was not forwarded is in nobody's hands; one that was went over
\* a socket that had connected.
Untold(r) ==
    /\ res[r] = "new" => via[r] = Undefined /\ status[r] = Undefined
    /\ via[r] = Undefined =>
          /\ res[r] # "open" /\ answer[r] = "none" /\ listens[r] = {}
          /\ buffer[r] = <<>> /\ body[r] = <<>> /\ sent[r] = 0
    /\ via[r] # Undefined => conn[via[r]] # "new"

\* The first n chunks of the answer to r.
Stream(r, n) == [i \in 1 .. n |-> <<r, i>>]

\* Those after the first n, up to the last of m.
Waiting(r, n, m) == [i \in 1 .. m - n |-> <<r, n + i>>]

\* While the visitor's side is open the relay listens for all that can still
\* come, and what came is in the body or waits for the pipe; but an answer that
\* was broken off has lost what waited.
KeptUp(r) ==
    res[r] = "open" =>
        /\ conn[via[r]] = "open" /\ "disconnect" \in listens[r]
        /\ \E n \in 0 .. sent[r] :
              /\ body[r] = Stream(r, n)
              /\ answer[r] # "pipe-error" => buffer[r] = Waiting(r, n, sent[r])
        /\ \/ answer[r] = "none" /\ status[r] = Undefined /\ {"response", "pipe"} \subseteq listens[r]
           \/ answer[r] = "head" /\ status[r] = "answer" /\ "pipe" \in listens[r]
           \/ answer[r] = "end" /\ status[r] = "answer"
           \/ answer[r] = "pipe-error" /\ status[r] = "answer" /\ buffer[r] = <<>>

\* Once it is ended the answer is over, the socket is gone, or it is an upgrade
\* that timed out and whose head would close it.
NothingMore(r) ==
    res[r] = "ended" /\ via[r] # Undefined =>
        \/ conn[via[r]] = "closed"
        \/ answer[r] \in {"end", "request-error"}
        \/ r \in Upgrade /\ answer[r] = "none" /\ "response" \in listens[r]

\* The listeners of a tunnel response are taken off as its answer proceeds, two
\* at a time; the disconnect listener goes with the visitor's side.
ListenersFollow(r) ==
    /\ answer[r] = "none" => ("response" \in listens[r] <=> "pipe" \in listens[r])
    /\ answer[r] # "none" => "response" \notin listens[r]
    /\ answer[r] \in {"end", "pipe-error", "request-error"} => "pipe" \notin listens[r]
    /\ res[r] = "closed" => "disconnect" \notin listens[r]
    /\ res[r] = "closed" /\ r \in Upgrade => listens[r] = {}

\* An HTTP request has one head.
OneHead(r) ==
    r \in Http /\ status[r] # Undefined /\ "response" \in listens[r] => conn[via[r]] = "closed"

\* The relay's notice comes after the first n chunks, of HTTP and once the socket
\* is gone.
Noticed(r, n) ==
    /\ r \in Http /\ via[r] # Undefined /\ conn[via[r]] = "closed"
    /\ body[r] = Append(Stream(r, n), Notice(r))

\* What reached the visitor is the first chunks of the answer, and after them at
\* most the notice; an ended body is whole, or the socket is gone.
Prefix(r) ==
    \E n \in 0 .. sent[r] :
        /\ body[r] = Stream(r, n) \/ Noticed(r, n)
        /\ n > 0 => status[r] = "answer"
        /\ res[r] = "ended" /\ status[r] = "answer" =>
              \/ answer[r] = "end" /\ n = sent[r]
              \/ Noticed(r, n)
              \/ r \in Upgrade /\ via[r] # Undefined /\ conn[via[r]] = "closed"

\* An answer has chunks only after its head.
SentAfterHead(r) == answer[r] = "none" => sent[r] = 0

RequestInv(r) ==
    /\ Untold(r) /\ KeptUp(r) /\ NothingMore(r) /\ ListenersFollow(r)
    /\ OneHead(r) /\ Prefix(r) /\ SentAfterHead(r)

RelayInv == RegistryInv /\ RelayTypeOK /\ \A r \in Request : RequestInv(r)

-----------------------------------------------------------------------------
(* The registry under the relay *)

\* A relay that starts again has no pool and no open connection.
LEMMA CrashKeepsRegistry == RegistryInv /\ Crash => RegistryInv'
<1> SUFFICES ASSUME RegistryInv, Crash
             PROVE  RegistryInv'
  OBVIOUS
<1> USE RegistryAssumption DEF RegistryInv
<1>1. RegistryTypeOK'
  BY DEF Crash, RegistryTypeOK
<1>2. HandshakesRecorded'
  BY DEF Crash, RegistryTypeOK, HandshakesRecorded
<1>3. ASSUME NEW t \in Tunnel
      PROVE  PoolOf(t)' = <<>> /\ ~Has(t)'
  BY DEF Crash, PoolOf, Has
<1>4. PoolsMatchConnections'
  <2>1. \A s \in Socket : conn'[s] # "open"
    BY DEF Crash, RegistryTypeOK
  <2> QED  BY <1>3, <2>1 DEF PoolsMatchConnections, ToSet, IsInjective
<1> QED  BY <1>1, <1>2, <1>4

\* The relay's steps are the registry's, or leave it alone, or start it anew.
LEMMA RelayKeepsRegistry == RegistryInv /\ [RelayNext]_vars => RegistryInv'
<1> SUFFICES ASSUME RegistryInv, [RelayNext]_vars
             PROVE  RegistryInv'
  OBVIOUS
<1>1. Crash => RegistryInv'
  BY CrashKeepsRegistry
<1>2. ASSUME NEW t \in Tunnel, Resolve(t)
      PROVE  RegistryInv'
  BY <1>2, RegistryStep DEF RegistryNext
<1>3. ASSUME NEW s \in Socket, NEW h \in Handshake, Connect(s, h)
      PROVE  RegistryInv'
  BY <1>3, RegistryStep DEF RegistryNext
<1>4. ASSUME NEW s \in Socket, Disconnect(s)
      PROVE  RegistryInv'
  BY <1>4, RegistryStep DEF RegistryNext
<1>5. UNCHANGED registryVars => RegistryInv'
  BY RegistryStep
<1>6. ASSUME NEW r \in Request, ClientStep(r)
      PROVE  UNCHANGED registryVars
  BY <1>6 DEF ClientStep, ClientResponse, ClientPipe, ClientEnd, ClientPipeError,
              ClientRequestError, AnswerStops
<1>7. ASSUME NEW r \in Request,
             \/ PipeFlows(r) \/ PipeEnds(r)
             \/ Flushed(r) \/ UploadEnd(r) \/ VisitorLeaves(r) \/ UpgradeTimeout(r)
      PROVE  UNCHANGED registryVars
  BY <1>7 DEF PipeFlows, PipeEnds, Flushed, UploadEnd, VisitorLeaves, UpgradeTimeout, Closes
<1> QED  BY <1>1, <1>2, <1>3, <1>4, <1>5, <1>6, <1>7
         DEF RelayNext, Reject, Block, Forward, ClientConnects, ClientDies, SocketDisconnects,
             vars

-----------------------------------------------------------------------------
(* Types *)

LEMMA StreamType ==
    ASSUME NEW r \in Request, NEW n \in Nat
    PROVE  Stream(r, n) \in Seq(Request \X Nat) /\ Len(Stream(r, n)) = n
BY DEF Stream

\* The chunks that wait are a sequence, which is empty when all have gone on.
LEMMA WaitingType ==
    ASSUME NEW r \in Request, NEW m \in Nat, NEW n \in Nat, n <= m
    PROVE  /\ Waiting(r, n, m) \in Seq({r} \X Nat) /\ Len(Waiting(r, n, m)) = m - n
           /\ Waiting(r, n, m) = <<>> <=> n = m
<1>1. Waiting(r, n, m) \in Seq({r} \X Nat) /\ Len(Waiting(r, n, m)) = m - n
  BY DEF Waiting
<1> QED  BY <1>1

\* A chunk queues behind those that wait.
LEMMA Queued ==
    ASSUME NEW r \in Request, NEW m \in Nat, NEW n \in Nat, n <= m
    PROVE  Append(Waiting(r, n, m), <<r, m + 1>>) = Waiting(r, n, m + 1)
<1>1. Waiting(r, n, m) \in Seq({r} \X Nat) /\ Len(Waiting(r, n, m)) = m - n
  BY WaitingType
<1>2. Waiting(r, n, m + 1) \in Seq({r} \X Nat) /\ Len(Waiting(r, n, m + 1)) = m + 1 - n
  BY DEF Waiting
<1> QED  BY <1>1, <1>2 DEF Waiting

\* The first of those that wait goes on.
LEMMA Dequeued ==
    ASSUME NEW r \in Request, NEW m \in Nat, NEW n \in Nat, n < m
    PROVE  /\ Append(Stream(r, n), Head(Waiting(r, n, m))) = Stream(r, n + 1)
           /\ Tail(Waiting(r, n, m)) = Waiting(r, n + 1, m)
<1>1. Waiting(r, n, m) \in Seq({r} \X Nat) /\ Len(Waiting(r, n, m)) = m - n
  BY DEF Waiting
<1>2. Head(Waiting(r, n, m)) = <<r, n + 1>>
  BY <1>1 DEF Waiting
<1>3. /\ Stream(r, n) \in Seq({r} \X Nat) /\ Len(Stream(r, n)) = n
      /\ Stream(r, n + 1) \in Seq({r} \X Nat) /\ Len(Stream(r, n + 1)) = n + 1
  BY DEF Stream
<1>4. Append(Stream(r, n), <<r, n + 1>>) = Stream(r, n + 1)
  BY <1>3 DEF Stream
<1>5. Tail(Waiting(r, n, m)) = Waiting(r, n + 1, m)
  <2>1. /\ Tail(Waiting(r, n, m)) \in Seq({r} \X Nat)
        /\ Len(Tail(Waiting(r, n, m))) = m - (n + 1)
    BY <1>1
  <2>2. Waiting(r, n + 1, m) \in Seq({r} \X Nat) /\ Len(Waiting(r, n + 1, m)) = m - (n + 1)
    <3>1. n + 1 \in Nat /\ n + 1 <= m
      OBVIOUS
    <3> QED  BY <3>1, WaitingType
  <2>3. ASSUME NEW i \in 1 .. m - (n + 1)
        PROVE  Tail(Waiting(r, n, m))[i] = Waiting(r, n + 1, m)[i]
    <3>1. Tail(Waiting(r, n, m))[i] = Waiting(r, n, m)[i + 1]
      BY <1>1
    <3> QED  BY <3>1 DEF Waiting
  <2> QED  BY <2>1, <2>2, <2>3, SeqEqual
<1> QED  BY <1>2, <1>4, <1>5

\* Every step keeps the types of the relay's variables.
LEMMA RelayTypeStep ==
    RegistryInv /\ RelayTypeOK /\ [RelayNext]_vars => RelayTypeOK'
<1> SUFFICES ASSUME RegistryInv, RelayTypeOK, [RelayNext]_vars
             PROVE  RelayTypeOK'
  OBVIOUS
<1> USE RelayAssumption DEF RelayTypeOK
<1>1. ASSUME NEW r \in Request, NEW t, Reject(r, t)
      PROVE  RelayTypeOK'
  BY <1>1 DEF Reject, AnswerAtOnce
<1>2. ASSUME NEW r \in Request, NEW t \in Tunnel, NEW ip, Block(r, t, ip)
      PROVE  RelayTypeOK'
  BY <1>2 DEF Block, AnswerAtOnce
<1>3. ASSUME NEW r \in Request, NEW t \in Tunnel, NEW ip, Forward(r, t, ip)
      PROVE  RelayTypeOK'
  <2>1. NextPick(t) \in Socket
    BY <1>3, PickIsOpen DEF Forward, Resolve
  <2> QED  BY <1>3, <2>1 DEF Forward, Gauge
<1>4. ASSUME NEW r \in Request, ClientResponse(r)
      PROVE  RelayTypeOK'
  <2> DEFINE hearers == {q \in Request : Hears(q, "response", r)}
             late    == {q \in hearers \cap Upgrade : res[q] = "ended"}
  <2>1. late = {} \/ late = {r}
    BY DEF Hears
  <2>2. Cardinality(late) \in Int
    <3> HIDE DEF late
    <3>1. Cardinality(late) = 0 \/ Cardinality(late) = 1
      BY <2>1, FS_EmptySet, FS_Singleton, Zenon
    <3> QED  BY <3>1
  <2>3. counters' = [counters EXCEPT !["websocketsOpen"] = @ - Cardinality(late)]
    BY <1>4 DEF ClientResponse
  <2>4. counters' \in [{"requestsInFlight", "websocketsOpen"} -> Int]
    <3> HIDE DEF late
    <3> QED  BY <2>2, <2>3
  <2>5. /\ answer' = [answer EXCEPT ![r] = "head"]
        /\ status' = [q \in Request |->
                         IF q \in hearers /\ res[q] = "open" THEN "answer" ELSE status[q]]
        /\ res' = [q \in Request |-> IF q \in late THEN "closed" ELSE res[q]]
        /\ upload' = [q \in Request |->
                         IF q \in late /\ upload[q] = "open" THEN "dropped" ELSE upload[q]]
        /\ listens' = [q \in Request |->
                         IF q \in late THEN {}
                         ELSE IF q \in hearers THEN listens[q] \ {"response"}
                         ELSE listens[q]]
        /\ UNCHANGED <<registryVars, alive, via, buffer, body, sent>>
    BY <1>4 DEF ClientResponse, HeadHeard
  <2> HIDE DEF late, hearers
  <2> QED  BY <2>4, <2>5
<1>5. ASSUME NEW r \in Request, ClientPipe(r)
      PROVE  RelayTypeOK'
  <2>1. sent' \in [Request -> 0 .. MaxChunk]
    BY <1>5 DEF ClientPipe
  <2>2. buffer' \in [Request -> Seq(Request \X Nat)]
    <3>1. <<r, sent[r] + 1>> \in Request \X Nat
      OBVIOUS
    <3>2. ASSUME NEW q \in Request
          PROVE  Append(buffer[q], <<r, sent[r] + 1>>) \in Seq(Request \X Nat)
      <4>1. buffer[q] \in Seq(Request \X Nat)
        OBVIOUS
      <4> QED  BY <3>1, <4>1
    <3> QED  BY <1>5, <3>2 DEF ClientPipe
  <2> QED  BY <1>5, <2>1, <2>2 DEF ClientPipe
<1>6. ASSUME NEW r \in Request, ClientEnd(r) \/ ClientPipeError(r) \/ ClientRequestError(r)
      PROVE  RelayTypeOK'
  <2>1. ASSUME NEW event, AnswerStops(r, event)
        PROVE  /\ listens' \in [Request -> SUBSET {"response", "pipe", "disconnect"}]
               /\ UNCHANGED <<alive, via, body, upload, sent, counters>>
    BY <2>1 DEF AnswerStops, Cleaned
  <2>2. CASE ClientEnd(r)
    BY <2>1, <2>2 DEF ClientEnd
  <2>3. CASE ClientPipeError(r)
    BY <2>1, <2>3 DEF ClientPipeError
  <2>4. CASE ClientRequestError(r)
    BY <2>1, <2>4 DEF ClientRequestError, HeadOnWire
  <2> QED  BY <1>6, <2>2, <2>3, <2>4
<1>7. ASSUME NEW r \in Request, Flushed(r) \/ VisitorLeaves(r)
      PROVE  RelayTypeOK'
  <2>1. ASSUME Closes(r)
        PROVE  /\ counters' \in [{"requestsInFlight", "websocketsOpen"} -> Int]
               /\ listens' \in [Request -> SUBSET {"response", "pipe", "disconnect"}]
               /\ res' \in [Request -> {"new", "open", "ended", "closed"}]
               /\ buffer' \in [Request -> Seq(Request \X Nat)]
    BY <2>1 DEF Closes, Unsubscribed, CountedDown, Gauge
  <2>2. CASE Flushed(r)
    BY <2>1, <2>2 DEF Flushed, Closes
  <2>3. CASE VisitorLeaves(r)
    BY <2>1, <2>3 DEF VisitorLeaves, Closes
  <2> QED  BY <1>7, <2>2, <2>3
<1>8. ASSUME NEW r \in Request, UploadEnd(r) \/ UpgradeTimeout(r)
      PROVE  RelayTypeOK'
  BY <1>8 DEF UploadEnd, UpgradeTimeout
<1>9. ASSUME NEW s \in Socket, SocketDisconnects(s)
      PROVE  RelayTypeOK'
  <2>1. ASSUME NEW r \in Request
        PROVE  Append(body[r], Notice(r)) \in Seq(Request \X Nat)
    BY DEF Notice
  <2>2. body' \in [Request -> Seq(Request \X Nat)]
    BY <1>9, <2>1 DEF SocketDisconnects
  <2> QED  BY <1>9, <2>2 DEF SocketDisconnects, HeadOnWire, Failing
<1>10. Crash => RelayTypeOK'
  BY DEF Crash
<1>11. ASSUME NEW s \in Socket, ClientDies(s)
       PROVE  RelayTypeOK'
  BY <1>11 DEF ClientDies
<1>12. CASE UNCHANGED relayVars
  BY <1>12 DEF relayVars
<1>13. ASSUME NEW r \in Request, PipeFlows(r)
       PROVE  RelayTypeOK'
  <2>1. buffer[r] \in Seq(Request \X Nat) /\ buffer[r] # <<>> /\ body[r] \in Seq(Request \X Nat)
    BY <1>13 DEF PipeFlows
  <2>2. /\ Append(body[r], Head(buffer[r])) \in Seq(Request \X Nat)
        /\ Tail(buffer[r]) \in Seq(Request \X Nat)
    BY <2>1
  <2> QED  BY <1>13, <2>2 DEF PipeFlows
<1>14. ASSUME NEW r \in Request, PipeEnds(r)
       PROVE  RelayTypeOK'
  BY <1>14 DEF PipeEnds
<1> QED  BY <1>1, <1>2, <1>3, <1>4, <1>5, <1>6, <1>7, <1>8, <1>9, <1>10, <1>11, <1>12,
            <1>13, <1>14
         DEF RelayNext, ClientStep, ClientConnects, vars

-----------------------------------------------------------------------------
(* Every step keeps the invariant of every request *)

\* What reached a visitor stays a prefix while the step adds nothing to it.
LEMMA PrefixStays ==
    ASSUME NEW q \in Request, Prefix(q), UNCHANGED <<sent[q], body[q], status[q], via[q]>>,
           via[q] # Undefined /\ conn[via[q]] = "closed" => conn'[via[q]] = "closed",
           res'[q] = "ended" /\ status[q] = "answer" =>
              \/ res[q] = "ended" /\ (answer[q] = "end" => answer'[q] = "end")
              \/ q \in Upgrade /\ via[q] # Undefined /\ conn'[via[q]] = "closed"
    PROVE  Prefix(q)'
<1> PICK n \in 0 .. sent[q] :
      /\ body[q] = Stream(q, n) \/ Noticed(q, n)
      /\ n > 0 => status[q] = "answer"
      /\ res[q] = "ended" /\ status[q] = "answer" =>
            \/ answer[q] = "end" /\ n = sent[q]
            \/ Noticed(q, n)
            \/ q \in Upgrade /\ via[q] # Undefined /\ conn[via[q]] = "closed"
  BY DEF Prefix
<1>1. body[q] = Stream(q, n) => body'[q] = Stream(q, n)'
  BY DEF Stream
<1>2. Noticed(q, n) => Noticed(q, n)'
  BY DEF Noticed, Stream, Notice
<1> QED  BY <1>1, <1>2 DEF Prefix

\* A step that leaves a request and its socket alone keeps the request's invariant.
LEMMA Undisturbed ==
    ASSUME NEW q \in Request, RequestInv(q),
           via'[q] = via[q], res'[q] = res[q], status'[q] = status[q], body'[q] = body[q],
           buffer'[q] = buffer[q],
           answer'[q] = answer[q], sent'[q] = sent[q], listens'[q] = listens[q],
           via[q] # Undefined => conn'[via[q]] = conn[via[q]]
    PROVE  RequestInv(q)'
<1> USE DEF RequestInv
<1>1. /\ Untold(q)' /\ NothingMore(q)' /\ ListenersFollow(q)' /\ SentAfterHead(q)' /\ OneHead(q)'
  BY DEF Untold, NothingMore, ListenersFollow, SentAfterHead, OneHead
<1>2. KeptUp(q)'
  BY DEF KeptUp, Untold, Stream, Waiting
<1>3. Prefix(q)'
  BY PrefixStays
<1> QED  BY <1>1, <1>2, <1>3

\* No status is written where none is recorded.
LEMMA AnswerIsCode == Undefined # "answer"
BY RelayAssumption

\* A body that is the first m chunks after the step.
LEMMA PrefixOf ==
    ASSUME NEW q \in Request, NEW m \in 0 .. sent'[q], body'[q] = Stream(q, m),
           m > 0 => status'[q] = "answer",
           res'[q] = "ended" /\ status'[q] = "answer" =>
              \/ answer'[q] = "end" /\ m = sent'[q]
              \/ q \in Upgrade /\ via'[q] # Undefined /\ conn'[via'[q]] = "closed"
    PROVE  Prefix(q)'
BY DEF Prefix, Stream

\* A side that is open keeps up when what was pushed and piped is all that changed.
LEMMA KeepsUp ==
    ASSUME NEW q \in Request, KeptUp(q), res[q] = "open", UNCHANGED <<conn, via>>,
           "disconnect" \in listens'[q],
           NEW n \in 0 .. sent'[q], body'[q] = Stream(q, n),
           answer'[q] # "pipe-error" => buffer'[q] = Waiting(q, n, sent'[q]),
           status'[q] = "answer",
           \/ answer'[q] = "head" /\ "pipe" \in listens'[q]
           \/ answer'[q] = "end"
           \/ answer'[q] = "pipe-error" /\ buffer'[q] = <<>>
    PROVE  KeptUp(q)'
BY DEF KeptUp, Stream, Waiting

\* A request that is answered at once, and one that is forwarded.
LEMMA ArrivalKeepsRequests ==
    ASSUME RelayInv, NEW r \in Request, NEW q \in Request,
           \/ \E t \in Tunnel \cup {Undefined} : Reject(r, t)
           \/ \E t \in Tunnel, ip \in Ip \cup {Undefined} : Block(r, t, ip) \/ Forward(r, t, ip)
    PROVE  RequestInv(q)'
<1> USE RelayAssumption DEF RelayInv, RelayTypeOK
<1>0. RequestInv(q)
  OBVIOUS
<1>1. ASSUME res[r] = "new", NEW code \in {"400", "403", "404"}, AnswerAtOnce(r, code),
             UNCHANGED conn
      PROVE  RequestInv(q)'
  <2>1. CASE q # r
    BY <1>0, <1>1, <2>1, Undisturbed DEF AnswerAtOnce
  <2>2. CASE q = r
    <3>1. via[q] = Undefined /\ answer[q] = "none" /\ listens[q] = {} /\ body[q] = <<>>
          /\ buffer[q] = <<>> /\ sent[q] = 0
      BY <1>0, <1>1, <2>2 DEF RequestInv, Untold
    <3>2. /\ via'[q] = Undefined /\ answer'[q] = "none" /\ listens'[q] = {} /\ body'[q] = <<>>
          /\ buffer'[q] = <<>> /\ sent'[q] = 0 /\ res'[q] = "ended" /\ status'[q] = code
      BY <1>1, <2>2, <3>1 DEF AnswerAtOnce
    <3>3. Prefix(q)'
      <4>1. body'[q] = Stream(q, 0)
        BY <3>2 DEF Stream
      <4>2. 0 \in 0 .. sent'[q] /\ ~(res'[q] = "ended" /\ status'[q] = "answer")
        BY <3>2
      <4> QED  BY <4>1, <4>2, PrefixOf
    <3> QED  BY <3>2, <3>3
             DEF RequestInv, Untold, KeptUp, NothingMore, ListenersFollow, SentAfterHead, OneHead
  <2> QED  BY <2>1, <2>2
<1>2. ASSUME NEW t \in Tunnel, NEW ip, Forward(r, t, ip)
      PROVE  RequestInv(q)'
  <2>0. UNCHANGED conn
    BY <1>2 DEF Forward, Resolve
  <2>1. CASE q # r
    BY <1>0, <1>2, <2>0, <2>1, Undisturbed DEF Forward
  <2>2. CASE q = r
    <3>1. /\ status[q] = Undefined /\ answer[q] = "none" /\ body[q] = <<>> /\ sent[q] = 0
          /\ buffer[q] = <<>>
      BY <1>0, <1>2, <2>2 DEF RequestInv, Untold, Forward
    <3>2. NextPick(t) \in Socket /\ conn[NextPick(t)] = "open"
      BY <1>2, PickIsOpen DEF Forward, Resolve
    <3>3. /\ via'[q] = NextPick(t) /\ res'[q] = "open"
          /\ listens'[q] = {"response", "pipe", "disconnect"}
          /\ status'[q] = Undefined /\ answer'[q] = "none" /\ body'[q] = <<>> /\ sent'[q] = 0
          /\ buffer'[q] = <<>>
      BY <1>2, <2>2, <3>1 DEF Forward
    <3>4. body'[q] = Stream(q, 0) /\ buffer'[q] = Waiting(q, 0, 0)
      BY <3>3 DEF Stream, Waiting
    <3>5. Prefix(q)' /\ KeptUp(q)'
      BY <2>0, <3>2, <3>3, <3>4 DEF Prefix, KeptUp, Stream, Waiting
    <3> QED  BY <2>0, <3>2, <3>3, <3>5
             DEF RequestInv, Untold, NothingMore, ListenersFollow, SentAfterHead, OneHead
  <2> QED  BY <2>1, <2>2
<1>3. ASSUME NEW t \in Tunnel \cup {Undefined}, Reject(r, t)
      PROVE  RequestInv(q)'
  BY <1>1, <1>3 DEF Reject, registryVars
<1>4. ASSUME NEW t \in Tunnel, NEW ip, Block(r, t, ip)
      PROVE  RequestInv(q)'
  BY <1>1, <1>4 DEF Block, Resolve
<1> QED  BY <1>2, <1>3, <1>4

\* The client's head, its chunks and the three ends of an answer.
LEMMA ClientKeepsRequests ==
    ASSUME RelayInv, NEW r \in Request, NEW q \in Request, ClientStep(r)
    PROVE  RequestInv(q)'
<1> USE RelayAssumption DEF RelayInv, RelayTypeOK
<1>1. RequestInv(q) /\ UNCHANGED conn /\ UNCHANGED via
  BY DEF ClientStep, ClientResponse, ClientPipe, ClientEnd, ClientPipeError,
         ClientRequestError, AnswerStops, registryVars
<1>2. CASE q # r
  <2>1. /\ res'[q] = res[q] /\ status'[q] = status[q] /\ body'[q] = body[q]
        /\ buffer'[q] = buffer[q]
        /\ answer'[q] = answer[q] /\ sent'[q] = sent[q] /\ listens'[q] = listens[q]
    <3>1. CASE ClientResponse(r)
      BY <1>2, <3>1 DEF ClientResponse, Hears
    <3>2. CASE ClientPipe(r)
      BY <1>2, <3>2 DEF ClientPipe, Hears
    <3>3. CASE ClientEnd(r) \/ ClientPipeError(r) \/ ClientRequestError(r)
      BY <1>2, <3>3 DEF ClientEnd, ClientPipeError, ClientRequestError, AnswerStops, Hears
    <3> QED  BY <3>1, <3>2, <3>3 DEF ClientStep
  <2> QED  BY <1>1, <2>1, Undisturbed
<1>3. CASE q = r
  <2>1. via[q] # Undefined /\ conn[via[q]] = "open" /\ res[q] # "new"
    BY <1>1, <1>3
       DEF ClientStep, ClientResponse, ClientPipe, ClientEnd, ClientPipeError,
           ClientRequestError, Speaks, RequestInv, Untold
  <2>2. PICK n \in 0 .. sent[q] :
          /\ body[q] = Stream(q, n)
          /\ n > 0 => status[q] = "answer"
          /\ res[q] = "ended" /\ status[q] = "answer" => answer[q] = "end" /\ n = sent[q]
    BY <1>1, <2>1 DEF RequestInv, Prefix, Noticed
  <2>3. CASE ClientResponse(r)
    <3>1. answer[q] = "none" /\ sent[q] = 0
      BY <1>1, <1>3, <2>3 DEF ClientResponse, RequestInv, SentAfterHead
    <3>2. /\ answer'[q] = "head" /\ body'[q] = body[q] /\ sent'[q] = 0 /\ sent' = sent
          /\ buffer'[q] = buffer[q]
      BY <1>3, <2>3, <3>1 DEF ClientResponse
    <3>3. /\ status'[q] = IF "response" \in listens[q] /\ res[q] = "open"
                          THEN "answer" ELSE status[q]
          /\ res'[q] = IF "response" \in listens[q] /\ q \in Upgrade /\ res[q] = "ended"
                       THEN "closed" ELSE res[q]
          /\ listens'[q] = IF "response" \in listens[q] /\ q \in Upgrade /\ res[q] = "ended"
                           THEN {}
                           ELSE listens[q] \ {"response"}
      <4> DEFINE hearers == {p \in Request : Hears(p, "response", r)}
                 late    == {p \in hearers \cap Upgrade : res[p] = "ended"}
      <4>1. /\ status'[q] = IF q \in hearers /\ res[q] = "open" THEN "answer" ELSE status[q]
            /\ res'[q] = IF q \in late THEN "closed" ELSE res[q]
            /\ listens'[q] = IF q \in late THEN {}
                             ELSE IF q \in hearers THEN listens[q] \ {"response"}
                             ELSE listens[q]
        BY <2>3 DEF ClientResponse, HeadHeard
      <4>2. q \in hearers <=> "response" \in listens[q]
        BY <1>3 DEF Hears
      <4>3. q \in late <=> q \in hearers /\ q \in Upgrade /\ res[q] = "ended"
        OBVIOUS
      <4>4. "response" \notin listens[q] => listens[q] = listens[q] \ {"response"}
        OBVIOUS
      <4> HIDE DEF hearers, late
      <4> QED  BY <4>1, <4>2, <4>3, <4>4
    <3>4. Prefix(q)'
      <4>1. n = 0 /\ (res'[q] = "ended" => res[q] = "ended" /\ status'[q] = status[q])
        BY <2>2, <3>1, <3>3
      <4> QED  BY <2>2, <3>1, <3>2, <3>3, <4>1, PrefixOf
    <3>5. KeptUp(q)'
      <4>1. CASE res[q] = "open"
        <5>1. /\ "disconnect" \in listens[q] /\ {"response", "pipe"} \subseteq listens[q]
              /\ body[q] = Stream(q, 0) /\ buffer[q] = Waiting(q, 0, 0)
          BY <1>1, <3>1, <4>1 DEF RequestInv, KeptUp
        <5>2. /\ 0 \in 0 .. sent'[q] /\ body'[q] = Stream(q, 0)
              /\ buffer'[q] = Waiting(q, 0, sent'[q]) /\ status'[q] = "answer"
              /\ {"disconnect", "pipe"} \subseteq listens'[q]
          BY <3>2, <3>3, <4>1, <5>1
        <5> QED  BY <1>1, <3>2, <4>1, <5>2, KeepsUp DEF RequestInv
      <4>2. CASE res[q] # "open"
        BY <3>3, <4>2 DEF KeptUp
      <4> QED  BY <4>1, <4>2
    <3> QED
      BY <1>1, <2>1, <3>1, <3>2, <3>3, <3>4, <3>5
      DEF RequestInv, Untold, NothingMore, ListenersFollow, SentAfterHead, OneHead
  <2>4. CASE ClientPipe(r)
    <3>1. /\ answer[q] = "head" /\ sent'[q] = sent[q] + 1 /\ answer'[q] = "head"
          /\ UNCHANGED <<res, status, listens, body>>
      BY <1>3, <2>4 DEF ClientPipe
    <3>2. Prefix(q)'
      <4>1. n \in 0 .. sent'[q] /\ body'[q] = Stream(q, n)
        BY <2>2, <3>1
      <4>2. ~(res'[q] = "ended" /\ status'[q] = "answer")
        BY <2>2, <3>1
      <4> QED  BY <2>2, <3>1, <4>1, <4>2, PrefixOf
    <3>3. KeptUp(q)'
      <4>1. CASE res[q] = "open"
        <5>1. /\ status[q] = "answer" /\ "pipe" \in listens[q] /\ "disconnect" \in listens[q]
          BY <1>1, <3>1, <4>1 DEF RequestInv, KeptUp
        <5>2. PICK m \in 0 .. sent[q] :
                /\ body[q] = Stream(q, m) /\ buffer[q] = Waiting(q, m, sent[q])
                /\ sent[q] \in Nat
          BY <1>1, <3>1, <4>1 DEF RequestInv, KeptUp
        <5>3. buffer'[q] = Append(buffer[q], <<q, sent[q] + 1>>)
          BY <1>3, <2>4, <4>1, <5>1 DEF ClientPipe, Hears
        <5>4. Append(Waiting(q, m, sent[q]), <<q, sent[q] + 1>>) = Waiting(q, m, sent[q] + 1)
          <6>1. m \in Nat /\ m <= sent[q] /\ sent[q] \in Nat
            BY <5>2
          <6> QED  BY <6>1, Queued, Zenon
        <5>5. m \in 0 .. sent'[q] /\ buffer'[q] = Waiting(q, m, sent'[q])
          <6>1. m \in 0 .. sent'[q]
            BY <3>1, <5>2
          <6>2. buffer'[q] = Waiting(q, m, sent'[q])
            BY <3>1, <5>2, <5>3, <5>4, Zenon
          <6> QED  BY <6>1, <6>2
        <5> QED  BY <1>1, <3>1, <4>1, <5>1, <5>2, <5>5, KeepsUp DEF RequestInv
      <4>2. CASE res[q] # "open"
        BY <3>1, <4>2 DEF KeptUp
      <4> QED  BY <4>1, <4>2
    <3> QED
      BY <1>1, <2>1, <3>1, <3>2, <3>3
      DEF RequestInv, Untold, NothingMore, ListenersFollow, SentAfterHead, OneHead
  <2>5. CASE ClientEnd(r) \/ ClientPipeError(r)
    <3>1. /\ answer[q] = "head" /\ answer'[q] \in {"end", "pipe-error"}
          /\ answer'[q] = "end" <=> ClientEnd(r)
          /\ UNCHANGED <<res, status, body, sent>>
      BY <1>3, <2>5 DEF ClientEnd, ClientPipeError, AnswerStops
    <3>2. listens'[q] = listens[q] \ {"response", "pipe"}
      BY <1>1, <1>3, <2>5, <3>1
         DEF ClientEnd, ClientPipeError, AnswerStops, Hears, Cleaned, RequestInv,
             ListenersFollow
    <3>3. Prefix(q)'
      <4>1. ~(res'[q] = "ended" /\ status'[q] = "answer")
        BY <2>2, <3>1
      <4> QED  BY <2>2, <3>1, <4>1, PrefixOf
    <3>4. KeptUp(q)'
      <4>1. CASE res[q] = "open"
        <5>1. /\ status[q] = "answer" /\ "pipe" \in listens[q] /\ "disconnect" \in listens[q]
          BY <1>1, <3>1, <4>1 DEF RequestInv, KeptUp
        <5>2. PICK m \in 0 .. sent[q] :
                /\ body[q] = Stream(q, m) /\ buffer[q] = Waiting(q, m, sent[q])
                /\ sent[q] \in Nat
          BY <1>1, <3>1, <4>1 DEF RequestInv, KeptUp
        <5>3. CASE ClientEnd(r)
          <6>1. buffer'[q] = buffer[q]
            BY <5>3 DEF ClientEnd
          <6> QED  BY <1>1, <3>1, <3>2, <4>1, <5>1, <5>2, <5>3, <6>1, KeepsUp DEF RequestInv
        <5>4. CASE ~ClientEnd(r)
          <6>1. buffer'[q] = <<>>
            BY <1>3, <2>5, <5>1, <5>4 DEF ClientPipeError, Hears
          <6> QED  BY <1>1, <3>1, <3>2, <4>1, <5>1, <5>2, <5>4, <6>1, KeepsUp DEF RequestInv
        <5> QED  BY <5>3, <5>4
      <4>2. CASE res[q] # "open"
        BY <3>1, <4>2 DEF KeptUp
      <4> QED  BY <4>1, <4>2
    <3> QED
      BY <1>1, <2>1, <3>1, <3>2, <3>3, <3>4
      DEF RequestInv, Untold, NothingMore, ListenersFollow, SentAfterHead, OneHead
  <2>6. CASE ClientRequestError(r)
    <3>1. /\ answer[q] = "none" /\ answer'[q] = "request-error" /\ sent[q] = 0
          /\ UNCHANGED <<buffer, body, sent>>
      BY <1>1, <1>3, <2>6 DEF ClientRequestError, AnswerStops, RequestInv, SentAfterHead
    <3>2. listens'[q] = listens[q] \ {"response", "pipe"}
      BY <1>1, <1>3, <2>6, <3>1
         DEF ClientRequestError, AnswerStops, Hears, Cleaned, RequestInv, ListenersFollow
    <3>3. /\ res'[q] = IF res[q] = "open" THEN "ended" ELSE res[q]
          /\ status'[q] # "answer" \/ (status'[q] = status[q] /\ res[q] # "open")
      <4> DEFINE failed == {p \in Request : Hears(p, "response", r) /\ res[p] = "open"}
      <4>1. /\ res'[q] = IF q \in failed THEN "ended" ELSE res[q]
            /\ status'[q] = IF q \in failed \cap Http THEN HeadOnWire(q, "502") ELSE status[q]
        BY <2>6 DEF ClientRequestError
      <4>2. res[q] = "open" => q \in failed /\ status[q] = Undefined
        BY <1>1, <1>3, <3>1 DEF Hears, RequestInv, KeptUp
      <4>3. q \in failed => res[q] = "open"
        OBVIOUS
      <4> HIDE DEF failed
      <4> QED  BY <4>1, <4>2, <4>3, AnswerIsCode DEF HeadOnWire
    <3>4. Prefix(q)'
      <4>1. ~(res'[q] = "ended" /\ status'[q] = "answer")
        BY <2>2, <3>1, <3>3
      <4> QED  BY <2>2, <3>1, <4>1, PrefixOf
    <3>5. KeptUp(q)'
      BY <3>3 DEF KeptUp
    <3> QED
      BY <1>1, <2>1, <3>1, <3>2, <3>3, <3>4, <3>5
      DEF RequestInv, Untold, NothingMore, ListenersFollow, SentAfterHead, OneHead
  <2> QED  BY <2>3, <2>4, <2>5, <2>6 DEF ClientStep
<1> QED  BY <1>2, <1>3

\* The pipe hands a chunk on, or has come to the end.
LEMMA PipeKeepsRequests ==
    ASSUME RelayInv, NEW r \in Request, NEW q \in Request, PipeFlows(r) \/ PipeEnds(r)
    PROVE  RequestInv(q)'
<1> USE RelayAssumption DEF RelayInv, RelayTypeOK
<1>1. /\ RequestInv(q)
      /\ UNCHANGED <<conn, via, status, answer, sent, listens>>
      /\ res[r] = "open"
  BY DEF PipeFlows, PipeEnds, Flows, registryVars
<1>2. CASE q # r
  <2>1. res'[q] = res[q] /\ buffer'[q] = buffer[q] /\ body'[q] = body[q]
    BY <1>2 DEF PipeFlows, PipeEnds
  <2> QED  BY <1>1, <2>1, Undisturbed
<1>3. CASE q = r
  <2>1. /\ buffer[q] = <<>> => answer[q] = "end"
        /\ PipeFlows(r) => buffer[q] # <<>>
    BY <1>3 DEF PipeFlows, PipeEnds
  <2>2. /\ via[q] # Undefined /\ status[q] # Undefined => status[q] = "answer"
        /\ "disconnect" \in listens[q] /\ answer[q] # "pipe-error"
    BY <1>1, <1>3, <2>1 DEF RequestInv, Untold, KeptUp
  <2>3. PICK n \in 0 .. sent[q] :
          /\ body[q] = Stream(q, n) /\ buffer[q] = Waiting(q, n, sent[q])
          /\ sent[q] \in Nat
    BY <1>1, <1>3, <2>2 DEF RequestInv, KeptUp
  <2>4. /\ Waiting(q, n, sent[q]) = <<>> <=> n = sent[q]
        /\ n # sent[q] =>
              /\ Append(Stream(q, n), Head(Waiting(q, n, sent[q]))) = Stream(q, n + 1)
              /\ Tail(Waiting(q, n, sent[q])) = Waiting(q, n + 1, sent[q])
    <3>1. n \in Nat /\ n <= sent[q] /\ sent[q] \in Nat
      BY <2>3
    <3>2. Waiting(q, n, sent[q]) = <<>> <=> n = sent[q]
      BY <3>1, WaitingType, Zenon
    <3>3. CASE n # sent[q]
      <4>1. n < sent[q]
        BY <3>1, <3>3
      <4> QED  BY <3>1, <3>2, <4>1, Dequeued, Zenon
    <3> QED  BY <3>2, <3>3
  <2>5. answer[q] # "none" /\ status[q] = "answer"
    <3>1. answer[q] = "none" => sent[q] = 0
      BY <1>1 DEF RequestInv, SentAfterHead
    <3>2. answer[q] = "none" => buffer[q] = <<>>
      BY <2>3, <2>4, <3>1
    <3> QED  BY <1>1, <1>3, <2>1, <3>2 DEF RequestInv, KeptUp
  <2>6. CASE PipeFlows(r)
    <3>1. n # sent[q]
      BY <2>1, <2>3, <2>6, <2>4
    <3>2. /\ body'[q] = Append(body[q], Head(buffer[q])) /\ buffer'[q] = Tail(buffer[q])
          /\ res' = res
      BY <1>3, <2>6 DEF PipeFlows
    <3>3. n + 1 \in 0 .. sent'[q] /\ sent'[q] = sent[q] /\ answer'[q] = answer[q]
      BY <1>1, <3>1
    <3>4. body'[q] = Stream(q, n + 1) /\ buffer'[q] = Waiting(q, n + 1, sent'[q])
      BY <2>3, <2>4, <3>1, <3>2, <3>3
    <3>5. Prefix(q)'
      BY <1>1, <1>3, <2>5, <3>2, <3>3, <3>4, PrefixOf
    <3>6. KeptUp(q)'
      <4>1. \/ answer'[q] = "head" /\ "pipe" \in listens'[q]
            \/ answer'[q] = "end"
        BY <1>1, <1>3, <2>2, <2>5 DEF RequestInv, KeptUp
      <4> QED  BY <1>1, <1>3, <2>2, <2>5, <3>3, <3>4, <4>1, KeepsUp DEF RequestInv
    <3> QED
      BY <1>1, <1>3, <2>2, <3>2, <3>5, <3>6
      DEF RequestInv, Untold, NothingMore, ListenersFollow, SentAfterHead, OneHead
  <2>7. CASE PipeEnds(r)
    <3>1. /\ res'[q] = "ended" /\ body'[q] = body[q] /\ answer[q] = "end"
          /\ n = sent[q]
      BY <1>3, <2>3, <2>7, <2>4 DEF PipeEnds
    <3>2. Prefix(q)'
      BY <1>1, <2>3, <2>5, <3>1, PrefixOf
    <3> QED
      BY <1>1, <1>3, <2>2, <3>1, <3>2
      DEF RequestInv, Untold, KeptUp, NothingMore, ListenersFollow, SentAfterHead, OneHead
  <2> QED  BY <2>6, <2>7
<1> QED  BY <1>2, <1>3

\* The visitor's side: flushed, left, timed out, or its upload at its end.
LEMMA VisitorKeepsRequests ==
    ASSUME RelayInv, NEW r \in Request, NEW q \in Request,
           Flushed(r) \/ UploadEnd(r) \/ VisitorLeaves(r) \/ UpgradeTimeout(r)
    PROVE  RequestInv(q)'
<1> USE RelayAssumption DEF RelayInv, RelayTypeOK
<1>1. /\ RequestInv(q)
      /\ UNCHANGED <<conn, via, status, body, answer, sent>>
  BY DEF Flushed, UploadEnd, VisitorLeaves, UpgradeTimeout, Closes, registryVars
<1>2. CASE q # r \/ UNCHANGED <<res, listens, buffer>>
  <2>1. res'[q] = res[q] /\ listens'[q] = listens[q] /\ buffer'[q] = buffer[q]
    BY <1>2 DEF Flushed, UploadEnd, VisitorLeaves, UpgradeTimeout, Closes
  <2> QED  BY <1>1, <2>1, Undisturbed
<1>3. CASE q = r /\ res'[q] = "closed" /\ listens'[q] = Unsubscribed(q) /\ buffer'[q] = <<>>
  <2>1. via[q] = Undefined => listens'[q] = {}
    BY <1>1, <1>3 DEF RequestInv, Untold, Unsubscribed
  <2>2. Prefix(q)'
    BY <1>1, <1>3, PrefixStays DEF RequestInv
  <2> QED
    BY <1>1, <1>3, <2>1, <2>2
    DEF RequestInv, Untold, KeptUp, NothingMore, ListenersFollow, SentAfterHead, OneHead,
        Unsubscribed
<1>4. CASE q = r /\ UpgradeTimeout(r)
  <2>1. /\ res[q] = "open" /\ status[q] = Undefined /\ q \in Upgrade
        /\ res'[q] = "ended" /\ UNCHANGED <<listens, buffer>>
    BY <1>4 DEF UpgradeTimeout
  <2>2. /\ via[q] # Undefined /\ answer[q] = "none"
        /\ "response" \in listens[q]
    BY <1>1, <2>1, AnswerIsCode DEF RequestInv, Untold, KeptUp
  <2>3. Prefix(q)'
    BY <1>1, <2>1, <2>2, AnswerIsCode, PrefixStays DEF RequestInv
  <2> QED
    BY <1>1, <2>1, <2>2, <2>3
    DEF RequestInv, Untold, KeptUp, NothingMore, ListenersFollow, SentAfterHead, OneHead
<1>5. \/ q # r \/ UNCHANGED <<res, listens, buffer>>
      \/ q = r /\ res'[q] = "closed" /\ listens'[q] = Unsubscribed(q) /\ buffer'[q] = <<>>
      \/ q = r /\ UpgradeTimeout(r)
  BY DEF Flushed, UploadEnd, VisitorLeaves, Closes
<1> QED  BY <1>2, <1>3, <1>4, <1>5

\* Sockets come, die and go, and the relay with them.
LEMMA TunnelKeepsRequests ==
    ASSUME RelayInv, NEW q \in Request,
           \/ \E s \in Socket, h \in Handshake : ClientConnects(s, h)
           \/ \E s \in Socket : ClientDies(s) \/ SocketDisconnects(s)
           \/ Crash
    PROVE  RequestInv(q)'
<1> USE RelayAssumption DEF RelayInv, RelayTypeOK
<1>0. RequestInv(q)
  OBVIOUS
<1>1. ASSUME NEW s \in Socket, NEW h \in Handshake, ClientConnects(s, h)
      PROVE  RequestInv(q)'
  <2>1. via[q] # Undefined => conn'[via[q]] = conn[via[q]]
    BY <1>0, <1>1
       DEF ClientConnects, Connect, RegistryInv, RegistryTypeOK, RequestInv, Untold
  <2> QED  BY <1>0, <1>1, <2>1, Undisturbed DEF ClientConnects, relayVars
<1>2. ASSUME NEW s \in Socket, ClientDies(s)
      PROVE  RequestInv(q)'
  BY <1>0, <1>2, Undisturbed DEF ClientDies, registryVars
<1>3. ASSUME NEW s \in Socket, SocketDisconnects(s)
      PROVE  RequestInv(q)'
  <2>1. /\ conn' = [conn EXCEPT ![s] = "closed"]
        /\ UNCHANGED <<via, answer, sent>>
    BY <1>3 DEF SocketDisconnects, Disconnect
  <2>2. conn \in [Socket -> {"new", "open", "closed"}] /\ conn[s] = "open"
    BY <1>3 DEF SocketDisconnects, Disconnect, RegistryInv, RegistryTypeOK
  <2>3. CASE via[q] # s
    <3>1. /\ res'[q] = res[q] /\ status'[q] = status[q] /\ body'[q] = body[q]
          /\ buffer'[q] = buffer[q] /\ listens'[q] = listens[q]
      BY <1>3, <2>3 DEF SocketDisconnects, Failing, Hit
    <3>2. via[q] # Undefined => conn'[via[q]] = conn[via[q]]
      BY <2>1, <2>2, <2>3
    <3> QED  BY <1>0, <2>1, <3>1, <3>2, Undisturbed
  <2>4. CASE via[q] = s
    <3>1. via'[q] # Undefined /\ conn'[via'[q]] = "closed"
      BY <2>1, <2>2, <2>4
    <3>2. listens'[q] = listens[q] \ {"disconnect"}
      <4>1. "disconnect" \notin listens[q] => listens[q] = listens[q] \ {"disconnect"}
        OBVIOUS
      <4> QED  BY <1>3, <2>4, <4>1 DEF SocketDisconnects, Hit
    <3>3. CASE res[q] = "open"
      <4>1. /\ "disconnect" \in listens[q]
            /\ status[q] = "answer" \/ (answer[q] = "none" /\ status[q] = Undefined)
        BY <1>0, <3>3 DEF RequestInv, KeptUp
      <4>2. PICK n \in 0 .. sent[q] : body[q] = Stream(q, n)
        BY <1>0, <3>3 DEF RequestInv, KeptUp
      <4>3. q \in Failing(s)
        BY <2>4, <3>3, <4>1 DEF Failing, Hit
      <4>4. /\ res'[q] = "ended"
            /\ status'[q] = IF q \in Http THEN HeadOnWire(q, "500") ELSE status[q]
            /\ body'[q] = IF q \in Http THEN Append(body[q], Notice(q)) ELSE body[q]
        BY <1>3, <4>3 DEF SocketDisconnects
      <4>5. n > 0 => status'[q] = "answer"
        BY <1>0, <4>1, <4>4, AnswerIsCode DEF HeadOnWire, RequestInv, SentAfterHead
      <4>6. Prefix(q)'
        <5>1. n \in 0 .. sent'[q] /\ sent'[q] = sent[q]
          BY <2>1
        <5>2. CASE q \in Http
          <6>1. Noticed(q, n)'
            BY <3>1, <4>2, <4>4, <5>2 DEF Noticed, Stream, Notice
          <6> QED  BY <4>5, <5>1, <6>1 DEF Prefix
        <5>3. CASE q \notin Http
          <6>1. q \in Upgrade
            BY <5>3 DEF Request
          <6> QED  BY <3>1, <4>2, <4>4, <4>5, <5>1, <5>3, <6>1, PrefixOf
        <5> QED  BY <5>2, <5>3
      <4> QED
        BY <1>0, <2>1, <3>1, <3>2, <4>4, <4>6
        DEF RequestInv, Untold, KeptUp, NothingMore, ListenersFollow, SentAfterHead, OneHead
    <3>4. CASE res[q] # "open"
      <4>1. /\ res'[q] = res[q] /\ status'[q] = status[q] /\ body'[q] = body[q]
            /\ buffer'[q] = buffer[q]
        BY <1>3, <3>4 DEF SocketDisconnects, Failing
      <4>2. Prefix(q)'
        BY <1>0, <2>1, <3>1, <4>1, PrefixStays DEF RequestInv
      <4> QED
        BY <1>0, <2>1, <3>1, <3>2, <3>4, <4>1, <4>2
        DEF RequestInv, Untold, KeptUp, NothingMore, ListenersFollow, SentAfterHead, OneHead
    <3> QED  BY <3>3, <3>4
  <2> QED  BY <2>3, <2>4
<1>4. ASSUME Crash
      PROVE  RequestInv(q)'
  <2>1. /\ conn' = [s \in Socket |-> IF conn[s] = "open" THEN "closed" ELSE conn[s]]
        /\ UNCHANGED <<via, status, body, answer, sent>>
        /\ res'[q] = IF res[q] = "new" THEN "new" ELSE "closed"
        /\ listens'[q] = {} /\ buffer'[q] = <<>>
    BY <1>4 DEF Crash
  <2>2. via[q] # Undefined =>
          conn'[via[q]] # "new" /\ (conn[via[q]] = "closed" => conn'[via[q]] = "closed")
    BY <1>0, <2>1 DEF RequestInv, Untold
  <2>3. Prefix(q)'
    BY <1>0, <2>1, <2>2, PrefixStays DEF RequestInv
  <2> QED
    BY <1>0, <2>1, <2>2, <2>3
    DEF RequestInv, Untold, KeptUp, NothingMore, ListenersFollow, SentAfterHead, OneHead
<1> QED  BY <1>1, <1>2, <1>3, <1>4

-----------------------------------------------------------------------------
(* The invariant *)

\* No request is forwarded when the relay starts.
LEMMA RelayInitHolds == RelayInit => RelayInv
<1> SUFFICES ASSUME RelayInit
             PROVE  RelayInv
  OBVIOUS
<1> USE RelayAssumption
<1>1. RegistryInv
  BY RegistryInitHolds DEF RelayInit
<1>2. RelayTypeOK
  BY DEF RelayInit, RelayTypeOK
<1>3. ASSUME NEW r \in Request
      PROVE  RequestInv(r)
  <2>1. /\ via[r] = Undefined /\ res[r] = "new" /\ status[r] = Undefined /\ body[r] = <<>>
        /\ buffer[r] = <<>> /\ answer[r] = "none" /\ sent[r] = 0 /\ listens[r] = {}
    BY DEF RelayInit
  <2>2. Prefix(r)
    BY <2>1 DEF Prefix, Stream
  <2> QED
    BY <2>1, <2>2
    DEF RequestInv, Untold, KeptUp, NothingMore, ListenersFollow, SentAfterHead, OneHead
<1> QED  BY <1>1, <1>2, <1>3 DEF RelayInv

\* Every step of the relay keeps the invariant.
LEMMA RelayStep == RelayInv /\ [RelayNext]_vars => RelayInv'
<1> SUFFICES ASSUME RelayInv, [RelayNext]_vars
             PROVE  RelayInv'
  OBVIOUS
<1>1. RegistryInv' /\ RelayTypeOK'
  BY RelayKeepsRegistry, RelayTypeStep DEF RelayInv
<1>2. ASSUME NEW q \in Request
      PROVE  RequestInv(q)'
  <2>1. CASE UNCHANGED vars
    BY <2>1, Undisturbed DEF RelayInv, vars, registryVars, relayVars
  <2>2. CASE RelayNext
    BY <2>2, ArrivalKeepsRequests, ClientKeepsRequests, PipeKeepsRequests,
       VisitorKeepsRequests, TunnelKeepsRequests
    DEF RelayNext
  <2> QED  BY <2>1, <2>2
<1> QED  BY <1>1, <1>2 DEF RelayInv

\* For every pool and every set of requests: the registry keeps its invariant
\* under the relay, and each request is where RequestInv says.
THEOREM RelayInvariant == RelaySpec => []RelayInv
BY RelayInitHolds, RelayStep, PTL DEF RelaySpec

\* A visitor is never left waiting on a socket that is gone.
THEOREM NoOrphanHolds == RelaySpec => []NoOrphan
<1>1. RelayInv => NoOrphan
  BY DEF RelayInv, RequestInv, KeptUp, ListenersFollow, NoOrphan
<1> QED  BY <1>1, RelayInvariant, PTL

\* A tunnel response listens to its socket no longer than the answer lasts.
THEOREM ListenersReleasedHolds == RelaySpec => []ListenersReleased
<1>1. RelayInv => ListenersReleased
  <2> SUFFICES ASSUME RelayInv, NEW r \in Request
               PROVE  /\ answer[r] \in {"end", "pipe-error", "request-error"} =>
                            listens[r] \subseteq {"disconnect"}
                      /\ res[r] = "closed" /\ r \in Upgrade => listens[r] = {}
    BY DEF ListenersReleased
  <2>1. listens[r] \subseteq {"response", "pipe", "disconnect"}
    BY DEF RelayInv, RelayTypeOK
  <2> QED  BY <2>1 DEF RelayInv, RequestInv, ListenersFollow
<1> QED  BY <1>1, RelayInvariant, PTL

\* An HTTP response has one head, whichever of the answer, its error and the
\* disconnect comes first.
THEOREM HeadOnceHolds == RelaySpec => []HeadOnce
<1>1. RelayInv => HeadOnce
  BY DEF RelayInv, RequestInv, OneHead, HeadOnce, Request
<1> QED  BY <1>1, RelayInvariant, PTL

-----------------------------------------------------------------------------
(* The bodies *)

\* The chunks of a body are those that are not the relay's notice.
LEMMA ChunksCounted ==
    ASSUME NEW r \in Request, NEW n \in Nat, NEW b,
           b = Stream(r, n) \/ b = Append(Stream(r, n), Notice(r))
    PROVE  /\ Cardinality({i \in DOMAIN b : b[i] # Notice(r)}) = n
           /\ \A i \in 1 .. n : b[i] = <<r, i>>
           /\ Len(b) = IF b = Stream(r, n) THEN n ELSE n + 1
<1>1. /\ Stream(r, n) \in Seq({r} \X Nat) /\ Len(Stream(r, n)) = n
      /\ \A i \in 1 .. n : Stream(r, n)[i] = <<r, i>> /\ <<r, i>> # Notice(r)
  BY DEF Stream, Notice
<1> DEFINE st == Stream(r, n)
           notice == Notice(r)
<1>2. notice \in {r} \X Nat
  BY DEF Notice
<1> HIDE DEF st, notice
<1>3. /\ st \in Seq({r} \X Nat) /\ Len(st) = n
      /\ \A i \in 1 .. n : st[i] = <<r, i>> /\ <<r, i>> # notice
      /\ b = st \/ b = Append(st, notice)
  BY <1>1 DEF st, notice
<1>4. /\ {i \in DOMAIN b : b[i] # notice} = 1 .. n
      /\ \A i \in 1 .. n : b[i] = <<r, i>>
      /\ Len(b) = IF b = st THEN n ELSE n + 1
  <2>1. CASE b = st
    <3>1. DOMAIN b = 1 .. n
      BY <1>3, <2>1
    <3> QED  BY <1>3, <2>1, <3>1
  <2>2. CASE b = Append(st, notice)
    <3>1. /\ DOMAIN b = 1 .. n + 1 /\ Len(b) = n + 1 /\ b[n + 1] = notice
          /\ \A i \in 1 .. n : b[i] = st[i]
      BY <1>2, <1>3, <2>2
    <3>2. b # st
      BY <1>3, <3>1
    <3> QED  BY <1>3, <3>1, <3>2
  <2> QED  BY <1>3, <2>1, <2>2
<1>5. Cardinality(1 .. n) = n
  <2>1. Cardinality(1 .. n) = IF 1 > n THEN 0 ELSE n - 1 + 1
    BY FS_Interval
  <2> QED  BY <2>1
<1> QED  BY <1>4, <1>5 DEF st, notice

\* A body is the first chunks of the visitor's own answer and at most the relay's
\* notice; one that is ended is whole unless the socket disconnected, of which
\* an HTTP visitor is told.
THEOREM BodyFaithfulHolds == RelaySpec => []BodyFaithful
<1>1. RelayInv => BodyFaithful
  <2> SUFFICES ASSUME RelayInv, NEW r \in Request
               PROVE  LET n     == Cardinality({i \in DOMAIN body[r] : body[r][i] # Notice(r)})
                          whole == answer[r] = "end" /\ n = sent[r]
                      IN  /\ \A i \in 1 .. n : body[r][i] = <<r, i>>
                          /\ n > 0 => status[r] = "answer"
                          /\ n <= sent[r] /\ Len(body[r]) - n <= 1
                          /\ Len(body[r]) > n => r \in Http /\ conn[via[r]] = "closed"
                          /\ res[r] = "ended" /\ status[r] = "answer" =>
                                \/ whole
                                \/ IF r \in Http THEN Len(body[r]) > n
                                                 ELSE conn[via[r]] = "closed"
    BY DEF BodyFaithful
  <2> PICK m \in 0 .. sent[r] :
        /\ body[r] = Stream(r, m) \/ Noticed(r, m)
        /\ m > 0 => status[r] = "answer"
        /\ res[r] = "ended" /\ status[r] = "answer" =>
              \/ answer[r] = "end" /\ m = sent[r]
              \/ Noticed(r, m)
              \/ r \in Upgrade /\ via[r] # Undefined /\ conn[via[r]] = "closed"
    BY DEF RelayInv, RequestInv, Prefix
  <2>1. m \in Nat /\ sent[r] \in Nat /\ m <= sent[r]
    BY RelayAssumption DEF RelayInv, RelayTypeOK
  <2> DEFINE b == body[r]
             n == Cardinality({i \in DOMAIN b : b[i] # Notice(r)})
  <2>2. b = Stream(r, m) \/ b = Append(Stream(r, m), Notice(r))
    BY DEF Noticed
  <2>3. /\ n = m
        /\ \A i \in 1 .. m : b[i] = <<r, i>>
        /\ Len(b) = IF b = Stream(r, m) THEN m ELSE m + 1
    <3> HIDE DEF b
    <3> QED  BY <2>1, <2>2, ChunksCounted
  <2>4. b # Stream(r, m) => r \in Http /\ conn[via[r]] = "closed"
    BY DEF Noticed
  <2>5. Noticed(r, m) => Len(b) = m + 1 /\ r \in Http
    <3>1. Stream(r, m) \in Seq(Request \X Nat) /\ Len(Stream(r, m)) = m
      BY <2>1, StreamType
    <3>2. Notice(r) \in Request \X Nat
      BY DEF Notice
    <3>3. Len(Append(Stream(r, m), Notice(r))) = m + 1
      BY <3>1, <3>2
    <3> QED  BY <3>3 DEF Noticed
  <2>6. m > 0 => status[r] = "answer"
    OBVIOUS
  <2>7. res[r] = "ended" /\ status[r] = "answer" =>
          \/ answer[r] = "end" /\ m = sent[r]
          \/ r \in Http /\ Len(b) = m + 1
          \/ r \notin Http /\ conn[via[r]] = "closed"
    BY <2>5, RelayAssumption
  <2>8. /\ \A i \in 1 .. n : b[i] = <<r, i>>
        /\ n > 0 => status[r] = "answer"
        /\ n <= sent[r] /\ Len(b) - n <= 1
        /\ Len(b) > n => r \in Http /\ conn[via[r]] = "closed"
        /\ res[r] = "ended" /\ status[r] = "answer" =>
              \/ answer[r] = "end" /\ n = sent[r]
              \/ IF r \in Http THEN Len(b) > n ELSE conn[via[r]] = "closed"
    <3> HIDE DEF n, b
    <3> QED  BY <2>1, <2>3, <2>4, <2>6, <2>7
  <2> QED  BY <2>8
<1> QED  BY <1>1, RelayInvariant, PTL

-----------------------------------------------------------------------------
(* The gauges *)

\* The requests a gauge counts.
Counted(r) == Forwarded(r) /\ res[r] \in {"open", "ended"}

Current(R) == {r \in R : Counted(r)}

\* Only finitely many requests are under way, whatever their set: the gauges
\* count a finite set.
GaugesInv ==
    /\ IsFiniteSet(Current(Http)) /\ IsFiniteSet(Current(Upgrade))
    /\ counters["requestsInFlight"] = Cardinality(Current(Http))
    /\ counters["websocketsOpen"] = Cardinality(Current(Upgrade))

\* A step that counts nobody anew and no one less.
LEMMA GaugesStand ==
    ASSUME GaugesInv, \A q \in Request : Counted(q)' <=> Counted(q), counters' = counters
    PROVE  GaugesInv'
<1>1. Current(Http)' = Current(Http) /\ Current(Upgrade)' = Current(Upgrade)
  BY DEF Current, Request
<1> QED  BY <1>1 DEF GaugesInv

\* One element more, one element less.
LEMMA OneMoreOrLess ==
    ASSUME NEW C, IsFiniteSet(C), NEW r
    PROVE  /\ r \notin C => IsFiniteSet(C \cup {r}) /\ Cardinality(C \cup {r}) = Cardinality(C) + 1
           /\ r \in C => IsFiniteSet(C \ {r}) /\ Cardinality(C \ {r}) = Cardinality(C) - 1
BY FS_AddElement, FS_RemoveElement

\* A step that moves one request moves its gauge by one.
LEMMA GaugesMove ==
    ASSUME GaugesInv, RelayTypeOK, NEW r \in Request,
           \A q \in Request : q # r => (Counted(q)' <=> Counted(q)),
           \/ ~Counted(r) /\ Counted(r)' /\ counters' = [counters EXCEPT ![Gauge(r)] = @ + 1]
           \/ Counted(r) /\ ~Counted(r)' /\ counters' = [counters EXCEPT ![Gauge(r)] = @ - 1]
    PROVE  GaugesInv'
<1> USE RelayAssumption DEF RelayTypeOK
<1>1. /\ r \in Http => Current(Upgrade)' = Current(Upgrade)
      /\ r \in Upgrade => Current(Http)' = Current(Http)
  BY DEF Current, Request
<1>2. CASE ~Counted(r) /\ Counted(r)' /\ counters' = [counters EXCEPT ![Gauge(r)] = @ + 1]
  <2>1. CASE r \in Http
    <3>1. Current(Http)' = Current(Http) \cup {r} /\ r \notin Current(Http)
      BY <1>2, <2>1 DEF Current, Request
    <3>2. /\ IsFiniteSet(Current(Http) \cup {r})
          /\ Cardinality(Current(Http) \cup {r}) = Cardinality(Current(Http)) + 1
      BY <3>1, OneMoreOrLess DEF GaugesInv
    <3>3. /\ counters'["requestsInFlight"] = counters["requestsInFlight"] + 1
          /\ counters'["websocketsOpen"] = counters["websocketsOpen"]
      BY <1>2, <2>1 DEF Gauge
    <3> QED  BY <1>1, <2>1, <3>1, <3>2, <3>3 DEF GaugesInv
  <2>2. CASE r \in Upgrade
    <3>1. Current(Upgrade)' = Current(Upgrade) \cup {r} /\ r \notin Current(Upgrade)
      BY <1>2, <2>2 DEF Current, Request
    <3>2. /\ IsFiniteSet(Current(Upgrade) \cup {r})
          /\ Cardinality(Current(Upgrade) \cup {r}) = Cardinality(Current(Upgrade)) + 1
      BY <3>1, OneMoreOrLess DEF GaugesInv
    <3>3. /\ counters'["websocketsOpen"] = counters["websocketsOpen"] + 1
          /\ counters'["requestsInFlight"] = counters["requestsInFlight"]
      BY <1>2, <2>2 DEF Gauge
    <3> QED  BY <1>1, <2>2, <3>1, <3>2, <3>3 DEF GaugesInv
  <2> QED  BY <2>1, <2>2 DEF Request
<1>3. CASE Counted(r) /\ ~Counted(r)' /\ counters' = [counters EXCEPT ![Gauge(r)] = @ - 1]
  <2>1. CASE r \in Http
    <3>1. Current(Http)' = Current(Http) \ {r} /\ r \in Current(Http)
      BY <1>3, <2>1 DEF Current, Request
    <3>2. /\ IsFiniteSet(Current(Http) \ {r})
          /\ Cardinality(Current(Http) \ {r}) = Cardinality(Current(Http)) - 1
      BY <3>1, OneMoreOrLess DEF GaugesInv
    <3>3. /\ counters'["requestsInFlight"] = counters["requestsInFlight"] - 1
          /\ counters'["websocketsOpen"] = counters["websocketsOpen"]
      BY <1>3, <2>1 DEF Gauge
    <3> QED  BY <1>1, <2>1, <3>1, <3>2, <3>3 DEF GaugesInv
  <2>2. CASE r \in Upgrade
    <3>1. Current(Upgrade)' = Current(Upgrade) \ {r} /\ r \in Current(Upgrade)
      BY <1>3, <2>2 DEF Current, Request
    <3>2. /\ IsFiniteSet(Current(Upgrade) \ {r})
          /\ Cardinality(Current(Upgrade) \ {r}) = Cardinality(Current(Upgrade)) - 1
      BY <3>1, OneMoreOrLess DEF GaugesInv
    <3>3. /\ counters'["websocketsOpen"] = counters["websocketsOpen"] - 1
          /\ counters'["requestsInFlight"] = counters["requestsInFlight"]
      BY <1>3, <2>2 DEF Gauge
    <3> QED  BY <1>1, <2>2, <3>1, <3>2, <3>3 DEF GaugesInv
  <2> QED  BY <2>1, <2>2 DEF Request
<1> QED  BY <1>2, <1>3

\* Every step moves a gauge with the requests it counts.
LEMMA GaugesStep == RelayInv /\ GaugesInv /\ [RelayNext]_vars => GaugesInv'
<1> SUFFICES ASSUME RelayInv, GaugesInv, [RelayNext]_vars
             PROVE  GaugesInv'
  OBVIOUS
<1> USE RelayAssumption DEF RelayInv
<1>0. RelayTypeOK
  OBVIOUS
<1>1. ASSUME NEW r \in Request, NEW code, res[r] = "new", AnswerAtOnce(r, code)
      PROVE  GaugesInv'
  <2>1. ASSUME NEW q \in Request
        PROVE  Counted(q)' <=> Counted(q)
    BY <1>1 DEF AnswerAtOnce, Counted, Forwarded, RelayTypeOK, RequestInv, Untold
  <2> QED  BY <1>1, <2>1, GaugesStand DEF AnswerAtOnce
<1>2. ASSUME NEW r \in Request, NEW t \in Tunnel, NEW ip, Forward(r, t, ip)
      PROVE  GaugesInv'
  <2>1. NextPick(t) # Undefined
    BY <1>2, PickIsOpen DEF Forward, Resolve
  <2>2. ~Counted(r) /\ Counted(r)' /\ counters' = [counters EXCEPT ![Gauge(r)] = @ + 1]
    BY <1>2, <2>1 DEF Forward, Counted, Forwarded, RelayTypeOK
  <2>3. ASSUME NEW q \in Request, q # r
        PROVE  Counted(q)' <=> Counted(q)
    BY <1>2, <2>3 DEF Forward, Counted, Forwarded, RelayTypeOK
  <2> QED  BY <1>0, <2>2, <2>3, GaugesMove
<1>3. ASSUME NEW r \in Request, ClientResponse(r)
      PROVE  GaugesInv'
  <2> DEFINE hearers == {q \in Request : Hears(q, "response", r)}
             late    == {q \in hearers \cap Upgrade : res[q] = "ended"}
  <2>1. /\ res' = [q \in Request |-> IF q \in late THEN "closed" ELSE res[q]]
        /\ counters' = [counters EXCEPT !["websocketsOpen"] = @ - Cardinality(late)]
        /\ via' = via /\ via[r] # Undefined
    BY <1>3 DEF ClientResponse, Speaks
  <2>2. late = {} \/ (late = {r} /\ r \in Upgrade /\ res[r] = "ended")
    BY DEF Hears
  <2> HIDE DEF late, hearers
  <2>3. CASE late = {}
    <3>1. Cardinality(late) = 0
      BY <2>3, FS_EmptySet, Zenon
    <3>2. counters' = counters
      BY <2>1, <3>1 DEF RelayTypeOK
    <3>3. ASSUME NEW q \in Request
          PROVE  Counted(q)' <=> Counted(q)
      BY <2>1, <2>3 DEF Counted, Forwarded
    <3> QED  BY <3>2, <3>3, GaugesStand
  <2>4. CASE late = {r} /\ r \in Upgrade /\ res[r] = "ended"
    <3>1. Cardinality(late) = 1
      BY <2>4, FS_Singleton, Zenon
    <3>2. counters' = [counters EXCEPT ![Gauge(r)] = @ - 1]
      BY <2>1, <2>4, <3>1 DEF Gauge
    <3>3. Counted(r) /\ ~Counted(r)'
      BY <2>1, <2>4 DEF Counted, Forwarded
    <3>4. ASSUME NEW q \in Request, q # r
          PROVE  Counted(q)' <=> Counted(q)
      BY <2>1, <2>4, <3>4 DEF Counted, Forwarded
    <3> QED  BY <1>0, <3>2, <3>3, <3>4, GaugesMove
  <2> QED  BY <2>2, <2>3, <2>4
<1>4. ASSUME NEW r \in Request,
             ClientPipe(r) \/ ClientEnd(r) \/ ClientPipeError(r) \/ UploadEnd(r) \/ PipeFlows(r)
      PROVE  GaugesInv'
  <2>1. UNCHANGED <<res, via, counters>>
    BY <1>4 DEF ClientPipe, ClientEnd, ClientPipeError, AnswerStops, UploadEnd, PipeFlows
  <2> QED  BY <2>1, GaugesStand DEF Counted, Forwarded
<1>5. ASSUME NEW r \in Request,
             ClientRequestError(r) \/ UpgradeTimeout(r) \/ PipeEnds(r)
      PROVE  GaugesInv'
  <2>1. UNCHANGED <<via, counters>>
    BY <1>5 DEF ClientRequestError, AnswerStops, UpgradeTimeout, PipeEnds
  <2>2. ASSUME NEW q \in Request
        PROVE  res'[q] = res[q] \/ (res[q] = "open" /\ res'[q] = "ended")
    BY <1>5
    DEF ClientRequestError, AnswerStops, UpgradeTimeout, PipeEnds, Flows, RelayTypeOK
  <2> QED  BY <2>1, <2>2, GaugesStand DEF Counted, Forwarded
<1>6. ASSUME NEW r \in Request, Closes(r), res[r] \in {"open", "ended"}
      PROVE  GaugesInv'
  <2>1. ASSUME NEW q \in Request, q # r
        PROVE  Counted(q)' <=> Counted(q)
    BY <1>6, <2>1 DEF Closes, Counted, Forwarded, RelayTypeOK
  <2>2. ~Counted(r)'
    BY <1>6 DEF Closes, Counted, RelayTypeOK
  <2>3. CASE via[r] = Undefined
    <3>1. counters' = counters /\ ~Counted(r)
      BY <1>6, <2>3 DEF Closes, CountedDown, Counted, Forwarded
    <3> QED  BY <2>1, <2>2, <3>1, GaugesStand
  <2>4. CASE via[r] # Undefined
    <3>1. counters' = [counters EXCEPT ![Gauge(r)] = @ - 1] /\ Counted(r)
      BY <1>6, <2>4 DEF Closes, CountedDown, Counted, Forwarded
    <3> QED  BY <1>0, <2>1, <2>2, <3>1, GaugesMove
  <2> QED  BY <2>3, <2>4
<1>7. ASSUME NEW r \in Request, Flushed(r) \/ VisitorLeaves(r)
      PROVE  GaugesInv'
  <2>1. (Closes(r) /\ res[r] \in {"open", "ended"}) \/ UNCHANGED <<via, res, counters>>
    BY <1>7 DEF Flushed, VisitorLeaves
  <2>2. UNCHANGED <<via, res, counters>> => GaugesInv'
    BY GaugesStand DEF Counted, Forwarded
  <2> QED  BY <1>6, <2>1, <2>2
<1>8. ASSUME NEW s \in Socket, SocketDisconnects(s)
      PROVE  GaugesInv'
  <2>1. UNCHANGED <<via, counters>>
    BY <1>8 DEF SocketDisconnects
  <2>2. ASSUME NEW q \in Request
        PROVE  res'[q] = res[q] \/ (res[q] = "open" /\ res'[q] = "ended")
    BY <1>8 DEF SocketDisconnects, Failing
  <2> QED  BY <2>1, <2>2, GaugesStand DEF Counted, Forwarded
<1>9. ASSUME Crash
      PROVE  GaugesInv'
  <2>1. Current(Http)' = {} /\ Current(Upgrade)' = {}
    BY <1>9 DEF Crash, Current, Counted, Forwarded, Request
  <2>2. counters'["requestsInFlight"] = 0 /\ counters'["websocketsOpen"] = 0
    BY <1>9 DEF Crash
  <2> QED  BY <2>1, <2>2, FS_EmptySet DEF GaugesInv
<1>10. ASSUME UNCHANGED relayVars
       PROVE  GaugesInv'
  BY <1>10, GaugesStand DEF relayVars, Counted, Forwarded
<1>11. ASSUME NEW s \in Socket, ClientDies(s)
       PROVE  GaugesInv'
  BY <1>11, GaugesStand DEF ClientDies, Counted, Forwarded
<1> QED
  BY <1>1, <1>2, <1>3, <1>4, <1>5, <1>7, <1>8, <1>9, <1>10, <1>11
  DEF RelayNext, ClientStep, Reject, Block, ClientConnects, vars

\* Every forwarded request is counted up and down once, whatever ends it.
THEOREM GaugesExactHolds == RelaySpec => []GaugesExact
<1>1. RelayInit => GaugesInv
  <2> SUFFICES ASSUME RelayInit
               PROVE  GaugesInv
    OBVIOUS
  <2>1. Current(Http) = {} /\ Current(Upgrade) = {}
    BY DEF RelayInit, Current, Counted, Forwarded, Request
  <2> QED  BY <2>1, FS_EmptySet DEF RelayInit, GaugesInv
<1>2. GaugesInv => GaugesExact
  BY DEF GaugesInv, GaugesExact, Current, Counted
<1> QED  BY <1>1, <1>2, RelayInvariant, GaugesStep, PTL DEF RelaySpec
=============================================================================
