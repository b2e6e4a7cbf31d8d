-------------------------- MODULE ShareRelayProofs --------------------------
(***************************************************************************)
(* Proofs about the share relay, for any number of connections, keys and   *)
(* sessions and streams of any length.                                     *)
(*                                                                         *)
(* The argument rests on ShareInv: beside the types it says that a session *)
(* in the map is the one its id was opened for, that nothing has ended it  *)
(* yet and that an id nobody was given has no messages, and it carries     *)
(* PartiesConnected, without which a disconnect could leave a session that *)
(* no closure is left to end.                                              *)
(***************************************************************************)
EXTENDS ShareRelay, TLAPS

\* An open session is its parties' and nobody has asked for its end; an id that
\* was not used yet has left no trace.
SessionsRecorded ==
    \A id \in Session :
        /\ Has(id) => parties[id] = sessions[id] /\ endedBy[id] = None
        /\ parties[id] = None => /\ ~Has(id) /\ endedBy[id] = None
                                 /\ toHost[id] = <<>> /\ toClient[id] = <<>>

ShareInv == ShareTypeOK /\ PartiesConnected /\ SessionsRecorded

-----------------------------------------------------------------------------
(* Lemmas *)

\* Every message the handlers build belongs on a stream.
LEMMA Messages ==
    ASSUME NEW stream \in Streams, NEW s \in Socket \cup {None}
    PROVE  /\ Append(stream, Message("share-client", None)) \in Streams
           /\ Append(stream, Message("share-connected", None)) \in Streams
           /\ Append(stream, Message("share-session-start", None)) \in Streams
           /\ Append(stream, Message("share-data", s)) \in Streams
           /\ Append(stream, Message("share-end", None)) \in Streams
<1> DEFINE M == [event : {"share-client", "share-connected", "share-session-start",
                          "share-data", "share-end"},
                 payload : Socket \cup {None}]
<1>1. /\ Message("share-client", None) \in M /\ Message("share-connected", None) \in M
      /\ Message("share-session-start", None) \in M /\ Message("share-data", s) \in M
      /\ Message("share-end", None) \in M
  BY DEF Message
<1>2. \A m \in M : Append(stream, m) \in Seq(M)
  <2> stream \in Seq(M)
    BY DEF Streams
  <2> HIDE DEF M
  <2> QED  OBVIOUS
<1> QED  BY <1>1, <1>2 DEF Streams

\* The end of a stream is told.
LEMMA EndIsLast ==
    ASSUME NEW stream \in Streams
    PROVE  LET ended == Append(stream, Message("share-end", None))
           IN  ended # <<>> /\ ended[Len(ended)].event = "share-end"
BY DEF Streams, Message

-----------------------------------------------------------------------------
(* The inductive invariant *)

LEMMA TypeStep ==
    ASSUME ShareInv, [ShareNext]_shareVars
    PROVE  ShareTypeOK'
<1> USE ShareAssumption DEF ShareInv
<1>1. ASSUME NEW s \in Socket, Connect(s) \/ Refuse(s) \/ Dies(s)
      PROVE  ShareTypeOK'
  BY <1>1 DEF Connect, Refuse, Dies, ShareTypeOK
<1>2. ASSUME NEW s \in Socket, Disconnect(s)
      PROVE  ShareTypeOK'
  <2>1. \A id \in Session : /\ Append(toHost[id], Message("share-end", None)) \in Streams
                            /\ Append(toClient[id], Message("share-end", None)) \in Streams
    BY Messages DEF ShareTypeOK
  <2>2. toHost' \in [Session -> Streams] /\ toClient' \in [Session -> Streams]
    BY <1>2, <2>1 DEF Disconnect, ShareTypeOK
  <2> QED  BY <1>2, <2>2 DEF Disconnect, ShareTypeOK, KeyAfter
<1>3. ASSUME NEW s \in Socket, NEW k \in PublicKey, ShareRegister(s, k)
      PROVE  ShareTypeOK'
  BY <1>3 DEF ShareRegister, ShareTypeOK
<1>4. ASSUME NEW s \in Socket, NEW k \in PublicKey, NEW id \in Session, ShareConnect(s, k, id)
      PROVE  ShareTypeOK'
  <2>1. [host |-> shareHosts[k], client |-> s] \in Pair
    BY <1>4 DEF ShareConnect, ShareTypeOK, Pair
  <2>2. /\ Append(toHost[id], Message("share-client", None)) \in Streams
        /\ Append(toClient[id], Message("share-connected", None)) \in Streams
    BY Messages DEF ShareTypeOK
  <2> QED  BY <1>4, <2>1, <2>2 DEF ShareConnect, ShareTypeOK
<1>5. ASSUME NEW s \in Socket, NEW id \in Session,
             SessionStart(s, id) \/ ShareData(s, id) \/ ShareEnd(s, id)
      PROVE  ShareTypeOK'
  <2>1. \A stream \in {toHost[id], toClient[id]} :
            /\ Append(stream, Message("share-session-start", None)) \in Streams
            /\ Append(stream, Message("share-data", s)) \in Streams
            /\ Append(stream, Message("share-end", None)) \in Streams
    BY Messages DEF ShareTypeOK
  <2>2. CASE SessionStart(s, id)
    BY <2>1, <2>2 DEF SessionStart, ShareTypeOK
  <2>3. CASE ShareData(s, id)
    BY <2>1, <2>3 DEF ShareData, EmitToPeer, ShareTypeOK
  <2>4. CASE ShareEnd(s, id)
    BY <2>1, <2>4 DEF ShareEnd, EmitToPeer, ShareTypeOK
  <2> QED  BY <1>5, <2>2, <2>3, <2>4
<1>6. CASE UNCHANGED shareVars
  BY <1>6 DEF shareVars, ShareTypeOK
<1> QED  BY <1>1, <1>2, <1>3, <1>4, <1>5, <1>6 DEF ShareNext

\* What a disconnect leaves behind: a session that survives it has neither end
\* at the socket that left, and its host keeps its key.
LEMMA PartiesStep ==
    ASSUME ShareInv, [ShareNext]_shareVars
    PROVE  PartiesConnected'
<1> USE ShareAssumption DEF ShareInv, ShareTypeOK, PartiesConnected, Open, Has
<1>1. ASSUME NEW s \in Socket, Connect(s) \/ Refuse(s) \/ Dies(s)
      PROVE  PartiesConnected'
  <2>1. \A p \in Socket : Open(p) => Open(p)'
    BY <1>1 DEF Connect, Refuse, Dies
  <2>2. shareHosts' = shareHosts /\ sessions' = sessions
    BY <1>1 DEF Connect, Refuse, Dies
  <2> QED  BY <2>1, <2>2 DEF Pair
<1>2. ASSUME NEW s \in Socket, Disconnect(s)
      PROVE  PartiesConnected'
  <2>1. \A p \in Socket : p # s /\ Open(p) => Open(p)'
    BY <1>2 DEF Disconnect
  <2>2. \A k \in PublicKey : shareHosts'[k] = IF shareHosts[k] = s THEN None ELSE shareHosts[k]
    BY <1>2 DEF Disconnect, KeyAfter
  <2>3. ASSUME NEW id \in Session, Has(id)'
        PROVE  /\ sessions'[id] = sessions[id] /\ Has(id)
               /\ sessions[id].host # s /\ sessions[id].client # s
    <3>1. id \notin ClosedBy(s) /\ sessions'[id] = sessions[id]
      BY <1>2, <2>3 DEF Disconnect
    <3>2. \E k \in PublicKey : shareHosts[k] = sessions[id].host
      BY <2>3, <3>1
    <3> QED  BY <2>3, <3>1, <3>2 DEF ClosedBy, Hosted, Joined
  <2> QED  BY <2>1, <2>2, <2>3 DEF Pair
<1>3. ASSUME NEW s \in Socket, NEW k \in PublicKey, ShareRegister(s, k)
      PROVE  PartiesConnected'
  <2>1. /\ shareHosts' = [shareHosts EXCEPT ![k] = s] /\ shareHosts[k] = None
        /\ link' = link /\ sessions' = sessions /\ link[s] = "up"
    BY <1>3 DEF ShareRegister
  <2>2. \A j \in PublicKey : shareHosts[j] # None => shareHosts'[j] = shareHosts[j]
    BY <2>1
  <2> QED  BY <2>1, <2>2 DEF Pair
<1>4. ASSUME NEW s \in Socket, NEW k \in PublicKey, NEW id \in Session, ShareConnect(s, k, id)
      PROVE  PartiesConnected'
  BY <1>4 DEF ShareConnect, Pair
<1>5. ASSUME NEW s \in Socket, NEW id \in Session,
             SessionStart(s, id) \/ ShareData(s, id) \/ ShareEnd(s, id)
      PROVE  PartiesConnected'
  BY <1>5 DEF SessionStart, ShareData, ShareEnd, Pair
<1>6. CASE UNCHANGED shareVars
  BY <1>6 DEF shareVars
<1> QED  BY <1>1, <1>2, <1>3, <1>4, <1>5, <1>6 DEF ShareNext

LEMMA RecordStep ==
    ASSUME ShareInv, [ShareNext]_shareVars
    PROVE  SessionsRecorded'
<1> USE ShareAssumption DEF ShareInv, ShareTypeOK, SessionsRecorded, Has
<1>1. ASSUME NEW s \in Socket, Connect(s) \/ Refuse(s) \/ Dies(s)
      PROVE  SessionsRecorded'
  BY <1>1 DEF Connect, Refuse, Dies
<1>2. ASSUME NEW s \in Socket, Disconnect(s)
      PROVE  SessionsRecorded'
  <2>1. \A id \in Session : ~Has(id) => /\ toHost'[id] = toHost[id]
                                        /\ toClient'[id] = toClient[id]
    BY <1>2 DEF Disconnect, TellHost, TellClient, Hosted, Joined
  <2>2. \A id \in Session : Has(id)' => sessions'[id] = sessions[id] /\ Has(id)
    BY <1>2 DEF Disconnect
  <2>3. \A id \in Session : parties'[id] = None => parties[id] = None /\ ~Has(id)'
    BY <1>2, <2>2 DEF Disconnect
  <2> QED  BY <1>2, <2>1, <2>2, <2>3 DEF Disconnect
<1>3. ASSUME NEW s \in Socket, NEW k \in PublicKey, ShareRegister(s, k)
      PROVE  SessionsRecorded'
  BY <1>3 DEF ShareRegister
<1>4. ASSUME NEW s \in Socket, NEW k \in PublicKey, NEW id \in Session, ShareConnect(s, k, id)
      PROVE  SessionsRecorded'
  <2>1. [host |-> shareHosts[k], client |-> s] # None
    BY <1>4 DEF ShareConnect
  <2>2. \A x \in Session : x # id => /\ parties'[x] = parties[x] /\ sessions'[x] = sessions[x]
                                     /\ toHost'[x] = toHost[x] /\ toClient'[x] = toClient[x]
    BY <1>4 DEF ShareConnect
  <2>3. parties'[id] = sessions'[id] /\ parties'[id] # None /\ endedBy' = endedBy
        /\ parties[id] = None
    BY <1>4, <2>1 DEF ShareConnect
  <2> QED  BY <2>2, <2>3
<1>5. ASSUME NEW s \in Socket, NEW id \in Session,
             SessionStart(s, id) \/ ShareData(s, id) \/ ShareEnd(s, id)
      PROVE  SessionsRecorded'
  <2>1. Has(id) /\ parties[id] # None /\ parties' = parties
    BY <1>5 DEF SessionStart, ShareData, ShareEnd, Knows
  <2>2. \A x \in Session : x # id => /\ toHost'[x] = toHost[x] /\ toClient'[x] = toClient[x]
                                     /\ sessions'[x] = sessions[x] /\ endedBy'[x] = endedBy[x]
    BY <1>5 DEF SessionStart, ShareData, ShareEnd, EmitToPeer
  <2>3. sessions'[id] = None \/ (sessions'[id] = sessions[id] /\ endedBy'[id] = endedBy[id])
    BY <1>5 DEF SessionStart, ShareData, ShareEnd
  <2> QED  BY <2>1, <2>2, <2>3
<1>6. CASE UNCHANGED shareVars
  BY <1>6 DEF shareVars
<1> QED  BY <1>1, <1>2, <1>3, <1>4, <1>5, <1>6 DEF ShareNext

THEOREM ShareInvariant == ShareSpec => []ShareInv
<1>1. ShareInit => ShareInv
  <2> SUFFICES ASSUME ShareInit PROVE ShareInv
    OBVIOUS
  <2> <<>> \in Streams
    BY DEF Streams
  <2> QED  BY ShareAssumption DEF ShareInit, ShareInv, ShareTypeOK, PartiesConnected,
                                  SessionsRecorded, Has
<1>2. ShareInv /\ [ShareNext]_shareVars => ShareInv'
  BY TypeStep, PartiesStep, RecordStep DEF ShareInv
<1> QED  BY <1>1, <1>2, PTL DEF ShareSpec

\* The namespace's maps and streams keep their types.
THEOREM ShareTypeCorrect == ShareSpec => []ShareTypeOK
BY ShareInvariant, PTL DEF ShareInv

\* Nobody who has left is a host or takes part in a session, so no message is
\* ever emitted to a closed connection by the message handlers.
THEOREM PartiesStayConnected == ShareSpec => []PartiesConnected
BY ShareInvariant, PTL DEF ShareInv

-----------------------------------------------------------------------------
(* Both ends learn of the end *)

\* What each end of a session that is over knows (the conjuncts of EndNotified).
Told(stream) == stream # <<>> /\ stream[Len(stream)].event = "share-end"

Knowing(p, stream, id) == Told(stream) \/ endedBy[id] = p \/ link[p] = "gone"

BothKnow(id) ==
    parties[id] # None /\ ~Has(id) =>
        /\ Knowing(parties[id].host, toHost[id], id)
        /\ Knowing(parties[id].client, toClient[id], id)

\* Whatever ends a session (share-end of either side, or the disconnect of host
\* or client), the other end is told, if there still is another end.
THEOREM EndsAreNotified == ShareSpec => []EndNotified
<1>1. ShareInit => EndNotified
  BY DEF ShareInit, EndNotified
<1>2. ShareInv /\ EndNotified /\ [ShareNext]_shareVars => EndNotified'
  <2> SUFFICES ASSUME ShareInv, EndNotified, [ShareNext]_shareVars, NEW x \in Session
               PROVE  BothKnow(x)'
    BY DEF EndNotified, BothKnow, Knowing, Told, Has
  <2> USE ShareAssumption
  <2>0. BothKnow(x)
    BY DEF EndNotified, BothKnow, Knowing, Told
  <2>1. ASSUME NEW s \in Socket, Connect(s) \/ Refuse(s) \/ Dies(s)
        PROVE  BothKnow(x)'
    BY <2>0, <2>1 DEF Connect, Refuse, Dies, BothKnow, Knowing, Has, ShareInv, ShareTypeOK, Pair
  <2>2. ASSUME NEW s \in Socket, Disconnect(s)
        PROVE  BothKnow(x)'
    <3>1. /\ link' = [link EXCEPT ![s] = "gone"] /\ parties' = parties /\ endedBy' = endedBy
          /\ sessions'[x] = IF x \in ClosedBy(s) THEN None ELSE sessions[x]
          /\ toClient'[x] = IF TellClient(s, x) THEN Append(toClient[x], Message("share-end", None))
                                                ELSE toClient[x]
          /\ toHost'[x] = IF TellHost(s, x) THEN Append(toHost[x], Message("share-end", None))
                                            ELSE toHost[x]
      BY <2>2 DEF Disconnect
    <3>2. CASE ~Has(x)
      <4>1. toHost'[x] = toHost[x] /\ toClient'[x] = toClient[x] /\ sessions'[x] = None
        BY <3>1, <3>2 DEF TellClient, TellHost, Hosted, Joined, Has
      <4>2. \A p \in Socket : link[p] = "gone" => link'[p] = "gone"
        BY <3>1 DEF ShareInv, ShareTypeOK
      <4>3. parties[x] # None => parties[x].host \in Socket /\ parties[x].client \in Socket
        BY DEF ShareInv, ShareTypeOK, Pair
      <4> QED  BY <2>0, <3>1, <3>2, <4>1, <4>2, <4>3 DEF BothKnow, Knowing, Has
    <3>3. CASE Has(x) /\ x \in ClosedBy(s)
      <4>1. /\ parties[x] = sessions[x]
            /\ sessions[x].host \in Socket /\ sessions[x].client \in Socket
        BY <3>3 DEF ShareInv, SessionsRecorded, ShareTypeOK, Pair, Has
      <4>2. link'[s] = "gone" /\ (sessions[x].host = s \/ sessions[x].client = s)
        BY <3>1, <3>3 DEF ClosedBy, Hosted, Joined, ShareInv, ShareTypeOK
      <4>3. \E k \in PublicKey : shareHosts[k] = sessions[x].host
        BY <3>3 DEF ShareInv, PartiesConnected
      <4>4. sessions[x].host = s \/ Told(toHost'[x])
        <5>1. CASE sessions[x].host # s
          <6>1. toHost'[x] = Append(toHost[x], Message("share-end", None))
            BY <3>1, <3>3, <4>2, <5>1 DEF TellHost, Joined
          <6> QED  BY <6>1, EndIsLast DEF Told, ShareInv, ShareTypeOK
        <5> QED  BY <5>1
      <4>5. sessions[x].client = s \/ Told(toClient'[x])
        <5>1. CASE sessions[x].client # s
          <6>1. toClient'[x] = Append(toClient[x], Message("share-end", None))
            BY <3>1, <3>3, <4>2, <4>3, <5>1 DEF TellClient, Hosted
          <6> QED  BY <6>1, EndIsLast DEF Told, ShareInv, ShareTypeOK
        <5> QED  BY <5>1
      <4> QED  BY <3>1, <4>1, <4>2, <4>4, <4>5 DEF BothKnow, Knowing
    <3>4. CASE Has(x) /\ x \notin ClosedBy(s)
      BY <3>1, <3>4 DEF BothKnow, Has
    <3> QED  BY <3>2, <3>3, <3>4
  <2>3. ASSUME NEW s \in Socket, NEW k \in PublicKey, ShareRegister(s, k)
        PROVE  BothKnow(x)'
    BY <2>0, <2>3 DEF ShareRegister, BothKnow, Knowing, Has
  <2>4. ASSUME NEW s \in Socket, NEW k \in PublicKey, NEW id \in Session, ShareConnect(s, k, id)
        PROVE  BothKnow(x)'
    <3>1. CASE x = id
      <4>1. sessions'[x] = [host |-> shareHosts[k], client |-> s]
        BY <2>4, <3>1 DEF ShareConnect, ShareInv, ShareTypeOK
      <4>2. sessions'[x] # None
        BY <2>4, <4>1 DEF ShareConnect, ShareInv, ShareTypeOK
      <4> QED  BY <4>2 DEF BothKnow, Has
    <3>2. CASE x # id
      BY <2>0, <2>4, <3>2 DEF ShareConnect, BothKnow, Knowing, Has, ShareInv, ShareTypeOK
    <3> QED  BY <3>1, <3>2
  <2>5. ASSUME NEW s \in Socket, NEW id \in Session, SessionStart(s, id) \/ ShareData(s, id)
        PROVE  BothKnow(x)'
    <3>1. Has(id) /\ sessions' = sessions /\ parties' = parties /\ link' = link /\ endedBy' = endedBy
      BY <2>5 DEF SessionStart, ShareData, Knows
    <3>2. x # id => toHost'[x] = toHost[x] /\ toClient'[x] = toClient[x]
      BY <2>5 DEF SessionStart, ShareData, EmitToPeer, ShareInv, ShareTypeOK
    <3> QED  BY <2>0, <3>1, <3>2 DEF BothKnow, Knowing, Has
  <2>6. ASSUME NEW s \in Socket, NEW id \in Session, ShareEnd(s, id)
        PROVE  BothKnow(x)'
    <3>1. CASE x # id
      BY <2>0, <2>6, <3>1 DEF ShareEnd, EmitToPeer, BothKnow, Knowing, Has, ShareInv, ShareTypeOK
    <3>2. CASE x = id
      <4>1. /\ Has(x) /\ parties[x] = sessions[x] /\ parties' = parties
            /\ s \in {sessions[x].host, sessions[x].client} /\ endedBy'[x] = s
        BY <2>6, <3>2 DEF ShareEnd, Knows, ShareInv, SessionsRecorded, ShareTypeOK
      <4>2. IF sessions[x].host = s
            THEN toClient'[x] = Append(toClient[x], Message("share-end", None))
            ELSE toHost'[x] = Append(toHost[x], Message("share-end", None))
        BY <2>6, <3>2 DEF ShareEnd, EmitToPeer, ShareInv, ShareTypeOK
      <4>3. IF sessions[x].host = s THEN Told(toClient'[x]) ELSE Told(toHost'[x])
        BY <4>2, EndIsLast DEF Told, ShareInv, ShareTypeOK
      <4> QED  BY <4>1, <4>3 DEF BothKnow, Knowing
    <3> QED  BY <3>1, <3>2
  <2>7. CASE UNCHANGED shareVars
    BY <2>0, <2>7 DEF shareVars, BothKnow, Knowing, Has
  <2> QED  BY <2>1, <2>2, <2>3, <2>4, <2>5, <2>6, <2>7 DEF ShareNext
<1> QED  BY <1>1, <1>2, ShareInvariant, PTL DEF ShareSpec

-----------------------------------------------------------------------------
(* The relay implements ShareSessions *)

\* One session's part of a step of ShareSessions.
Kept(x) ==
    Promise!Begin(x) \/ Promise!ToHost(x) \/ Promise!ToClient(x) \/ Promise!End(x)
        \/ Promise!Stay(x)

\* A step that leaves a session's maps and streams alone is a stutter of it.
LEMMA Untouched ==
    ASSUME NEW x \in Session, parties'[x] = parties[x], sessions'[x] = sessions[x],
           toHost'[x] = toHost[x], toClient'[x] = toClient[x]
    PROVE  Kept(x)
BY DEF Kept, Promise!Stay

LEMMA MessagesAgree ==
    ASSUME NEW event, NEW payload
    PROVE  Promise!Message(event, payload) = Message(event, payload)
BY DEF Promise!Message, Message

\* Every session is what ShareSessions promises, whatever happens to the other
\* sessions, keys and connections.
THEOREM RelayKeepsSessions == ShareSpec => SessionsKept
<1>1. ShareInit => Promise!SessionsInit
  BY DEF ShareInit, Promise!SessionsInit
<1>2. ShareInv /\ [ShareNext]_shareVars => [Promise!SessionsNext]_(Promise!sessionVars)
  <2> SUFFICES ASSUME ShareInv, [ShareNext]_shareVars, NEW x \in Session
               PROVE  Kept(x)
    BY DEF Promise!SessionsNext, Kept
  <2> USE ShareAssumption
  <2>1. ASSUME NEW s \in Socket, Connect(s) \/ Refuse(s) \/ Dies(s)
        PROVE  Kept(x)
    BY <2>1, Untouched DEF Connect, Refuse, Dies
  <2>2. ASSUME NEW s \in Socket, Disconnect(s)
        PROVE  Kept(x)
    <3>1. /\ parties' = parties
          /\ sessions'[x] = IF x \in ClosedBy(s) THEN None ELSE sessions[x]
          /\ toClient'[x] = IF TellClient(s, x) THEN Append(toClient[x], Message("share-end", None))
                                                ELSE toClient[x]
          /\ toHost'[x] = IF TellHost(s, x) THEN Append(toHost[x], Message("share-end", None))
                                            ELSE toHost[x]
      BY <2>2 DEF Disconnect
    <3>2. CASE x \notin ClosedBy(s)
      BY <3>1, <3>2, Untouched DEF TellClient, TellHost, ClosedBy
    <3>3. CASE x \in ClosedBy(s)
      <4>1. Has(x) /\ parties[x] = sessions[x] /\ parties[x] # None
        BY <3>3 DEF ClosedBy, Hosted, Joined, ShareInv, SessionsRecorded, Has
      <4>2. ~(TellClient(s, x) /\ TellHost(s, x))
        BY DEF TellClient, TellHost, Hosted, Joined
      <4>3. Promise!End(x)
        BY <3>1, <3>3, <4>1, <4>2, MessagesAgree DEF Promise!End, Promise!Live, Has
      <4> QED  BY <4>3 DEF Kept
    <3> QED  BY <3>2, <3>3
  <2>3. ASSUME NEW s \in Socket, NEW k \in PublicKey, ShareRegister(s, k)
        PROVE  Kept(x)
    BY <2>3, Untouched DEF ShareRegister
  <2>4. ASSUME NEW s \in Socket, NEW k \in PublicKey, NEW id \in Session, ShareConnect(s, k, id)
        PROVE  Kept(x)
    <3>1. CASE x # id
      BY <2>4, <3>1, Untouched DEF ShareConnect, ShareInv, ShareTypeOK
    <3>2. CASE x = id
      <4>1. parties[x] = None /\ toHost[x] = <<>> /\ toClient[x] = <<>>
        BY <2>4, <3>2 DEF ShareConnect, ShareInv, SessionsRecorded
      <4>2. /\ parties'[x] = [host |-> shareHosts[k], client |-> s]
            /\ sessions'[x] = parties'[x] /\ parties'[x] # None
            /\ shareHosts[k] \in Socket
        BY <2>4, <3>2 DEF ShareConnect, ShareInv, ShareTypeOK
      <4>3. /\ toHost'[x] = <<Message("share-client", None)>>
            /\ toClient'[x] = <<Message("share-connected", None)>>
        BY <2>4, <3>2, <4>1 DEF ShareConnect, ShareInv, ShareTypeOK
      <4>4. Promise!Begin(x)
        BY <4>1, <4>2, <4>3, MessagesAgree DEF Promise!Begin
      <4> QED  BY <4>4 DEF Kept
    <3> QED  BY <3>1, <3>2
  <2>5. ASSUME NEW s \in Socket, NEW id \in Session,
               SessionStart(s, id) \/ ShareData(s, id) \/ ShareEnd(s, id)
        PROVE  Kept(x)
    <3>1. CASE x # id
      BY <2>5, <3>1, Untouched DEF SessionStart, ShareData, ShareEnd, EmitToPeer,
                                   ShareInv, ShareTypeOK
    <3>2. CASE x = id
      <4>1. /\ Has(x) /\ parties[x] = sessions[x] /\ parties[x] # None /\ parties' = parties
            /\ s \in {sessions[x].host, sessions[x].client}
        BY <2>5, <3>2 DEF SessionStart, ShareData, ShareEnd, Knows, ShareInv,
                          SessionsRecorded, Has
      <4>2. CASE SessionStart(s, id)
        <5>1. /\ toHost'[x] = Append(toHost[x], Message("share-session-start", None))
              /\ toClient' = toClient /\ sessions' = sessions
          BY <3>2, <4>2 DEF SessionStart, ShareInv, ShareTypeOK
        <5>2. Promise!ToHost(x)
          BY <4>1, <5>1, MessagesAgree DEF Promise!ToHost, Promise!Live, Has
        <5> QED  BY <5>2 DEF Kept
      <4>3. CASE ShareData(s, id)
        <5>1. /\ sessions' = sessions
              /\ IF sessions[x].host = s
                 THEN /\ toClient'[x] = Append(toClient[x], Message("share-data", s))
                      /\ toHost' = toHost
                 ELSE /\ toHost'[x] = Append(toHost[x], Message("share-data", s))
                      /\ toClient' = toClient
          BY <3>2, <4>3 DEF ShareData, EmitToPeer, ShareInv, ShareTypeOK
        <5>2. CASE sessions[x].host = s
          <6>1. Promise!ToClient(x)
            BY <4>1, <5>1, <5>2, MessagesAgree DEF Promise!ToClient, Promise!Live, Has
          <6> QED  BY <6>1 DEF Kept
        <5>3. CASE sessions[x].host # s
          <6>1. Promise!ToHost(x)
            BY <4>1, <5>1, <5>3, MessagesAgree DEF Promise!ToHost, Promise!Live, Has
          <6> QED  BY <6>1 DEF Kept
        <5> QED  BY <5>2, <5>3
      <4>4. CASE ShareEnd(s, id)
        <5>1. /\ sessions'[x] = None
              /\ IF sessions[x].host = s
                 THEN /\ toClient'[x] = Append(toClient[x], Message("share-end", None))
                      /\ toHost' = toHost
                 ELSE /\ toHost'[x] = Append(toHost[x], Message("share-end", None))
                      /\ toClient' = toClient
          BY <3>2, <4>4 DEF ShareEnd, EmitToPeer, ShareInv, ShareTypeOK
        <5>2. Promise!End(x)
          BY <4>1, <5>1, MessagesAgree DEF Promise!End, Promise!Live, Has
        <5> QED  BY <5>2 DEF Kept
      <4> QED  BY <2>5, <3>2, <4>2, <4>3, <4>4
    <3> QED  BY <3>1, <3>2
  <2>6. CASE UNCHANGED shareVars
    BY <2>6, Untouched DEF shareVars
  <2> QED  BY <2>1, <2>2, <2>3, <2>4, <2>5, <2>6 DEF ShareNext
<1> QED  BY <1>1, <1>2, ShareInvariant, PTL DEF ShareSpec, SessionsKept, Promise!SessionsSpec
=============================================================================
