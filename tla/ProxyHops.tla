------------------------------ MODULE ProxyHops ------------------------------
(***************************************************************************)
(* The two hops between a visitor and the relay: the router                *)
(* (server-router.ts) and the proxy server (TunnelRequestMiddleware.ts).   *)
(* Both have one shape: http.request to the next process, the upload piped *)
(* one way and the answer the other, and an 'error' listener.              *)
(*                                                                         *)
(* An answer travels as pieces over connections that keep their order.  A  *)
(* connection that is cut shows itself in one of two ways: "fin" is an     *)
(* 'error' of the forwarded request before the head, and after it only     *)
(* 'aborted', which nobody listens to; "rst" is an 'error' at any time.    *)
(* The relay is any server that may be cut so; TunnelRelay has its inside. *)
(*                                                                         *)
(* Both hops copy the headers, so an answer that announces its length      *)
(* keeps it on each connection, and a parser takes the body for complete   *)
(* by the count, whoever wrote it.  Pieces are what the receiver's parser  *)
(* makes of the bytes; what a hop copies, the next one parses as it did.   *)
(***************************************************************************)
EXTENDS Integers, Sequences

CONSTANTS
    Visitor,     \* HTTP requests of visitors, each used once
    Chunks,      \* chunks of a whole answer, each a unit of its length
    NoticeLength,   \* units of the text a server writes for an error
    MaxDeaths    \* bound on the deaths of a process for reasons of its own

ASSUME HopsAssumption ==
    Chunks \in Nat \ {0} /\ NoticeLength \in Nat \ {0} /\ MaxDeaths \in Nat

Hop == {"router", "proxy"}
Below == [proxy |-> "router", router |-> "visitor"]

Piece(kind) == [kind |-> kind, n |-> 0]

VARIABLES
    at,       \* request, router | proxy | visitor -> how far it is there
    wire,     \* request, receiver -> pieces on their way; the visitor keeps its own
    framing,  \* request -> whether its answer is "chunked" or has a "length"
    room,     \* request -> units of such a length that the proxy has not got
    sent,     \* request -> pieces of the answer the relay has sent
    upload,   \* request -> "open", "sent", or "cut" with its visitor or a hop
    early,    \* requests that were over for a server before their upload was
    spilt,    \* history: requests whose answer got more than its length
    up,       \* processes that run
    died      \* process -> deaths for reasons of its own

hopsVars == <<at, wire, framing, room, sent, upload, early, spilt, up, died>>

HopsInit ==
    /\ at      = [v \in Visitor |-> [x \in Hop \cup {"visitor"} |-> "new"]]
    /\ wire    = [v \in Visitor |-> [x \in Hop \cup {"visitor"} |-> <<>>]]
    /\ framing \in [Visitor -> {"chunked", "length"}]
    /\ room    = [v \in Visitor |-> Chunks]
    /\ sent    = [v \in Visitor |-> 0]
    /\ upload  = [v \in Visitor |-> "open"]
    /\ early   = {}
    /\ spilt   = {}
    /\ up      = Hop
    /\ died    = [h \in Hop |-> 0]

\* A chunked answer has an end of its own, one with a length ends in its last chunk.
Whole(v) ==
    <<Piece("head")>>
        \o [i \in 1 .. Chunks |->
              [kind |-> IF framing[v] = "length" /\ i = Chunks THEN "last" ELSE "chunk", n |-> i]]
        \o (IF framing[v] = "length" THEN <<>> ELSE <<Piece("end")>>)

\* With these pieces an answer is complete ("filled" is a text that made up its length).
Completing == {"end", "last", "filled"}

Got(v) == wire[v]["visitor"]
Kinds(v) == {Got(v)[i].kind : i \in 1 .. Len(Got(v))}
Over(v) == Kinds(v) \cap (Completing \cup {"fin", "rst"}) # {}

\* Pieces for one that is gone are lost.
Delivered(v, x, pieces) ==
    IF at[v][x] = "lost" THEN wire[v] ELSE [wire[v] EXCEPT ![x] = @ \o pieces]

\* A server may close the connection behind an answer, the visitor's 'Connection'
\* header being passed on; with the upload still under way that is a reset.
Closing(v, pieces) ==
    {pieces} \cup IF upload[v] = "sent" THEN {} ELSE {Append(pieces, Piece("rst"))}

\* The text of an error does not make up for what the answer lacks of its length.
Short(v, lacking) == framing[v] = "length" /\ NoticeLength < lacking

\* What such a text becomes behind the head of an answer that lacks a number of
\* units.  Bytes behind a complete answer are a parse error, unless they are read
\* when nobody waits for any.
Noted(v, lacking) ==
    IF framing[v] = "chunked" THEN {<<Piece("notice"), Piece("end")>>}
    ELSE IF Short(v, lacking) THEN {<<Piece("notice")>>}
    ELSE IF NoticeLength = lacking THEN {<<Piece("filled")>>}
    ELSE {<<Piece("filled")>>, <<Piece("filled"), Piece("rst")>>}

\* The text is longer than what lacks.
Spills(v, lacking) ==
    spilt' = IF framing[v] = "length" /\ NoticeLength > lacking THEN spilt \cup {v} ELSE spilt

-----------------------------------------------------------------------------
(* The request on its way up *)

\* The router asks the proxy, whose port refuses when it is down.
Visit(v) ==
    /\ at[v]["visitor"] = "new" /\ "router" \in up
    /\ at' = [at EXCEPT ![v] = [visitor |-> "waiting", router |-> "waiting",
                                proxy |-> IF "proxy" \in up THEN "reached" ELSE "lost"]]
    /\ wire' = IF "proxy" \in up THEN wire ELSE [wire EXCEPT ![v]["router"] = <<Piece("rst")>>]
    /\ UNCHANGED <<framing, room, sent, upload, early, spilt, up, died>>

\* Without a tunnel id the proxy answers itself, else it asks the relay.
Forward(v) ==
    /\ at[v]["proxy"] = "reached"
    /\ \/ at' = [at EXCEPT ![v]["proxy"] = "waiting"] /\ UNCHANGED <<wire, early>>
       \/ /\ at' = [at EXCEPT ![v]["proxy"] = "ended"]
          /\ \E ps \in Closing(v, <<Piece("refused"), Piece("notice"), Piece("end")>>) :
                wire' = [wire EXCEPT ![v] = Delivered(v, "router", ps)]
          /\ early' = IF upload[v] = "sent" THEN early ELSE early \cup {v}
    /\ UNCHANGED <<framing, room, sent, upload, spilt, up, died>>

\* The end of the upload, piped all the way.
UploadEnds(v) ==
    /\ at[v]["visitor"] = "waiting" /\ upload[v] = "open"
    /\ upload' = [upload EXCEPT ![v] = "sent"]
    /\ UNCHANGED <<at, wire, framing, room, sent, early, spilt, up, died>>

\* The visitor's connection closes: pipe() lets go of the answer, and nothing
\* ends the request to the next hop.
Leave(v) ==
    /\ at[v]["visitor"] = "waiting" /\ ~Over(v)
    /\ at' = [at EXCEPT ![v]["visitor"] = "lost"]
    /\ upload' = [upload EXCEPT ![v] = IF @ = "open" THEN "cut" ELSE @]
    /\ UNCHANGED <<wire, framing, room, sent, early, spilt, up, died>>

-----------------------------------------------------------------------------
(* The relay: a head, the chunks, the end, and at any point a cut or a failure *)

Asked(v) == at[v]["proxy"] \in {"waiting", "answering"} /\ sent[v] < Len(Whole(v))

\* The relay's response ends with these pieces.
RelayEnds(v, pieces) ==
    /\ sent' = [sent EXCEPT ![v] = Len(Whole(v))]
    /\ \E ps \in Closing(v, pieces) : wire' = [wire EXCEPT ![v] = Delivered(v, "proxy", ps)]
    /\ early' = IF upload[v] = "sent" THEN early ELSE early \cup {v}

RelaySends(v) ==
    /\ Asked(v)
    /\ LET piece == <<Whole(v)[sent[v] + 1]>>
       IN  \/ /\ sent[v] + 1 < Len(Whole(v))
              /\ sent' = [sent EXCEPT ![v] = @ + 1]
              /\ wire' = [wire EXCEPT ![v] = Delivered(v, "proxy", piece)]
              /\ UNCHANGED early
           \/ sent[v] + 1 = Len(Whole(v)) /\ RelayEnds(v, piece)
    /\ UNCHANGED <<at, framing, room, upload, spilt, up, died>>

RelayCut(v) ==
    /\ Asked(v)
    /\ sent' = [sent EXCEPT ![v] = Len(Whole(v))]
    /\ \E how \in {"fin", "rst"} :
          wire' = [wire EXCEPT ![v] = Delivered(v, "proxy", <<Piece(how)>>)]
    /\ UNCHANGED <<at, framing, room, upload, early, spilt, up, died>>

\* 'Tunnel disconnected' in the middle of an answer.  One that stays short of its
\* length is cut off by the keep-alive timeout, if not at once.
RelayNotice(v) ==
    /\ Asked(v) /\ sent[v] > 0
    /\ LET lacking == Len(Whole(v)) - sent[v]
       IN  /\ \E ps \in Noted(v, lacking) :
                 IF Short(v, lacking)
                 THEN \E how \in {"fin", "rst"} : RelayEnds(v, Append(ps, Piece(how)))
                 ELSE RelayEnds(v, ps)
           /\ Spills(v, lacking)
    /\ UNCHANGED <<at, framing, room, upload, up, died>>

\* The tunnel's client sends a body that is longer than its length says.
RelaySpills(v) ==
    /\ Asked(v) /\ framing[v] = "length" /\ sent[v] + 1 = Len(Whole(v))
    /\ RelayEnds(v, <<Whole(v)[Len(Whole(v))], Piece("rst")>>)
    /\ spilt' = spilt \cup {v}
    /\ UNCHANGED <<at, framing, room, upload, up, died>>

-----------------------------------------------------------------------------
(* The answer on its way down *)

\* Hop h takes the next piece off its connection, gets to a state and writes.
Hears(v, h, state, pieces) ==
    /\ at' = [at EXCEPT ![v][h] = state]
    /\ wire' = [wire EXCEPT ![v] = [Delivered(v, Below[h], pieces) EXCEPT ![h] = Tail(@)]]
    /\ UNCHANGED <<framing, sent, upload, up, died>>

Comes(v, h, kinds) == wire[v][h] # <<>> /\ Head(wire[v][h]).kind \in kinds

\* The answer ends as far as h is concerned.
Ends(v, h, pieces) ==
    /\ \E ps \in IF h = "proxy" THEN Closing(v, pieces) ELSE {pieces} : Hears(v, h, "ended", ps)
    /\ early' = IF upload[v] = "sent" THEN early ELSE early \cup {v}
    /\ UNCHANGED spilt

\* What the text or a chunk takes of the answer's length.
Units == [chunk |-> 1, notice |-> NoticeLength]

\* writeHead and pipe: a piece is passed on as it came.
Pipe(v, h) ==
    /\ at[v][h] \in {"waiting", "answering"}
    /\ \/ /\ Comes(v, h, {"head", "failed", "refused", "chunk", "notice"})
          /\ Hears(v, h, "answering", <<Head(wire[v][h])>>)
          /\ room' = IF h = "proxy" /\ Comes(v, h, DOMAIN Units)
                     THEN [room EXCEPT ![v] = @ - Units[Head(wire[v][h]).kind]] ELSE room
          /\ UNCHANGED <<early, spilt>>
       \/ /\ Comes(v, h, Completing)
          /\ Ends(v, h, <<Head(wire[v][h])>>)
          /\ UNCHANGED room

\* Mutant: the error is only logged.
OwnAnswerNone(h) == <<>>

\* What the 'error' listener writes when there is no head yet.
OwnAnswer(h) ==
    IF h = "router" THEN <<Piece("failed"), Piece("end")>>
    ELSE <<Piece("failed"), Piece("notice"), Piece("end")>>

ErrorBeforeHead(v, h) ==
    /\ at[v][h] = "waiting" /\ Comes(v, h, {"fin", "rst"})
    /\ Ends(v, h, OwnAnswer(h))
    /\ UNCHANGED room

\* Mutant: an answer that is cut off is ended.
AbortedEnds(h) == <<"ended", <<Piece("end")>>>>

\* An answer that is cut off is 'aborted': its pipe does not end the response.
Aborted(h) == <<"stalled", <<>>>>

AbortAfterHead(v, h) ==
    /\ at[v][h] = "answering" /\ Comes(v, h, {"fin"})
    /\ Hears(v, h, Aborted(h)[1], Aborted(h)[2])
    /\ UNCHANGED <<room, early, spilt>>

\* Mutant: the proxy destroys a response it cannot complete.
ErrorAfterHeadDestroys(v) ==
    /\ at[v]["proxy"] = "answering" /\ Comes(v, "proxy", {"rst"})
    /\ Hears(v, "proxy", "ended", <<Piece("rst")>>)
    /\ UNCHANGED <<room, early, spilt>>

\* res.status(502).end(): the head is out, so only the text goes into the body.
ErrorAfterHead(v) ==
    /\ at[v]["proxy"] = "answering" /\ Comes(v, "proxy", {"rst"})
    /\ \E text \in Noted(v, room[v]) : \E ps \in Closing(v, text) :
          Hears(v, "proxy", IF Short(v, room[v]) THEN "short" ELSE "ended", ps)
    /\ early' = IF upload[v] = "sent" THEN early ELSE early \cup {v}
    /\ Spills(v, room[v])
    /\ UNCHANGED room

\* The keep-alive timeout closes a connection behind a response that is done for
\* the proxy, while the router still waits for the rest of its length.
IdleCloses(v) ==
    /\ at[v]["proxy"] = "short"
    /\ at' = [at EXCEPT ![v]["proxy"] = "ended"]
    /\ wire' = [wire EXCEPT ![v] = Delivered(v, "router", <<Piece("fin")>>)]
    /\ UNCHANGED <<framing, room, sent, upload, early, spilt, up, died>>

\* Surplus bytes read with the last ones: the proxy has not ended its response yet,
\* and its text goes behind a complete body.
ErrorSpills(v) ==
    /\ at[v]["proxy"] = "ended" /\ v \in spilt /\ Comes(v, "proxy", {"rst"})
    /\ Hears(v, "proxy", "ended", <<Piece("rst")>>)
    /\ UNCHANGED <<room, early, spilt>>

\* server.requestTimeout: a request that is not there in full after five minutes is
\* answered 408, or only cut off when it has its head.
RequestTimeout(v, h) ==
    /\ upload[v] # "sent" /\ at[v][h] \in {"waiting", "answering", "stalled", "short"}
    /\ at' = [at EXCEPT ![v][h] = "lost"]
    /\ upload' = [upload EXCEPT ![v] = "cut"]
    /\ early' = early \cup {v}
    /\ \E ps \in IF at[v][h] = "waiting" THEN {<<Piece("failed"), Piece("end")>>}
                ELSE {<<Piece("fin")>>, <<Piece("rst")>>} :
          wire' = [wire EXCEPT ![v] = Delivered(v, Below[h], ps)]
    /\ UNCHANGED <<framing, room, sent, spilt, up, died>>

\* Process h dies, and every connection with something under way is cut.
Dies(h) ==
    LET open(v) == \/ at[v][h] \in {"reached", "waiting", "answering", "stalled", "short"}
                   \/ at[v][h] = "ended" /\ upload[v] # "sent"
    IN  /\ up' = up \ {h}
        /\ at' = [v \in Visitor |-> IF open(v) THEN [at[v] EXCEPT ![h] = "lost"] ELSE at[v]]
        /\ upload' = [v \in Visitor |->
                         IF open(v) /\ upload[v] = "open" THEN "cut" ELSE upload[v]]
        /\ \E how \in {"fin", "rst"} :
              wire' = [v \in Visitor |->
                          IF open(v) THEN Delivered(v, Below[h], <<Piece(how)>>) ELSE wire[v]]
        /\ UNCHANGED <<framing, room, sent, early, spilt>>

\* The router's listener calls writeHead again, which throws.  A response that is
\* ended makes the proxy throw too when it is not flushed yet.
ErrorThrows(v, h) ==
    /\ at[v][h] \in (IF h = "router" THEN {"answering", "ended"} ELSE {"ended"})
    /\ Comes(v, h, {"rst"})
    /\ Dies(h) /\ UNCHANGED died

\* Nothing is written for an error that comes after the end.
ErrorIgnored(v, h) ==
    /\ at[v][h] = "ended" /\ Comes(v, h, {"rst", "fin"})
    /\ Hears(v, h, "ended", <<>>)
    /\ UNCHANGED <<room, early, spilt>>

Death(h) ==
    /\ h \in up /\ died[h] < MaxDeaths
    /\ died' = [died EXCEPT ![h] = @ + 1]
    /\ Dies(h)

\* The daemon starts it again.
Restart(h) ==
    /\ h \notin up
    /\ up' = up \cup {h}
    /\ UNCHANGED <<at, wire, framing, room, sent, upload, early, spilt, died>>

HopStep(v, h) ==
    \/ Pipe(v, h) \/ ErrorBeforeHead(v, h) \/ AbortAfterHead(v, h)
    \/ h = "proxy" /\ (ErrorAfterHead(v) \/ IdleCloses(v) \/ ErrorSpills(v))
    \/ ErrorThrows(v, h) \/ ErrorIgnored(v, h)

HopsNext ==
    \/ \E v \in Visitor :
          \/ Visit(v) \/ Forward(v) \/ UploadEnds(v) \/ Leave(v)
          \/ RelaySends(v) \/ RelayCut(v) \/ RelayNotice(v) \/ RelaySpills(v)
          \/ \E h \in Hop : HopStep(v, h) \/ RequestTimeout(v, h)
    \/ \E h \in Hop : Death(h) \/ Restart(h)

\* Running processes get to their work, and the relay answers or is cut off.
HopsFairness ==
    \A v \in Visitor :
        /\ WF_hopsVars(Forward(v)) /\ WF_hopsVars(RelaySends(v))
        /\ \A h \in Hop : WF_hopsVars(HopStep(v, h))

HopsSpec == HopsInit /\ [][HopsNext]_hopsVars /\ HopsFairness

-----------------------------------------------------------------------------
(* Properties *)

\* An answer that is complete at the visitor is the relay's whole one, or one a hop
\* made up, or has in it the text of an error: behind what there is of a chunked
\* body, or, with a length, in the place of what lacks of it.
AnswerIntact ==
    \A v \in Visitor :
        /\ Kinds(v) \cap Completing # {}
        /\ "head" \in Kinds(v) /\ Kinds(v) \cap {"notice", "filled"} = {}
        => Len(Got(v)) >= Len(Whole(v)) /\ SubSeq(Got(v), 1, Len(Whole(v))) = Whole(v)

\* Whatever becomes of the relay, the router runs on for its other visitors: only a
\* proxy that died, an answer that was over before its upload, or one that got more
\* bytes than its length said, can end it.
RouterOutlivesRelay ==
    "router" \notin up => died["router"] + died["proxy"] > 0 \/ early # {} \/ spilt # {}

\* A visitor that stays gets an answer with an end, or a closed connection, unless
\* a hop's own upstream closed quietly in the middle of an answer.
VisitorServed ==
    \A v \in Visitor :
        at[v]["visitor"] = "waiting"
            ~> Over(v) \/ at[v]["visitor"] = "lost" \/ \E h \in Hop : at[v][h] = "stalled"
=============================================================================
