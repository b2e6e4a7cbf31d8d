---------------------------- MODULE TunnelWriter ----------------------------
(***************************************************************************)
(* Uploads of several visitors over one tunnel connection: TunnelRequest   *)
(* is a Writable whose _write, _writev and _final emit on the socket and   *)
(* call back at the connection's next 'drain'.                             *)
(*                                                                         *)
(* socket.io sends a chunk as a header packet and one attachment packet    *)
(* per buffer.  engine.io hands its write buffer to the transport as soon  *)
(* as that is writable and emits 'drain' at once, inside emit(): so for    *)
(* the header alone, before the attachment is written, for the packets of  *)
(* every other upload, and for an end before anybody listens.              *)
(***************************************************************************)
EXTENDS Integers, Sequences, SequencesExt

CONSTANTS
    Writer,    \* uploads over the connection
    MaxChunks  \* chunks a visitor sends

ASSUME WriterAssumption == MaxChunks \in Nat /\ "nobody" \notin Writer

VARIABLES
    conn,      \* the connection: write buffer, transport, listeners
    arrived,   \* writer -> chunks the visitor has sent
    ended      \* writers whose visitor has sent the end

\* conn is one record because an emit, the drains in it and the callbacks in those
\* are one step:
\*   open, writable    the connection, and whether its transport takes packets
\*   buffer            engine.io's write buffer
\*   waiting           writers with a 'drain' listener, in their order
\*   phase             writer -> "idle", "writing", "final", "finished", "destroyed"
\*   queue             writer -> chunks that its Writable holds
\*   sent              writer -> chunks handed to the transport
writerVars == <<conn, arrived, ended>>

WriterInit ==
    /\ conn = [open |-> TRUE, writable |-> TRUE, buffer |-> <<>>, waiting |-> <<>>,
               phase |-> [w \in Writer |-> "idle"], queue |-> [w \in Writer |-> 0],
               sent |-> [w \in Writer |-> 0]]
    /\ arrived = [w \in Writer |-> 0]
    /\ ended = {}

-----------------------------------------------------------------------------
(* socket.io and engine.io *)

Packet(kind, w) == [kind |-> kind, writer |-> w]

\* The packets of 'request-pipe' and 'request-pipes' with n chunks.
ChunkPackets(w, n) == <<Packet("header", w)>> \o [i \in 1 .. n |-> Packet("attachment", w)]

Handed(c, w) ==
    Len(SelectSeq(c.buffer, LAMBDA p : p = Packet("attachment", w)))

-----------------------------------------------------------------------------
(* TunnelRequest *)

\* A write while the transport is busy, as in a drain.
Queued(c, w, packets) ==
    [c EXCEPT !.buffer = @ \o packets, !.waiting = Append(@, w)]

\* The callback: Writable goes on with all that has come meanwhile, by _write or
\* _writev.  One that was destroyed does not.
Called(c, w) ==
    IF c.phase[w] = "destroyed" THEN c
    ELSE IF c.phase[w] = "final" THEN [c EXCEPT !.phase[w] = "finished"]
    ELSE IF c.queue[w] = 0 THEN [c EXCEPT !.phase[w] = "idle"]
    ELSE [Queued(c, w, ChunkPackets(w, c.queue[w])) EXCEPT !.queue[w] = 0]

\* flush(): the whole buffer goes out and everybody who waits is called.
Flushed(c) ==
    IF ~c.writable \/ c.buffer = <<>> THEN c
    ELSE FoldLeft(Called,
                  [c EXCEPT !.sent = [w \in Writer |-> @[w] + Handed(c, w)],
                            !.buffer = <<>>, !.writable = FALSE, !.waiting = <<>>],
                  c.waiting)

\* Packet after packet: what follows the first one finds the transport busy.
Emitted(c, packets) ==
    LET first == Flushed([c EXCEPT !.buffer = Append(@, Head(packets))])
    IN  [first EXCEPT !.buffer = @ \o Tail(packets)]

\* Mutant: the listener is attached before the packets are emitted.
WrittenListening(c, w, packets) ==
    Emitted([c EXCEPT !.waiting = Append(@, w)], packets)

\* Mutant: it listens only while something is left in the buffer.
WrittenIfBusy(c, w, packets) ==
    LET emitted == Emitted(c, packets)
    IN  IF emitted.buffer = <<>> THEN emitted ELSE [emitted EXCEPT !.waiting = Append(@, w)]

\* socket.emit(), then conn.once('drain').
Written(c, w, packets) ==
    LET emitted == Emitted(c, packets) IN [emitted EXCEPT !.waiting = Append(@, w)]

\* Bytes of the visitor arrive and are piped on.
Arrives(w) ==
    /\ conn.open /\ arrived[w] < MaxChunks /\ w \notin ended
    /\ conn.phase[w] \in {"idle", "writing"}
    /\ arrived' = [arrived EXCEPT ![w] = @ + 1]
    /\ conn' = IF conn.phase[w] = "writing"
               THEN [conn EXCEPT !.queue[w] = @ + 1]
               ELSE Written([conn EXCEPT !.phase[w] = "writing"], w, ChunkPackets(w, 1))
    /\ UNCHANGED ended

Finishes(w) ==
    /\ conn.open /\ w \notin ended /\ conn.phase[w] \in {"idle", "writing"}
    /\ ended' = ended \cup {w}
    /\ UNCHANGED <<conn, arrived>>

Final(w) ==
    /\ conn.open /\ w \in ended /\ conn.phase[w] = "idle"
    /\ conn' = Written([conn EXCEPT !.phase[w] = "final"], w, <<Packet("end", w)>>)
    /\ UNCHANGED <<arrived, ended>>

\* The visitor breaks off: the Writable is destroyed without an error.
Destroy(w) ==
    /\ conn.phase[w] \in {"idle", "writing"} /\ w \notin ended
    /\ conn' = [conn EXCEPT !.phase[w] = "destroyed", !.queue[w] = 0]
    /\ UNCHANGED <<arrived, ended>>

-----------------------------------------------------------------------------
(* The connection *)

\* The transport has written what it was given.
Ready ==
    /\ conn.open /\ ~conn.writable
    /\ conn' = Flushed([conn EXCEPT !.writable = TRUE])
    /\ UNCHANGED <<arrived, ended>>

\* Any other packet: the heartbeat, or a message of another request.
Ping ==
    /\ conn.open /\ conn.waiting # <<>>
    /\ conn.writable
    /\ conn' = Emitted(conn, <<Packet("ping", "nobody")>>)
    /\ UNCHANGED <<arrived, ended>>

Close ==
    /\ conn.open
    /\ conn' = [conn EXCEPT !.open = FALSE]
    /\ UNCHANGED <<arrived, ended>>

WriterNext ==
    \/ \E w \in Writer : Arrives(w) \/ Finishes(w) \/ Final(w) \/ Destroy(w)
    \/ Ready \/ Ping \/ Close

\* The transport writes while the connection is open, and the heartbeat beats.
WriterFairness ==
    /\ WF_writerVars(Ready) /\ WF_writerVars(Ping)
    /\ \A w \in Writer : WF_writerVars(Final(w))

WriterSpec == WriterInit /\ [][WriterNext]_writerVars /\ WriterFairness

-----------------------------------------------------------------------------
(* Properties *)

\* A writer takes its next chunk only when all packets of the last one have left
\* the write buffer: no drain that comes for the header alone, or for another
\* upload's packets, lets a visitor run ahead of the client.
UploadBounded ==
    \A w \in Writer : conn.phase[w] \in {"idle", "finished"} =>
        \A i \in 1 .. Len(conn.buffer) : conn.buffer[i].writer # w

\* What a visitor has sent reaches the client, and the writer of a whole upload
\* finishes, unless the visitor breaks off or the connection closes.
UploadFlows ==
    \A w \in Writer :
        w \in ended ~> \/ conn.phase[w] = "finished" /\ conn.sent[w] = arrived[w]
                       \/ conn.phase[w] = "destroyed" \/ ~conn.open
=============================================================================
