----------------------------- MODULE ProxyHopsProofs -----------------------------
(***************************************************************************)
(* What holds between a visitor and the relay, for any number of visitors, *)
(* deaths and chunks.                                                      *)
(***************************************************************************)
EXTENDS ProxyHops, SequenceTheorems, TLAPS

Party == Hop \cup {"visitor"}
Stage == {"new", "reached", "waiting", "answering", "stalled", "short", "ended", "lost"}
Mark == {"head", "end", "failed", "refused", "notice", "filled", "fin", "rst"}
AnyPiece == {Piece(kind) : kind \in Mark} \cup [kind : {"chunk", "last"}, n : Nat]
FinalKind == Completing \cup {"fin", "rst"}
Telling == {"notice", "filled", "fin", "rst"}

\* The variables have their types.
HopsTypeOK ==
    /\ at \in [Visitor -> [Party -> Stage]]
    /\ wire \in [Visitor -> [Party -> Seq(AnyPiece)]]
    /\ framing \in [Visitor -> {"chunked", "length"}]
    /\ room \in [Visitor -> Int]
    /\ sent \in [Visitor -> Nat] /\ \A v \in Visitor : sent[v] <= Len(Whole(v))
    /\ upload \in [Visitor -> {"open", "sent", "cut"}]
    /\ early \subseteq Visitor /\ spilt \subseteq Visitor /\ up \subseteq Hop
    /\ died \in [Hop -> Nat]

-----------------------------------------------------------------------------
(* The stream of an answer *)

\* A relay's whole answer has its head first, and only its last piece makes it complete.
IsAnswer(w) ==
    /\ w \in Seq(AnyPiece) /\ Len(w) \in Nat /\ Len(w) >= 2
    /\ \A i \in 1 .. Len(w) :
          /\ w[i] \in AnyPiece /\ w[i].kind \in {"head", "chunk", "last", "end"}
          /\ w[i].kind = "head" <=> i = 1
          /\ w[i].kind \in Completing <=> i = Len(w)

\* What deviates from an answer says so where it begins to.
Marked(w, s) ==
    \A m \in 1 .. Len(s) :
        \/ m > Len(w)
        \/ s[m] = w[m]
        \/ s[1].kind \in {"failed", "refused"}
        \/ \E k \in 1 .. m : s[k].kind \in Telling

HeadFirst(s) == \A m \in 1 .. Len(s) : s[m].kind = "head" => m = 1

Listening(v) == at[v]["proxy"] \in {"waiting", "answering"}

\* What the visitor has and what is still to come of it.
Flow(v) ==
    (Got(v) \o wire[v]["router"]) \o (IF Listening(v) THEN wire[v]["proxy"] ELSE <<>>)

\* The router still passes on what comes, to somebody.
Passing(v) == at[v]["visitor"] # "lost" /\ at[v]["router"] \in {"new", "waiting", "answering"}

FlowMarked(v) == Passing(v) => Marked(Whole(v), Flow(v)) /\ HeadFirst(Flow(v))

\* As long as the relay is not done, all of it is the relay's.
FlowIsAnswer(v) ==
    Passing(v) /\ Asked(v) =>
        Len(Flow(v)) = sent[v] /\ \A i \in 1 .. sent[v] : Flow(v)[i] = Whole(v)[i]

NothingYet(v) ==
    /\ at[v]["router"] \in {"new", "waiting"} => Got(v) = <<>>
    /\ Passing(v) /\ at[v]["proxy"] \in {"new", "reached", "waiting"} =>
          at[v]["router"] # "answering" /\ wire[v]["router"] = <<>>
    /\ at[v]["proxy"] \in {"new", "reached"} => wire[v]["proxy"] = <<>> /\ sent[v] = 0
    /\ at[v]["router"] = "new" => at[v]["proxy"] = "new"
    /\ at[v]["visitor"] = "new" => at[v]["router"] = "new"

NoEnd(s) == \A i \in 1 .. Len(s) : s[i].kind \notin FinalKind

NoEndYet(v) == Passing(v) => NoEnd(Got(v))

\* AnswerIntact of what one visitor got.
Intact(w, s) ==
    /\ \E i \in 1 .. Len(s) : s[i].kind \in Completing
    /\ \E i \in 1 .. Len(s) : s[i].kind = "head"
    /\ \A i \in 1 .. Len(s) : s[i].kind \notin {"notice", "filled"}
    => Len(s) >= Len(w) /\ \A i \in 1 .. Len(w) : s[i] = w[i]

AnswerOf(v) ==
    FlowMarked(v) /\ FlowIsAnswer(v) /\ NothingYet(v) /\ NoEndYet(v) /\ Intact(Whole(v), Got(v))

-----------------------------------------------------------------------------
(* The router's end *)

Fault == died["router"] + died["proxy"] > 0 \/ early # {} \/ spilt # {}

\* Without a fault of its own making a hop gets no reset behind a head: the relay's
\* last piece is the last one, and it is taken in time.
Orderly(v) ==
    LET toProxy == wire[v]["proxy"]
        toRouter == wire[v]["router"]
    IN  /\ at[v]["router"] # "lost" /\ at[v]["proxy"] # "lost"
        /\ \A i \in 1 .. Len(toRouter) : toRouter[i].kind # "rst"
        /\ ~Listening(v) => toProxy = <<>>
        /\ \A i \in 1 .. Len(toProxy) :
              toProxy[i].kind \in FinalKind => i = Len(toProxy) /\ sent[v] = Len(Whole(v))

Unharmed == Fault \/ (up = Hop /\ \A v \in Visitor : Orderly(v))

HopsInv == HopsTypeOK /\ Unharmed /\ \A v \in Visitor : AnswerOf(v)
-----------------------------------------------------------------------------
(* Lemmas *)

\* What the connections carry is made of pieces.
LEMMA PiecesAre ==
    /\ \A kind \in Mark : Piece(kind) \in AnyPiece /\ Piece(kind).kind = kind
    /\ \A x \in AnyPiece :
          x.kind \in Mark \cup {"chunk", "last"} /\ (x.kind \in Mark => x = Piece(x.kind))
BY DEF Piece, AnyPiece, Mark

\* What the relay's answer is made of.
LEMMA WholeIs ==
    ASSUME NEW v \in Visitor, framing[v] \in {"chunked", "length"}
    PROVE  IsAnswer(Whole(v))
<1>1. Chunks \in Nat \ {0}
  BY HopsAssumption
<1>2. PICK mid : mid = [i \in 1 .. Chunks |->
                          [kind |-> IF framing[v] = "length" /\ i = Chunks THEN "last" ELSE "chunk",
                           n |-> i]]
  OBVIOUS
<1>3. /\ mid \in Seq(AnyPiece) /\ Len(mid) = Chunks
      /\ \A i \in 1 .. Chunks :
            mid[i].kind = IF framing[v] = "length" /\ i = Chunks THEN "last" ELSE "chunk"
  BY <1>1, <1>2 DEF AnyPiece
<1>4. PICK head, end \in AnyPiece :
         head = Piece("head") /\ end = Piece("end") /\ head.kind = "head" /\ end.kind = "end"
  <2>1. Piece("head") \in AnyPiece /\ Piece("end") \in AnyPiece
    BY PiecesAre DEF Mark
  <2>2. Piece("head").kind = "head" /\ Piece("end").kind = "end"
    BY DEF Piece
  <2>3. QED
    BY <2>1, <2>2
<1>5. Whole(v) = (<<head>> \o mid) \o (IF framing[v] = "length" THEN <<>> ELSE <<end>>)
  BY <1>2, <1>4 DEF Whole
<1>9. <<head>> \in Seq(AnyPiece) /\ <<end>> \in Seq(AnyPiece)
  OBVIOUS
<1>6. CASE framing[v] = "length"
  <2>1. PICK w \in Seq(AnyPiece) : w = <<head>> \o mid
    BY <1>3, <1>9, ConcatProperties
  <2>2. Whole(v) = w
    BY <1>5, <1>6, <2>1
  <2>3. IsAnswer(w)
    BY <1>1, <1>3, <1>4, <1>6, <2>1 DEF IsAnswer, Completing
  <2>4. QED
    BY <2>2, <2>3
<1>7. CASE framing[v] # "length"
  <2>0. PICK m \in Seq(AnyPiece) : m = <<head>> \o mid
    BY <1>3, <1>9, ConcatProperties
  <2>1. PICK w \in Seq(AnyPiece) : w = (<<head>> \o mid) \o <<end>>
    BY <1>9, <2>0, ConcatProperties
  <2>2. Whole(v) = w
    BY <1>5, <1>7, <2>1
  <2>3. IsAnswer(w)
    BY <1>1, <1>3, <1>4, <1>7, <2>1 DEF IsAnswer, Completing
  <2>4. QED
    BY <2>2, <2>3
<1>8. QED
  BY <1>6, <1>7

\* Two pieces behind each other.
LEMMA Pairs ==
    ASSUME NEW a \in AnyPiece, NEW b \in AnyPiece
    PROVE  Append(<<a>>, b) = <<a, b>> /\ <<a>> \o <<b>> = <<a, b>>
<1>1. <<a>> \in Seq(AnyPiece) /\ <<b>> \in Seq(AnyPiece) /\ <<a, b>> \in Seq(AnyPiece)
  OBVIOUS
<1>2. Len(<<a>>) = 1 /\ <<a>>[1] = a /\ Len(<<b>>) = 1 /\ <<b>>[1] = b
  OBVIOUS
<1>3. Len(<<a, b>>) = 2 /\ <<a, b>>[1] = a /\ <<a, b>>[2] = b
  OBVIOUS
<1> PICK s, t, u \in Seq(AnyPiece) : s = <<a>> /\ t = <<b>> /\ u = <<a, b>>
  BY <1>1, Zenon
<1>4. PICK x, y \in Seq(AnyPiece) : x = Append(s, b) /\ y = s \o t
  BY ConcatProperties, AppendProperties
<1>5. /\ Len(s) = 1 /\ s[1] = a /\ Len(t) = 1 /\ t[1] = b
      /\ Len(u) = 2 /\ u[1] = a /\ u[2] = b
  BY <1>2, <1>3, Zenon
<1>6. Len(x) = 2 /\ x[1] = a /\ x[2] = b
  BY <1>4, <1>5, AppendProperties
<1>7. Len(y) = 2 /\ y[1] = a /\ y[2] = b
  BY <1>4, <1>5, ConcatProperties
<1>8. x = u /\ y = u
  BY <1>5, <1>6, <1>7, SeqEqual
<1>9. QED
  BY <1>4, <1>8, Zenon

\* The stages of a request make a function of the three parties.
LEMMA StagesOf ==
    ASSUME NEW a \in Stage, NEW b \in Stage, NEW c \in Stage
    PROVE  LET f == [visitor |-> a, router |-> b, proxy |-> c]
           IN  /\ f \in [Party -> Stage]
               /\ f["visitor"] = a /\ f["router"] = b /\ f["proxy"] = c
BY DEF Party, Hop

\* A server that closes a connection adds a reset, or nothing.
LEMMA ClosingIs ==
    ASSUME NEW v \in Visitor, NEW pieces \in Seq(AnyPiece), NEW ps \in Closing(v, pieces)
    PROVE  /\ ps \in Seq(AnyPiece)
           /\ ps = pieces \/ (upload[v] # "sent" /\ ps = pieces \o <<Piece("rst")>>)
<1>1. PICK rst \in AnyPiece : rst = Piece("rst")
  BY PiecesAre DEF Mark
<1>2. ps \in {pieces} \cup (IF upload[v] = "sent" THEN {} ELSE {Append(pieces, rst)})
  BY <1>1 DEF Closing
<1>3. Append(pieces, rst) \in Seq(AnyPiece) /\ Append(pieces, rst) = pieces \o <<rst>>
  OBVIOUS
<1>4. QED
  BY <1>1, <1>2, <1>3

\* What is delivered to one party is behind what it had; nobody else is concerned.
LEMMA DeliveredIs ==
    ASSUME NEW v \in Visitor, NEW x \in Party, NEW pieces \in Seq(AnyPiece), HopsTypeOK
    PROVE  /\ Delivered(v, x, pieces) \in [Party -> Seq(AnyPiece)]
           /\ \A p \in Party :
                 Delivered(v, x, pieces)[p] = IF p = x /\ at[v][x] # "lost"
                                              THEN wire[v][p] \o pieces ELSE wire[v][p]
<1>1. wire[v] \in [Party -> Seq(AnyPiece)]
  BY DEF HopsTypeOK
<1>2. QED
  BY <1>1 DEF Delivered

\* Hop h of request v gets to a stage, takes a piece or not, and writes to whom it serves.
Works(v, h, stage, took, pieces) ==
    /\ at'[v][h] = stage /\ \A p \in Party \ {h} : at'[v][p] = at[v][p]
    /\ wire'[v][h] = IF took THEN Tail(wire[v][h]) ELSE wire[v][h]
    /\ wire'[v][Below[h]] =
          IF at[v][Below[h]] = "lost" THEN wire[v][Below[h]] ELSE wire[v][Below[h]] \o pieces
    /\ \A p \in Party \ {h, Below[h]} : wire'[v][p] = wire[v][p]

\* Nothing but request v is concerned, and the variables keep their types.
OnlyFor(v) ==
    /\ at' \in [Visitor -> [Party -> Stage]]
    /\ wire' \in [Visitor -> [Party -> Seq(AnyPiece)]]
    /\ \A u \in Visitor \ {v} : at'[u] = at[u] /\ wire'[u] = wire[u]

LEMMA BelowIs ==
    /\ Below["proxy"] = "router" /\ Below["router"] = "visitor"
    /\ \A h \in Hop : Below[h] \in Party /\ Below[h] # h /\ h \in Party
BY DEF Below, Hop, Party

LEMMA HearsIs ==
    ASSUME NEW v \in Visitor, NEW h \in Hop, NEW pieces \in Seq(AnyPiece), NEW state \in Stage,
           HopsTypeOK, wire[v][h] # <<>>, Hears(v, h, state, pieces)
    PROVE  Works(v, h, state, TRUE, pieces) /\ OnlyFor(v) /\ UNCHANGED <<sent, upload, up, died>>
<1>1. PICK below \in Party : below = Below[h] /\ below # h /\ h \in Party
  BY BelowIs
<1>2. PICK d : d = Delivered(v, below, pieces)
  OBVIOUS
<1>3. d \in [Party -> Seq(AnyPiece)]
      /\ \A p \in Party : d[p] = IF p = below /\ at[v][below] # "lost"
                                 THEN wire[v][p] \o pieces ELSE wire[v][p]
  BY <1>2, DeliveredIs
<1>4. PICK w : w = [d EXCEPT ![h] = Tail(@)]
  OBVIOUS
<1>5. wire' = [wire EXCEPT ![v] = w] /\ at' = [at EXCEPT ![v][h] = state]
      /\ UNCHANGED <<sent, upload, up, died>>
  BY <1>1, <1>2, <1>4 DEF Hears
<1>6. d[h] = wire[v][h] /\ d[h] \in Seq(AnyPiece)
  BY <1>1, <1>3
<1>7. w \in [Party -> Seq(AnyPiece)] /\ w[h] = Tail(wire[v][h])
      /\ \A p \in Party \ {h} : w[p] = d[p]
  BY <1>1, <1>3, <1>4, <1>6
<1>8. OnlyFor(v) /\ wire'[v] = w
      /\ at'[v][h] = state /\ \A p \in Party \ {h} : at'[v][p] = at[v][p]
  BY <1>1, <1>5, <1>7 DEF OnlyFor, HopsTypeOK
<1>9. QED
  BY <1>1, <1>3, <1>5, <1>7, <1>8 DEF Works

\* Writing without taking a piece.
LEMMA WritesIs ==
    ASSUME NEW v \in Visitor, NEW h \in Hop, NEW pieces \in Seq(AnyPiece), NEW state \in Stage,
           HopsTypeOK, at' = [at EXCEPT ![v][h] = state],
           wire' = [wire EXCEPT ![v] = Delivered(v, Below[h], pieces)]
    PROVE  Works(v, h, state, FALSE, pieces) /\ OnlyFor(v)
<1>1. PICK below \in Party : below = Below[h] /\ below # h /\ h \in Party
  BY BelowIs
<1>2. PICK d : d = Delivered(v, below, pieces)
  OBVIOUS
<1>3. d \in [Party -> Seq(AnyPiece)]
      /\ \A p \in Party : d[p] = IF p = below /\ at[v][below] # "lost"
                                 THEN wire[v][p] \o pieces ELSE wire[v][p]
  BY <1>2, DeliveredIs
<1>4. wire' = [wire EXCEPT ![v] = d]
  BY <1>1, <1>2
<1>5. OnlyFor(v) /\ wire'[v] = d
      /\ at'[v][h] = state /\ \A p \in Party \ {h} : at'[v][p] = at[v][p]
  BY <1>1, <1>3, <1>4 DEF OnlyFor, HopsTypeOK
<1>6. QED
  BY <1>1, <1>3, <1>5 DEF Works

\* A process that dies cuts every connection of its that has something under way.
Open(v, h) ==
    \/ at[v][h] \in {"reached", "waiting", "answering", "stalled", "short"}
    \/ at[v][h] = "ended" /\ upload[v] # "sent"

LEMMA DiesIs ==
    ASSUME NEW h \in Hop, HopsTypeOK, Dies(h)
    PROVE  /\ up' = up \ {h}
           /\ upload' \in [Visitor -> {"open", "sent", "cut"}]
           /\ at' \in [Visitor -> [Party -> Stage]]
           /\ wire' \in [Visitor -> [Party -> Seq(AnyPiece)]]
           /\ \A v \in Visitor :
                 /\ ~Open(v, h) => at'[v] = at[v] /\ wire'[v] = wire[v]
                 /\ Open(v, h) => \E how \in {"fin", "rst"} :
                                     Works(v, h, "lost", FALSE, <<Piece(how)>>)
           /\ sent' = sent /\ early' = early /\ spilt' = spilt
<1>1. PICK below \in Party : below = Below[h] /\ below # h /\ h \in Party
  BY BelowIs
<1>2. PICK how \in {"fin", "rst"} :
         wire' = [v \in Visitor |->
                     IF Open(v, h) THEN Delivered(v, below, <<Piece(how)>>) ELSE wire[v]]
  BY <1>1 DEF Dies, Open
<1>3. /\ up' = up \ {h} /\ sent' = sent /\ early' = early /\ spilt' = spilt
      /\ at' = [v \in Visitor |-> IF Open(v, h) THEN [at[v] EXCEPT ![h] = "lost"] ELSE at[v]]
      /\ upload' = [v \in Visitor |->
                       IF Open(v, h) /\ upload[v] = "open" THEN "cut" ELSE upload[v]]
  BY DEF Dies, Open
<1>4. <<Piece(how)>> \in Seq(AnyPiece)
  BY PiecesAre DEF Mark
<1>5. ASSUME NEW v \in Visitor
      PROVE  /\ wire'[v] \in [Party -> Seq(AnyPiece)] /\ at'[v] \in [Party -> Stage]
             /\ ~Open(v, h) => at'[v] = at[v] /\ wire'[v] = wire[v]
             /\ Open(v, h) => Works(v, h, "lost", FALSE, <<Piece(how)>>)
  <2>1. wire[v] \in [Party -> Seq(AnyPiece)] /\ at[v] \in [Party -> Stage]
    BY DEF HopsTypeOK
  <2>2. CASE ~Open(v, h)
    BY <1>2, <1>3, <2>1, <2>2
  <2>3. CASE Open(v, h)
    <3>1. PICK d : d = Delivered(v, below, <<Piece(how)>>)
      OBVIOUS
    <3>2. d \in [Party -> Seq(AnyPiece)]
          /\ \A p \in Party : d[p] = IF p = below /\ at[v][below] # "lost"
                                     THEN wire[v][p] \o <<Piece(how)>> ELSE wire[v][p]
      BY <1>4, <3>1, DeliveredIs
    <3>3. wire'[v] = d /\ at'[v] = [at[v] EXCEPT ![h] = "lost"]
      BY <1>2, <1>3, <2>3, <3>1
    <3>4. at'[v] \in [Party -> Stage]
          /\ at'[v][h] = "lost" /\ \A p \in Party \ {h} : at'[v][p] = at[v][p]
      BY <1>1, <2>1, <3>3 DEF Stage
    <3>5. Works(v, h, "lost", FALSE, <<Piece(how)>>)
      BY <1>1, <3>2, <3>3, <3>4 DEF Works
    <3>6. QED
      BY <2>3, <3>2, <3>3, <3>4, <3>5
  <2>4. QED
    BY <2>2, <2>3
<1>6. at' \in [Visitor -> [Party -> Stage]] /\ wire' \in [Visitor -> [Party -> Seq(AnyPiece)]]
      /\ upload' \in [Visitor -> {"open", "sent", "cut"}]
  BY <1>2, <1>3, <1>5 DEF HopsTypeOK
<1>7. QED
  BY <1>3, <1>5, <1>6

-----------------------------------------------------------------------------
(* Streams *)

\* The beginning of a stream that is marked is.
LEMMA MarkedBefore ==
    ASSUME NEW w, IsAnswer(w),
           NEW s \in Seq(AnyPiece), NEW t \in Seq(AnyPiece), Marked(w, s \o t), HeadFirst(s \o t)
    PROVE  Marked(w, s) /\ HeadFirst(s)
<1>1. PICK u \in Seq(AnyPiece) : u = s \o t
  BY ConcatProperties
<1>2. Len(u) = Len(s) + Len(t) /\ \A i \in 1 .. Len(s) : u[i] = s[i]
  BY <1>1
<1>3. Len(s) \in Nat /\ Len(t) \in Nat
  OBVIOUS
<1>4. Marked(w, u) /\ HeadFirst(u)
  BY <1>1
<1>5. HeadFirst(s)
  BY <1>2, <1>3, <1>4 DEF HeadFirst
<1>6. ASSUME NEW m \in 1 .. Len(s), m <= Len(w), s[m] # w[m]
      PROVE  \/ s[1].kind \in {"failed", "refused"}
             \/ \E k \in 1 .. m : s[k].kind \in Telling
  <2>1. m \in 1 .. Len(u) /\ u[m] = s[m] /\ u[1] = s[1]
    BY <1>2, <1>3
  <2>2. Len(w) \in Nat
    BY DEF IsAnswer
  <2>3. \/ u[1].kind \in {"failed", "refused"}
        \/ \E k \in 1 .. m : u[k].kind \in Telling
    BY <1>4, <1>6, <2>1, <2>2 DEF Marked
  <2>4. \A k \in 1 .. m : u[k] = s[k]
    BY <1>2, <1>3
  <2>5. QED
    BY <2>1, <2>3, <2>4
<1>7. Marked(w, s)
  BY <1>3, <1>6, SMTT(30) DEF IsAnswer, Marked
<1>8. QED
  BY <1>5, <1>7

NoHead(s) == \A i \in 1 .. Len(s) : s[i].kind # "head"

\* A stream goes on marked behind a piece that tells of a failure.
LEMMA MarkedBehind ==
    ASSUME NEW w, IsAnswer(w),
           NEW s \in Seq(AnyPiece), NEW t \in Seq(AnyPiece), Marked(w, s), HeadFirst(s),
           Len(t) > 0, t[1].kind \in Telling, NoHead(t)
    PROVE  Marked(w, s \o t) /\ HeadFirst(s \o t)
<1>1. PICK u \in Seq(AnyPiece) : u = s \o t
  BY ConcatProperties
<1>2. /\ Len(u) = Len(s) + Len(t) /\ Len(s) \in Nat /\ Len(t) \in Nat
      /\ \A i \in 1 .. Len(s) : u[i] = s[i]
      /\ \A i \in 1 .. Len(t) : u[Len(s) + i] = t[i]
  BY <1>1
<1>3. \A m \in 1 .. Len(u) : m \in 1 .. Len(s) \/ m - Len(s) \in 1 .. Len(t)
  BY <1>2
<1>4. HeadFirst(u)
  <2>1. SUFFICES ASSUME NEW m \in 1 .. Len(u), u[m].kind = "head" PROVE m = 1
    BY DEF HeadFirst
  <2>2. m \in 1 .. Len(s)
    <3>1. ASSUME m - Len(s) \in 1 .. Len(t) PROVE FALSE
      <4>1. u[Len(s) + (m - Len(s))] = t[m - Len(s)] /\ Len(s) + (m - Len(s)) = m
        BY <1>2, <3>1
      <4>2. QED
        BY <2>1, <3>1, <4>1 DEF NoHead
    <3>2. QED
      BY <1>3, <3>1
  <2>3. QED
    BY <1>2, <2>1, <2>2 DEF HeadFirst
<1>5. ASSUME NEW m \in 1 .. Len(u), m <= Len(w), u[m] # w[m]
      PROVE  \/ u[1].kind \in {"failed", "refused"}
             \/ \E k \in 1 .. m : u[k].kind \in Telling
  <2>1. CASE m \in 1 .. Len(s)
    <3>1. \/ s[1].kind \in {"failed", "refused"}
          \/ \E k \in 1 .. m : s[k].kind \in Telling
      <4>1. s[m] = u[m] /\ m \in Nat
        BY <1>2, <2>1
      <4>2. Len(w) \in Nat
        BY DEF IsAnswer
      <4>3. ~(m > Len(w)) /\ s[m] # w[m]
        BY <1>5, <4>1, <4>2
      <4>4. QED
        BY <2>1, <4>3 DEF Marked
    <3>2. u[1] = s[1] /\ \A k \in 1 .. m : u[k] = s[k]
      BY <1>2, <2>1
    <3>3. QED
      BY <3>1, <3>2
  <2>2. CASE m - Len(s) \in 1 .. Len(t)
    <3>1. Len(s) + 1 \in 1 .. m /\ u[Len(s) + 1] = t[1]
      BY <1>2, <2>2
    <3>2. QED
      BY <3>1
  <2>3. QED
    BY <1>3, <2>1, <2>2
<1>6. Marked(w, u)
  <2>1. \A m \in 1 .. Len(u) : m > Len(w) \/ m <= Len(w)
    BY <1>2 DEF IsAnswer
  <2>2. QED
    BY <1>5, <2>1 DEF Marked
<1>7. QED
  BY <1>1, <1>4, <1>6

\* An answer that begins as a hop's own one is marked.
LEMMA MarkedOwn ==
    ASSUME NEW w, IsAnswer(w),
           NEW t \in Seq(AnyPiece), Len(t) > 0, t[1].kind \in {"failed", "refused"}, NoHead(t)
    PROVE  Marked(w, t) /\ HeadFirst(t)
BY DEF IsAnswer, Marked, HeadFirst, NoHead

\* A piece that is passed on is where it was.
LEMMA HeadAndTail ==
    ASSUME NEW s \in Seq(AnyPiece), s # <<>>
    PROVE  /\ Head(s) \in AnyPiece /\ Tail(s) \in Seq(AnyPiece) /\ Head(s) = s[1]
           /\ <<Head(s)>> \in Seq(AnyPiece) /\ <<Head(s)>> \o Tail(s) = s
<1>1. /\ Head(s) \in AnyPiece /\ Tail(s) \in Seq(AnyPiece) /\ Head(s) = s[1]
      /\ Len(Tail(s)) = Len(s) - 1
      /\ \A i \in 1 .. Len(Tail(s)) : Tail(s)[i] = s[i + 1]
  BY HeadTailProperties
<1>2. PICK h \in Seq(AnyPiece) : h = <<Head(s)>> /\ Len(h) = 1 /\ h[1] = s[1]
  <2>1. PICK x \in AnyPiece : x = Head(s)
    BY <1>1
  <2>2. <<x>> \in Seq(AnyPiece) /\ Len(<<x>>) = 1 /\ <<x>>[1] = x
    OBVIOUS
  <2>3. QED
    BY <1>1, <2>1, <2>2
<1>3. PICK u \in Seq(AnyPiece) :
         u = h \o Tail(s) /\ Len(u) = Len(s) /\ \A i \in 1 .. Len(s) : u[i] = s[i]
  BY <1>1, <1>2
<1>4. u = s
  BY <1>3, SeqEqual
<1>5. QED
  BY <1>1, <1>2, <1>3, <1>4

LEMMA Joined == \A a, b, c \in Seq(AnyPiece) : (a \o b) \o c = a \o (b \o c)
<1>1. ASSUME NEW a \in Seq(AnyPiece), NEW b \in Seq(AnyPiece), NEW c \in Seq(AnyPiece)
      PROVE  (a \o b) \o c = a \o (b \o c)
  BY ConcatAssociative
<1>2. QED
  BY <1>1

LEMMA PassedOn ==
    ASSUME NEW g \in Seq(AnyPiece), NEW r \in Seq(AnyPiece), NEW p \in Seq(AnyPiece), p # <<>>
    PROVE  (g \o (r \o <<Head(p)>>)) \o Tail(p) = (g \o r) \o p
<1>1. ASSUME NEW h \in Seq(AnyPiece), NEW t \in Seq(AnyPiece)
      PROVE  (g \o (r \o h)) \o t = (g \o r) \o (h \o t)
  BY SMTT(60)
<1>2. <<Head(p)>> \in Seq(AnyPiece) /\ Tail(p) \in Seq(AnyPiece) /\ <<Head(p)>> \o Tail(p) = p
  BY HeadAndTail
<1>3. (g \o (r \o <<Head(p)>>)) \o Tail(p) = (g \o r) \o (<<Head(p)>> \o Tail(p))
  BY <1>1, <1>2, Zenon
<1>4. QED
  BY <1>2, <1>3, Zenon

\* An answer stays what it is behind its end.
LEMMA IntactBehind ==
    ASSUME NEW w, IsAnswer(w),
           NEW s \in Seq(AnyPiece), NEW t \in Seq(AnyPiece), Intact(w, s),
           \A i \in 1 .. Len(t) : t[i].kind \notin Completing \cup {"head", "notice"}
    PROVE  Intact(w, s \o t)
<1>1. PICK u \in Seq(AnyPiece) : u = s \o t
  BY ConcatProperties
<1>2. /\ Len(u) = Len(s) + Len(t) /\ Len(s) \in Nat /\ Len(t) \in Nat
      /\ \A i \in 1 .. Len(s) : i \in 1 .. Len(u) /\ u[i] = s[i]
      /\ \A i \in 1 .. Len(u) :
            i \in 1 .. Len(s) \/ (i - Len(s) \in 1 .. Len(t) /\ u[i] = t[i - Len(s)])
  BY <1>1
<1>3. SUFFICES ASSUME \E i \in 1 .. Len(u) : u[i].kind \in Completing,
                      \E i \in 1 .. Len(u) : u[i].kind = "head",
                      \A i \in 1 .. Len(u) : u[i].kind \notin {"notice", "filled"}
               PROVE  Len(u) >= Len(w) /\ \A i \in 1 .. Len(w) : u[i] = w[i]
  BY <1>1 DEF Intact
<1>4. \A i \in 1 .. Len(u) : u[i].kind \in Completing \cup {"head"} => i \in 1 .. Len(s) /\ s[i] = u[i]
  BY <1>2
<1>5. /\ \E i \in 1 .. Len(s) : s[i].kind \in Completing
      /\ \E i \in 1 .. Len(s) : s[i].kind = "head"
      /\ \A i \in 1 .. Len(s) : s[i].kind \notin {"notice", "filled"}
  BY <1>2, <1>3, <1>4
<1>6. Len(s) >= Len(w) /\ \A i \in 1 .. Len(w) : s[i] = w[i]
  BY <1>5 DEF Intact
<1>7. Len(w) \in Nat
  BY DEF IsAnswer
<1>8. Len(u) >= Len(w) /\ \A i \in 1 .. Len(w) : i \in 1 .. Len(s)
  BY <1>2, <1>6, <1>7
<1>9. QED
  BY <1>2, <1>6, <1>8

\* A marked stream that has just come to its end is the whole answer, or says it is not.
LEMMA IntactAtEnd ==
    ASSUME NEW w, IsAnswer(w),
           NEW s \in Seq(AnyPiece), NEW x \in AnyPiece, x.kind \in Completing,
           Marked(w, s \o <<x>>), HeadFirst(s \o <<x>>), NoEnd(s)
    PROVE  Intact(w, s \o <<x>>)
<1>1. PICK u \in Seq(AnyPiece) : u = s \o <<x>>
  <2>1. <<x>> \in Seq(AnyPiece)
    OBVIOUS
  <2>2. s \o <<x>> \in Seq(AnyPiece)
    BY <2>1, ConcatProperties
  <2>3. QED
    BY <2>2
<1>2. /\ Len(u) = Len(s) + 1 /\ Len(s) \in Nat /\ u[Len(u)] = x
      /\ \A i \in 1 .. Len(u) : i # Len(u) => i \in 1 .. Len(s) /\ u[i] = s[i]
  BY <1>1
<1>3. SUFFICES ASSUME NEW j \in 1 .. Len(u), u[j].kind = "head",
                      \A i \in 1 .. Len(u) : u[i].kind \notin {"notice", "filled"}
               PROVE  Len(u) >= Len(w) /\ \A i \in 1 .. Len(w) : u[i] = w[i]
  BY <1>1 DEF Intact
<1>4. u[1].kind = "head"
  BY <1>1, <1>3 DEF HeadFirst
<1>5. \A i \in 1 .. Len(u) : u[i].kind \notin Telling
  <2>1. SUFFICES ASSUME NEW i \in 1 .. Len(u) PROVE u[i].kind \notin {"fin", "rst"}
    BY <1>3 DEF Telling
  <2>2. i # Len(u) => u[i].kind \notin FinalKind
    BY <1>2 DEF NoEnd
  <2>3. QED
    BY <1>2, <2>2 DEF FinalKind, Completing
<1>6. \A m \in 1 .. Len(u) : m > Len(w) \/ u[m] = w[m]
  <2>1. SUFFICES ASSUME NEW m \in 1 .. Len(u), m <= Len(w), u[m] # w[m] PROVE FALSE
    BY <1>2, SMTT(30) DEF IsAnswer
  <2>2. \E k \in 1 .. m : u[k].kind \in Telling
    <3>1. ~(m > Len(w)) /\ u[1].kind \notin {"failed", "refused"}
      BY <1>2, <1>4, <2>1 DEF IsAnswer
    <3>2. Marked(w, u)
      BY <1>1
    <3>3. QED
      BY <2>1, <3>1, <3>2 DEF Marked
  <2>3. 1 .. m \subseteq 1 .. Len(u)
    BY <1>2
  <2>4. QED
    BY <1>5, <2>2, <2>3
<1>7. Len(u) >= Len(w)
  BY <1>2, <1>6 DEF IsAnswer
<1>8. QED
  BY <1>2, <1>6, <1>7 DEF IsAnswer

-----------------------------------------------------------------------------
(* The answer of one request, step by step *)

Typed == at' \in [Visitor -> [Party -> Stage]] /\ wire' \in [Visitor -> [Party -> Seq(AnyPiece)]]

\* Parties and connections of a request, spelled out.
LEMMA RequestIs ==
    ASSUME NEW v \in Visitor, HopsTypeOK
    PROVE  /\ at[v]["visitor"] \in Stage /\ at[v]["router"] \in Stage /\ at[v]["proxy"] \in Stage
           /\ Got(v) \in Seq(AnyPiece) /\ wire[v]["router"] \in Seq(AnyPiece)
           /\ wire[v]["proxy"] \in Seq(AnyPiece)
           /\ sent[v] \in Nat /\ sent[v] <= Len(Whole(v))
           /\ IsAnswer(Whole(v)) /\ framing[v] \in {"chunked", "length"}
BY WholeIs DEF HopsTypeOK, Got, Party, Hop

\* A request nothing happens to.
LEMMA Rests ==
    ASSUME NEW v \in Visitor, Whole(v)' = Whole(v),
           AnswerOf(v), at'[v] = at[v], wire'[v] = wire[v], sent'[v] = sent[v]
    PROVE  AnswerOf(v)'
BY DEF AnswerOf, FlowMarked, FlowIsAnswer, NothingYet, NoEndYet, Flow, Passing, Listening, Asked, Got

\* The router stops passing on.
LEMMA RouterStops ==
    ASSUME NEW v \in Visitor, Whole(v)' = Whole(v),
           NEW stage \in {"stalled", "short", "ended", "lost"}, NEW took,
           NEW pieces \in Seq(AnyPiece), HopsTypeOK, AnswerOf(v), at[v]["router"] # "new",
           Works(v, "router", stage, took, pieces), sent'[v] = sent[v],
           at[v]["visitor"] = "lost" \/ Intact(Whole(v), Got(v) \o pieces)
    PROVE  AnswerOf(v)'
<1> IsAnswer(Whole(v))
  BY RequestIs
<1>1. /\ at'[v]["router"] = stage /\ at'[v]["visitor"] = at[v]["visitor"]
      /\ at'[v]["proxy"] = at[v]["proxy"] /\ wire'[v]["proxy"] = wire[v]["proxy"]
      /\ Got(v)' = IF at[v]["visitor"] = "lost" THEN Got(v) ELSE Got(v) \o pieces
  BY BelowIs DEF Works, Party, Hop, Got
<1>2. Passing(v)' = FALSE
  BY <1>1 DEF Passing
<1>3. Intact(Whole(v), Got(v)')
  BY <1>1 DEF AnswerOf
<1>4. NothingYet(v)'
  BY <1>1, <1>2 DEF AnswerOf, NothingYet
<1>5. QED
  BY <1>2, <1>3, <1>4 DEF AnswerOf, FlowMarked, FlowIsAnswer, NoEndYet

\* The router passes on what is no end.
LEMMA RouterPasses ==
    ASSUME NEW v \in Visitor, Whole(v)' = Whole(v),
           HopsTypeOK, AnswerOf(v), at[v]["router"] \in {"waiting", "answering"},
           wire[v]["router"] # <<>>, Head(wire[v]["router"]).kind \notin FinalKind,
           Works(v, "router", "answering", TRUE, <<Head(wire[v]["router"])>>), sent'[v] = sent[v]
    PROVE  AnswerOf(v)'
<1> IsAnswer(Whole(v))
  BY RequestIs
<1> PICK g, r, p \in Seq(AnyPiece) : g = Got(v) /\ r = wire[v]["router"] /\ p = wire[v]["proxy"]
  BY RequestIs
<1> PICK x \in AnyPiece : x = Head(r) /\ x.kind \notin FinalKind
  BY HeadAndTail
<1>1. /\ at'[v]["router"] = "answering" /\ at'[v]["visitor"] = at[v]["visitor"]
      /\ at'[v]["proxy"] = at[v]["proxy"] /\ wire'[v]["proxy"] = p
      /\ Got(v)' = IF at[v]["visitor"] = "lost" THEN g ELSE g \o <<x>>
      /\ wire'[v]["router"] = Tail(r)
  BY BelowIs DEF Works, Party, Hop, Got
<1>2. Listening(v)' = Listening(v)
  BY <1>1 DEF Listening
<1>3. NothingYet(v)'
  BY <1>1 DEF AnswerOf, NothingYet, Passing
<1>4. CASE at[v]["visitor"] = "lost"
  <2>1. Passing(v)' = FALSE
    BY <1>1, <1>4 DEF Passing
  <2>2. Intact(Whole(v), Got(v)')
    BY <1>1, <1>4 DEF AnswerOf
  <2>3. QED
    BY <1>3, <2>1, <2>2 DEF AnswerOf, FlowMarked, FlowIsAnswer, NoEndYet
<1>5. CASE at[v]["visitor"] # "lost"
  <2>1. Passing(v) /\ Passing(v)'
    BY <1>1, <1>5 DEF Passing
  <2>2. Flow(v)' = Flow(v)
    <3>1. ((g \o <<x>>) \o Tail(r)) \o p = (g \o r) \o p /\ (g \o <<x>>) \o Tail(r) = g \o r
      <4>1. PICK h, t \in Seq(AnyPiece) : h = <<x>> /\ t = Tail(r) /\ h \o t = r
        BY HeadAndTail
      <4>2. (g \o h) \o t = g \o (h \o t)
        BY Joined
      <4>3. QED
        BY <4>1, <4>2
    <3>2. Tail(r) \in Seq(AnyPiece) /\ (g \o <<x>>) \o <<>> = g \o <<x>>
      BY HeadAndTail
    <3>3. Flow(v) = (g \o r) \o (IF Listening(v) THEN p ELSE <<>>)
      BY DEF Flow
    <3>4. Flow(v)' = ((g \o <<x>>) \o Tail(r)) \o (IF Listening(v) THEN p ELSE <<>>)
      BY <1>1, <1>2, <1>5 DEF Flow
    <3>5. QED
      BY <3>1, <3>3, <3>4
  <2>3. NoEnd(g \o <<x>>)
    <3>1. NoEnd(g)
      BY <2>1 DEF AnswerOf, NoEndYet
    <3>2. QED
      BY <3>1 DEF NoEnd
  <2>4. NoEnd(Got(v)') /\ Intact(Whole(v), Got(v)')
    <3>1. PICK u : u = Got(v)' /\ NoEnd(u)
      BY <1>1, <1>5, <2>3
    <3>2. Intact(Whole(v), u)
      BY <3>1 DEF NoEnd, Intact, FinalKind
    <3>3. QED
      BY <3>1, <3>2
  <2>5. Asked(v)' = Asked(v)
    BY <1>1 DEF Asked
  <2>6. QED
    BY <1>3, <2>1, <2>2, <2>4, <2>5 DEF AnswerOf, FlowMarked, FlowIsAnswer, NoEndYet
<1>6. QED
  BY <1>4, <1>5

\* The proxy stops passing on.
LEMMA ProxyStops ==
    ASSUME NEW v \in Visitor, Whole(v)' = Whole(v),
           NEW stage \in {"stalled", "short", "ended", "lost"}, NEW took,
           NEW pieces \in Seq(AnyPiece), HopsTypeOK, AnswerOf(v), at[v]["proxy"] # "new",
           Works(v, "proxy", stage, took, pieces), sent'[v] = sent[v],
           LET s == (Got(v) \o wire[v]["router"]) \o pieces
           IN  Passing(v) => Marked(Whole(v), s) /\ HeadFirst(s)
    PROVE  AnswerOf(v)'
<1> IsAnswer(Whole(v))
  BY RequestIs
<1> PICK g, r \in Seq(AnyPiece) : g = Got(v) /\ r = wire[v]["router"]
  BY RequestIs
<1>1. /\ at'[v]["proxy"] = stage /\ at'[v]["visitor"] = at[v]["visitor"]
      /\ at'[v]["router"] = at[v]["router"] /\ Got(v)' = g
      /\ wire'[v]["router"] = IF at[v]["router"] = "lost" THEN r ELSE r \o pieces
  BY BelowIs DEF Works, Party, Hop, Got
<1>2. Passing(v)' = Passing(v) /\ ~Asked(v)' /\ ~Listening(v)'
  BY <1>1 DEF Passing, Asked, Listening
<1>3. NothingYet(v)' /\ NoEndYet(v)' /\ Intact(Whole(v), Got(v)')
  BY <1>1, <1>2 DEF AnswerOf, NothingYet, NoEndYet
<1>4. ASSUME Passing(v) PROVE Marked(Whole(v), Flow(v)') /\ HeadFirst(Flow(v)')
  <2>1. Flow(v)' = (g \o (r \o pieces)) \o <<>>
    BY <1>1, <1>2, <1>4 DEF Flow, Passing
  <2>2. g \o (r \o pieces) = (g \o r) \o pieces
    BY Joined
  <2>3. g \o r \in Seq(AnyPiece)
    BY ConcatProperties
  <2>4. ((g \o r) \o pieces) \o <<>> = (g \o r) \o pieces
    BY <2>3
  <2>5. QED
    BY <1>4, <2>1, <2>2, <2>4
<1>5. QED
  BY <1>2, <1>3, <1>4 DEF AnswerOf, FlowMarked, FlowIsAnswer

\* The proxy passes on what is no end.
LEMMA ProxyPasses ==
    ASSUME NEW v \in Visitor, Whole(v)' = Whole(v),
           HopsTypeOK, AnswerOf(v), at[v]["proxy"] \in {"waiting", "answering"},
           wire[v]["proxy"] # <<>>, Works(v, "proxy", "answering", TRUE, <<Head(wire[v]["proxy"])>>),
           sent'[v] = sent[v]
    PROVE  AnswerOf(v)'
<1> IsAnswer(Whole(v))
  BY RequestIs
<1>0. (Got(v) \o (wire[v]["router"] \o <<Head(wire[v]["proxy"])>>)) \o Tail(wire[v]["proxy"])
         = (Got(v) \o wire[v]["router"]) \o wire[v]["proxy"]
  <2>1. /\ Got(v) \in Seq(AnyPiece) /\ wire[v]["router"] \in Seq(AnyPiece)
        /\ wire[v]["proxy"] \in Seq(AnyPiece) /\ wire[v]["proxy"] # <<>>
    BY RequestIs
  <2>2. QED
    BY ONLY <2>1, PassedOn, Zenon
<1> PICK g, r, p \in Seq(AnyPiece) : g = Got(v) /\ r = wire[v]["router"] /\ p = wire[v]["proxy"]
  BY RequestIs
<1>1. /\ at'[v]["proxy"] = "answering" /\ at'[v]["visitor"] = at[v]["visitor"]
      /\ at'[v]["router"] = at[v]["router"] /\ Got(v)' = g /\ wire'[v]["proxy"] = Tail(p)
      /\ wire'[v]["router"] = IF at[v]["router"] = "lost" THEN r ELSE r \o <<Head(p)>>
  BY BelowIs DEF Works, Party, Hop, Got
<1>2. Passing(v)' = Passing(v) /\ Asked(v)' = Asked(v) /\ Listening(v) /\ Listening(v)'
  BY <1>1 DEF Passing, Asked, Listening
<1>3. NothingYet(v)' /\ NoEndYet(v)' /\ Intact(Whole(v), Got(v)')
  BY <1>1, <1>2 DEF AnswerOf, NothingYet, NoEndYet
<1>4. ASSUME Passing(v) PROVE Flow(v)' = Flow(v)
  <2>1. (g \o (r \o <<Head(p)>>)) \o Tail(p) = (g \o r) \o p
    BY <1>0
  <2>2. QED
    BY <1>1, <1>2, <1>4, <2>1 DEF Flow, Passing
<1>5. QED
  BY <1>2, <1>3, <1>4 DEF AnswerOf, FlowMarked, FlowIsAnswer

\* The relay's next piece belongs where it comes.
LEMMA AnswerGrows ==
    ASSUME NEW w, IsAnswer(w), NEW s \in Seq(AnyPiece), NEW n \in Nat, n < Len(w), Len(s) = n,
           \A i \in 1 .. n : s[i] = w[i], Marked(w, s), HeadFirst(s)
    PROVE  LET u == s \o <<w[n + 1]>>
           IN  /\ u \in Seq(AnyPiece) /\ Len(u) = n + 1 /\ \A i \in 1 .. n + 1 : u[i] = w[i]
               /\ Marked(w, u) /\ HeadFirst(u)
<1>1. PICK x \in AnyPiece : x = w[n + 1]
  BY DEF IsAnswer
<1>2. /\ s \o <<x>> \in Seq(AnyPiece) /\ Len(s \o <<x>>) = n + 1
      /\ \A i \in 1 .. n + 1 : (s \o <<x>>)[i] = w[i]
  BY <1>1
<1>3. Marked(w, s \o <<x>>)
  BY <1>2 DEF Marked
<1>4. HeadFirst(s \o <<x>>)
  BY <1>2 DEF IsAnswer, HeadFirst
<1>5. QED
  BY <1>1, <1>2, <1>3, <1>4

\* The relay writes to a proxy that listens.
LEMMA RelayWrites ==
    ASSUME NEW v \in Visitor, Whole(v)' = Whole(v),
           HopsTypeOK, AnswerOf(v), Asked(v), at'[v] = at[v],
           NEW pieces \in Seq(AnyPiece),
           wire'[v]["proxy"] = wire[v]["proxy"] \o pieces,
           wire'[v]["router"] = wire[v]["router"], wire'[v]["visitor"] = wire[v]["visitor"],
           LET s == Flow(v) \o pieces
           IN  Passing(v) =>
                  /\ Marked(Whole(v), s) /\ HeadFirst(s)
                  /\ \/ sent'[v] = Len(Whole(v))
                     \/ Len(s) = sent'[v] /\ \A i \in 1 .. sent'[v] : s[i] = Whole(v)[i]
    PROVE  AnswerOf(v)'
<1> IsAnswer(Whole(v))
  BY RequestIs
<1> PICK g, r, p \in Seq(AnyPiece) : g = Got(v) /\ r = wire[v]["router"] /\ p = wire[v]["proxy"]
  BY RequestIs
<1>1. /\ Passing(v)' = Passing(v) /\ Listening(v) /\ Listening(v)' /\ Got(v)' = g
      /\ Asked(v)' => sent'[v] # Len(Whole(v))
  BY RequestIs DEF Passing, Listening, Asked, Got
<1>2. NothingYet(v)' /\ NoEndYet(v)' /\ Intact(Whole(v), Got(v)')
  BY <1>1 DEF AnswerOf, NothingYet, NoEndYet, Asked
<1>3. Flow(v)' = Flow(v) \o pieces
  <2>1. PICK gr \in Seq(AnyPiece) : gr = g \o r
    BY ConcatProperties
  <2>2. (gr \o p) \o pieces = gr \o (p \o pieces)
    BY Joined, Zenon
  <2>3. QED
    BY <1>1, <2>1, <2>2 DEF Flow
<1>4. QED
  BY <1>1, <1>2, <1>3 DEF AnswerOf, FlowMarked, FlowIsAnswer

\* What is marked of what a passing router has and is to get.
LEMMA FlowBegins ==
    ASSUME NEW v \in Visitor, HopsTypeOK, AnswerOf(v), Passing(v)
    PROVE  LET g == Got(v)
               r == wire[v]["router"]
               p == wire[v]["proxy"]
           IN  /\ g \o r \in Seq(AnyPiece) /\ Marked(Whole(v), g \o r) /\ HeadFirst(g \o r)
               /\ r # <<>> => Marked(Whole(v), g \o <<Head(r)>>) /\ HeadFirst(g \o <<Head(r)>>)
               /\ Listening(v) /\ p # <<>> =>
                     Marked(Whole(v), (g \o r) \o <<Head(p)>>) /\ HeadFirst((g \o r) \o <<Head(p)>>)
<1> IsAnswer(Whole(v))
  BY RequestIs
<1> DEFINE g == Got(v)
           r == wire[v]["router"]
           p == wire[v]["proxy"]
           q == IF Listening(v) THEN p ELSE <<>>
<1>1. g \in Seq(AnyPiece) /\ r \in Seq(AnyPiece) /\ p \in Seq(AnyPiece) /\ q \in Seq(AnyPiece)
  BY RequestIs
<1>2. Marked(Whole(v), (g \o r) \o q) /\ HeadFirst((g \o r) \o q)
  BY DEF AnswerOf, FlowMarked, Flow
<1> HIDE DEF g, r, p
<1>3. g \o r \in Seq(AnyPiece)
  BY <1>1, ConcatProperties
<1> HIDE DEF q
<1>4. Marked(Whole(v), g \o r) /\ HeadFirst(g \o r)
  BY <1>1, <1>2, <1>3, MarkedBefore
<1>5. ASSUME NEW a \in Seq(AnyPiece), NEW b \in Seq(AnyPiece), b # <<>>,
             Marked(Whole(v), a \o b), HeadFirst(a \o b)
      PROVE  Marked(Whole(v), a \o <<Head(b)>>) /\ HeadFirst(a \o <<Head(b)>>)
  <2>1. /\ <<Head(b)>> \in Seq(AnyPiece) /\ Tail(b) \in Seq(AnyPiece)
        /\ <<Head(b)>> \o Tail(b) = b
    BY <1>5, HeadAndTail
  <2>2. (a \o <<Head(b)>>) \o Tail(b) = a \o (<<Head(b)>> \o Tail(b))
    BY <2>1, Joined, Zenon
  <2>3. a \o <<Head(b)>> \in Seq(AnyPiece)
    BY <2>1, ConcatProperties
  <2>4. Marked(Whole(v), (a \o <<Head(b)>>) \o Tail(b)) /\ HeadFirst((a \o <<Head(b)>>) \o Tail(b))
    BY <1>5, <2>1, <2>2, Zenon
  <2>5. QED
    BY <2>1, <2>3, <2>4, MarkedBefore
<1>6. r # <<>> => Marked(Whole(v), g \o <<Head(r)>>) /\ HeadFirst(g \o <<Head(r)>>)
  BY <1>1, <1>4, <1>5
<1>7. Listening(v) => q = p
  BY DEF q
<1>8. Listening(v) /\ p # <<>> =>
         Marked(Whole(v), (g \o r) \o <<Head(p)>>) /\ HeadFirst((g \o r) \o <<Head(p)>>)
  BY <1>1, <1>2, <1>3, <1>5, <1>7
<1>9. QED
  BY <1>3, <1>4, <1>6, <1>8 DEF g, r, p

\* Short sequences of pieces.
LEMMA PieceSequences ==
    /\ \A a \in Mark :
          <<Piece(a)>> \in Seq(AnyPiece) /\ Len(<<Piece(a)>>) = 1 /\ <<Piece(a)>>[1].kind = a
    /\ \A a, b \in Mark :
          /\ <<Piece(a), Piece(b)>> \in Seq(AnyPiece) /\ Len(<<Piece(a), Piece(b)>>) = 2
          /\ <<Piece(a), Piece(b)>>[1].kind = a /\ <<Piece(a), Piece(b)>>[2].kind = b
    /\ \A a, b, c \in Mark :
          /\ <<Piece(a), Piece(b), Piece(c)>> \in Seq(AnyPiece)
          /\ Len(<<Piece(a), Piece(b), Piece(c)>>) = 3
          /\ <<Piece(a), Piece(b), Piece(c)>>[1].kind = a
          /\ <<Piece(a), Piece(b), Piece(c)>>[2].kind = b
          /\ <<Piece(a), Piece(b), Piece(c)>>[3].kind = c
BY PiecesAre

\* An answer with a reset behind it, or without one.
MaybeReset(v, h, pieces, ps) ==
    ps = pieces \/ (h = "proxy" /\ upload[v] # "sent" /\ ps = pieces \o <<Piece("rst")>>)

HistoryGrows ==
    /\ early' \subseteq Visitor /\ early \subseteq early'
    /\ spilt' \subseteq Visitor /\ spilt \subseteq spilt'

LEMMA EndsIs ==
    ASSUME NEW v \in Visitor, NEW h \in Hop, NEW pieces \in Seq(AnyPiece), HopsTypeOK,
           wire[v][h] # <<>>, Ends(v, h, pieces)
    PROVE  /\ \E ps \in Seq(AnyPiece) : MaybeReset(v, h, pieces, ps) /\ Works(v, h, "ended", TRUE, ps)
           /\ OnlyFor(v) /\ HistoryGrows /\ UNCHANGED <<sent, upload, up, died>>
           /\ spilt' = spilt /\ (v \in early' \/ upload[v] = "sent")
<1>1. PICK ps \in IF h = "proxy" THEN Closing(v, pieces) ELSE {pieces} : Hears(v, h, "ended", ps)
  BY DEF Ends
<1>2. ps \in Seq(AnyPiece) /\ MaybeReset(v, h, pieces, ps)
  BY <1>1, ClosingIs DEF MaybeReset
<1>3. Works(v, h, "ended", TRUE, ps) /\ OnlyFor(v) /\ UNCHANGED <<sent, upload, up, died>>
  BY <1>1, <1>2, HearsIs DEF Stage
<1>4. HistoryGrows /\ spilt' = spilt /\ (v \in early' \/ upload[v] = "sent")
  BY DEF Ends, HistoryGrows, HopsTypeOK
<1>5. QED
  BY <1>2, <1>3, <1>4

\* What is marked stays so behind a note, with a reset or without one.
LEMMA MarkedMaybeReset ==
    ASSUME NEW v \in Visitor, IsAnswer(Whole(v)),
           NEW h \in Hop, NEW s \in Seq(AnyPiece), NEW pieces \in Seq(AnyPiece),
           NEW ps \in Seq(AnyPiece), MaybeReset(v, h, pieces, ps),
           Marked(Whole(v), s \o pieces), HeadFirst(s \o pieces)
    PROVE  Marked(Whole(v), s \o ps) /\ HeadFirst(s \o ps)
<1>1. CASE ps = pieces
  BY <1>1
<1>2. CASE ps = pieces \o <<Piece("rst")>>
  <2>1. PICK e \in Seq(AnyPiece) : e = <<Piece("rst")>> /\ Len(e) = 1 /\ e[1].kind = "rst"
    <3>1. /\ <<Piece("rst")>> \in Seq(AnyPiece) /\ Len(<<Piece("rst")>>) = 1
          /\ <<Piece("rst")>>[1].kind = "rst"
      BY PieceSequences DEF Mark
    <3>2. QED
      BY <3>1
  <2>2. NoHead(e) /\ Len(e) > 0
    BY <2>1 DEF NoHead
  <2>3. Marked(Whole(v), (s \o pieces) \o e) /\ HeadFirst((s \o pieces) \o e)
    <3>1. PICK a \in Seq(AnyPiece) : a = s \o pieces /\ Marked(Whole(v), a) /\ HeadFirst(a)
      BY ConcatProperties
    <3>2. Marked(Whole(v), a \o e) /\ HeadFirst(a \o e)
      BY <2>1, <2>2, <3>1, MarkedBehind DEF Telling
    <3>3. QED
      BY <3>1, <3>2
  <2>4. (s \o pieces) \o e = s \o (pieces \o e)
    BY <2>1, Joined
  <2>5. QED
    BY <1>2, <2>1, <2>3, <2>4
<1>3. QED
  BY <1>1, <1>2 DEF MaybeReset

LEMMA AnswerPiped ==
    ASSUME NEW v \in Visitor, Whole(v)' = Whole(v),
           NEW h \in Hop, HopsTypeOK, AnswerOf(v), Pipe(v, h)
    PROVE  AnswerOf(v)' /\ OnlyFor(v) /\ HistoryGrows /\ UNCHANGED <<sent, upload, up, died>>
<1> IsAnswer(Whole(v))
  BY RequestIs
<1>1. wire[v][h] \in Seq(AnyPiece)
  BY BelowIs DEF HopsTypeOK
<1>2. CASE /\ Comes(v, h, {"head", "failed", "refused", "chunk", "notice"})
           /\ Hears(v, h, "answering", <<Head(wire[v][h])>>) /\ UNCHANGED <<early, spilt>>
  <2>1. wire[v][h] # <<>> /\ Head(wire[v][h]).kind \notin FinalKind
        /\ <<Head(wire[v][h])>> \in Seq(AnyPiece)
    BY <1>1, <1>2, HeadAndTail DEF Comes, FinalKind, Completing
  <2>2. /\ Works(v, h, "answering", TRUE, <<Head(wire[v][h])>>) /\ OnlyFor(v)
        /\ UNCHANGED <<sent, upload, up, died>>
    BY <1>2, <2>1, HearsIs DEF Stage
  <2>3. AnswerOf(v)'
    BY <2>1, <2>2, RouterPasses, ProxyPasses DEF Pipe, Hop
  <2>4. QED
    BY <1>2, <2>2, <2>3 DEF HistoryGrows, HopsTypeOK
<1>3. CASE Comes(v, h, Completing) /\ Ends(v, h, <<Head(wire[v][h])>>)
  <2> PICK x \in AnyPiece :
         x = Head(wire[v][h]) /\ x.kind \in Completing /\ <<x>> \in Seq(AnyPiece)
    <3>1. wire[v][h] # <<>> /\ Head(wire[v][h]).kind \in Completing
      BY <1>3 DEF Comes
    <3>2. Head(wire[v][h]) \in AnyPiece /\ <<Head(wire[v][h])>> \in Seq(AnyPiece)
      BY <1>1, <3>1, HeadAndTail
    <3>3. QED
      BY <3>1, <3>2
  <2>1. wire[v][h] # <<>> /\ Ends(v, h, <<x>>)
    BY <1>3 DEF Comes
  <2>2. PICK ps \in Seq(AnyPiece) :
           MaybeReset(v, h, <<x>>, ps) /\ Works(v, h, "ended", TRUE, ps)
    BY <2>1, EndsIs
  <2>3. OnlyFor(v) /\ HistoryGrows /\ UNCHANGED <<sent, upload, up, died>>
    BY <2>1, EndsIs
  <2>4. at[v][h] \in {"waiting", "answering"}
    BY DEF Pipe
  <2>5. CASE h = "router"
    <3>1. ps = <<x>>
      BY <2>2, <2>5 DEF MaybeReset
    <3>2. ASSUME at[v]["visitor"] # "lost" PROVE Intact(Whole(v), Got(v) \o <<x>>)
      <4>1. Passing(v)
        BY <2>4, <2>5, <3>2 DEF Passing
      <4>2. Marked(Whole(v), Got(v) \o <<x>>) /\ HeadFirst(Got(v) \o <<x>>)
        BY <2>1, <2>5, <4>1, FlowBegins
      <4>3. NoEnd(Got(v)) /\ Got(v) \in Seq(AnyPiece)
        BY <4>1, RequestIs DEF AnswerOf, NoEndYet
      <4>4. QED
        BY <2>1, <4>2, <4>3, IntactAtEnd
    <3>3. AnswerOf(v)'
      BY <2>1, <2>2, <2>3, <2>4, <2>5, <3>1, <3>2, RouterStops
    <3>4. QED
      BY <2>3, <3>3
  <2>6. CASE h = "proxy"
    <3>1. ASSUME Passing(v)
          PROVE  LET s == (Got(v) \o wire[v]["router"]) \o ps IN Marked(Whole(v), s) /\ HeadFirst(s)
      <4>1. /\ Got(v) \o wire[v]["router"] \in Seq(AnyPiece)
            /\ Marked(Whole(v), (Got(v) \o wire[v]["router"]) \o <<x>>)
            /\ HeadFirst((Got(v) \o wire[v]["router"]) \o <<x>>)
        BY <2>1, <2>4, <2>6, <3>1, FlowBegins DEF Listening
      <4>2. QED
        BY <2>2, <4>1, MarkedMaybeReset
    <3>2. AnswerOf(v)'
      BY <2>2, <2>3, <2>4, <2>6, <3>1, ProxyStops
    <3>3. QED
      BY <2>3, <3>2
  <2>7. QED
    BY <2>5, <2>6 DEF Hop
<1>4. QED
  BY <1>2, <1>3 DEF Pipe

\* A proxy that leaves a request while it waits has written nothing before.
LEMMA OwnAnswerMarked ==
    ASSUME NEW v \in Visitor, HopsTypeOK, AnswerOf(v), at[v]["proxy"] \in {"reached", "waiting"},
           NEW ps \in Seq(AnyPiece), Len(ps) > 0, ps[1].kind \in {"failed", "refused"}, NoHead(ps),
           Passing(v)
    PROVE  LET s == (Got(v) \o wire[v]["router"]) \o ps IN Marked(Whole(v), s) /\ HeadFirst(s)
<1> IsAnswer(Whole(v))
  BY RequestIs
<1>1. Got(v) = <<>> /\ wire[v]["router"] = <<>>
  BY DEF AnswerOf, NothingYet, Passing
<1>2. (Got(v) \o wire[v]["router"]) \o ps = ps
  BY <1>1
<1>3. QED
  BY <1>2, MarkedOwn

\* A router that leaves a request while it waits has written nothing before.
LEMMA OwnAnswerIntact ==
    ASSUME NEW v \in Visitor, HopsTypeOK, AnswerOf(v), at[v]["router"] = "waiting",
           NEW ps \in Seq(AnyPiece), NoHead(ps)
    PROVE  Intact(Whole(v), Got(v) \o ps)
<1> IsAnswer(Whole(v))
  BY RequestIs
<1>1. Got(v) = <<>>
  BY DEF AnswerOf, NothingYet
<1>2. Got(v) \o ps = ps
  BY <1>1
<1>3. QED
  BY <1>2 DEF Intact, NoHead

\* What a hop writes of its own.
LEMMA OwnSequences ==
    /\ <<Piece("failed"), Piece("end")>> \in Seq(AnyPiece)
    /\ <<Piece("failed"), Piece("notice"), Piece("end")>> \in Seq(AnyPiece)
    /\ <<Piece("notice"), Piece("end")>> \in Seq(AnyPiece)
    /\ <<Piece("refused"), Piece("notice"), Piece("end")>> \in Seq(AnyPiece)
    /\ <<>> \in Seq(AnyPiece)
    /\ \A h \in Hop : OwnAnswer(h) \in Seq(AnyPiece)
<1>1. /\ <<Piece("failed"), Piece("end")>> \in Seq(AnyPiece)
      /\ <<Piece("failed"), Piece("notice"), Piece("end")>> \in Seq(AnyPiece)
      /\ <<Piece("notice"), Piece("end")>> \in Seq(AnyPiece)
      /\ <<Piece("refused"), Piece("notice"), Piece("end")>> \in Seq(AnyPiece)
  BY PieceSequences DEF Mark
<1>2. QED
  BY <1>1 DEF OwnAnswer

\* It has no head.
LEMMA OwnAnswerIs ==
    ASSUME NEW v \in Visitor, NEW h \in Hop, NEW ps \in Seq(AnyPiece),
           NEW own \in {OwnAnswer(h), <<Piece("notice"), Piece("end")>>,
                        <<Piece("refused"), Piece("notice"), Piece("end")>>},
           MaybeReset(v, h, own, ps)
    PROVE  /\ own \in Seq(AnyPiece) /\ Len(ps) > 0 /\ NoHead(ps)
           /\ own = OwnAnswer(h) => ps[1].kind = "failed"
           /\ own = <<Piece("notice"), Piece("end")>> => ps[1].kind = "notice"
           /\ own = <<Piece("refused"), Piece("notice"), Piece("end")>> => ps[1].kind = "refused"
<1>1. /\ own \in Seq(AnyPiece) /\ Len(own) \in {2, 3}
      /\ \A i \in 1 .. Len(own) : own[i].kind # "head"
      /\ own = OwnAnswer(h) => own[1].kind = "failed"
      /\ own = <<Piece("notice"), Piece("end")>> => own[1].kind = "notice"
      /\ own = <<Piece("refused"), Piece("notice"), Piece("end")>> => own[1].kind = "refused"
  <2>2. /\ Piece("failed").kind = "failed" /\ Piece("end").kind = "end"
        /\ Piece("notice").kind = "notice" /\ Piece("refused").kind = "refused"
    BY DEF Piece
  <2>3. CASE own = OwnAnswer(h)
    <3>1. CASE h = "router"
      BY <2>2, <2>3, <3>1, OwnSequences DEF OwnAnswer
    <3>2. CASE h = "proxy"
      BY <2>2, <2>3, <3>2, OwnSequences DEF OwnAnswer
    <3>3. QED
      BY <3>1, <3>2 DEF Hop
  <2>4. CASE own = <<Piece("notice"), Piece("end")>>
    <3>1. own # OwnAnswer(h) /\ own # <<Piece("refused"), Piece("notice"), Piece("end")>>
      BY <2>2, <2>4 DEF OwnAnswer
    <3>2. QED
      BY <2>2, <2>4, <3>1, OwnSequences
  <2>5. CASE own = <<Piece("refused"), Piece("notice"), Piece("end")>>
    <3>1. own # OwnAnswer(h) /\ own # <<Piece("notice"), Piece("end")>>
      BY <2>2, <2>5 DEF OwnAnswer
    <3>2. QED
      BY <2>2, <2>5, <3>1, OwnSequences
  <2>6. QED
    BY <2>3, <2>4, <2>5
<1>2. CASE ps = own
  BY <1>1, <1>2 DEF NoHead
<1>3. CASE ps = own \o <<Piece("rst")>>
  <2>1. PICK e \in Seq(AnyPiece) : e = <<Piece("rst")>> /\ Len(e) = 1 /\ e[1].kind = "rst"
    <3>0. "rst" \in Mark
      BY DEF Mark
    <3>1. /\ <<Piece("rst")>> \in Seq(AnyPiece) /\ Len(<<Piece("rst")>>) = 1
          /\ <<Piece("rst")>>[1].kind = "rst"
      BY ONLY <3>0, PieceSequences, Zenon
    <3>2. QED
      BY <3>1
  <2>2. ps = own \o e
    BY <1>3, <2>1
  <2>3. /\ Len(ps) = Len(own) + 1 /\ ps[1] = own[1]
        /\ \A i \in 1 .. Len(ps) : ps[i].kind # "head"
    BY <1>1, <2>1, <2>2
  <2>4. QED
    BY <1>1, <2>3 DEF NoHead
<1>4. QED
  BY <1>2, <1>3 DEF MaybeReset

LEMMA AnswerFailed ==
    ASSUME NEW v \in Visitor, Whole(v)' = Whole(v),
           NEW h \in Hop, HopsTypeOK, AnswerOf(v), ErrorBeforeHead(v, h)
    PROVE  AnswerOf(v)' /\ OnlyFor(v) /\ HistoryGrows /\ UNCHANGED <<sent, upload, up, died>>
<1> IsAnswer(Whole(v))
  BY RequestIs
<1>1. at[v][h] = "waiting" /\ wire[v][h] # <<>> /\ Ends(v, h, OwnAnswer(h))
  BY DEF ErrorBeforeHead, Comes
<1>2. OwnAnswer(h) \in Seq(AnyPiece)
  BY OwnSequences
<1>3. PICK ps \in Seq(AnyPiece) :
         MaybeReset(v, h, OwnAnswer(h), ps) /\ Works(v, h, "ended", TRUE, ps)
  BY <1>1, <1>2, EndsIs
<1>4. OnlyFor(v) /\ HistoryGrows /\ UNCHANGED <<sent, upload, up, died>>
  BY <1>1, <1>2, EndsIs
<1>5. Len(ps) > 0 /\ NoHead(ps) /\ ps[1].kind = "failed"
  BY <1>3, OwnAnswerIs
<1>6. CASE h = "router"
  <2>1. Intact(Whole(v), Got(v) \o ps)
    BY <1>1, <1>5, <1>6, OwnAnswerIntact
  <2>2. AnswerOf(v)'
    BY <1>1, <1>3, <1>4, <1>6, <2>1, RouterStops
  <2>3. QED
    BY <1>4, <2>2
<1>7. CASE h = "proxy"
  <2>1. Passing(v) => LET s == (Got(v) \o wire[v]["router"]) \o ps IN Marked(Whole(v), s) /\ HeadFirst(s)
    BY <1>1, <1>5, <1>7, OwnAnswerMarked
  <2>2. AnswerOf(v)'
    BY <1>1, <1>3, <1>4, <1>7, <2>1, ProxyStops
  <2>3. QED
    BY <1>4, <2>2
<1>8. QED
  BY <1>6, <1>7 DEF Hop

\* A piece is dropped: what there is stays as good as it was.
LEMMA AnswerDropped ==
    ASSUME NEW v \in Visitor, Whole(v)' = Whole(v),
           NEW h \in Hop, NEW stage \in {"stalled", "ended"}, HopsTypeOK,
           AnswerOf(v), at[v][h] \in {"waiting", "answering", "ended"}, wire[v][h] # <<>>,
           Hears(v, h, stage, <<>>)
    PROVE  AnswerOf(v)' /\ OnlyFor(v) /\ UNCHANGED <<sent, upload, up, died>>
<1> IsAnswer(Whole(v))
  BY RequestIs
<1>1. PICK none \in Seq(AnyPiece) : none = <<>>
  BY OwnSequences
<1>2. Works(v, h, stage, TRUE, none) /\ OnlyFor(v) /\ UNCHANGED <<sent, upload, up, died>>
  BY <1>1, HearsIs DEF Stage
<1>3. CASE h = "router"
  <2>1. Intact(Whole(v), Got(v) \o none)
    BY <1>1, RequestIs DEF AnswerOf
  <2>2. AnswerOf(v)'
    BY <1>2, <1>3, <2>1, RouterStops
  <2>3. QED
    BY <1>2, <2>2
<1>4. CASE h = "proxy"
  <2>1. Passing(v) => LET s == (Got(v) \o wire[v]["router"]) \o none IN Marked(Whole(v), s) /\ HeadFirst(s)
    <3>1. SUFFICES ASSUME Passing(v)
                   PROVE  LET s == (Got(v) \o wire[v]["router"]) \o none IN Marked(Whole(v), s) /\ HeadFirst(s)
      OBVIOUS
    <3>2. PICK s \in Seq(AnyPiece) : s = Got(v) \o wire[v]["router"] /\ Marked(Whole(v), s) /\ HeadFirst(s)
      BY <3>1, FlowBegins
    <3>3. s \o none = s
      BY <1>1
    <3>4. QED
      BY <3>2, <3>3
  <2>2. AnswerOf(v)'
    BY <1>2, <1>4, <2>1, ProxyStops
  <2>3. QED
    BY <1>2, <2>2
<1>5. QED
  BY <1>3, <1>4 DEF Hop

\* The text of an error tells of it with its first piece, and ends as the answer allows.
LEMMA NotedIs ==
    ASSUME NEW v \in Visitor, framing[v] \in {"chunked", "length"},
           NEW lacking, NEW ps \in Noted(v, lacking)
    PROVE  /\ ps \in Seq(AnyPiece) /\ Len(ps) > 0 /\ NoHead(ps)
           /\ ps[1].kind \in {"notice", "filled"}
           /\ \A i \in 1 .. Len(ps) :
                 ps[i].kind = "rst" => framing[v] = "length" /\ ~Short(v, lacking) /\ NoticeLength # lacking
           /\ Short(v, lacking) => ps = <<Piece("notice")>>
           /\ ~Short(v, lacking) /\ (\A i \in 1 .. Len(ps) : ps[i].kind # "rst") =>
                 \A i \in 1 .. Len(ps) : ps[i].kind \in FinalKind => i = Len(ps)
<1>1. /\ Piece("notice").kind = "notice" /\ Piece("end").kind = "end"
      /\ Piece("filled").kind = "filled" /\ Piece("rst").kind = "rst"
  BY DEF Piece
<1>2. /\ <<Piece("notice"), Piece("end")>> \in Seq(AnyPiece) /\ <<Piece("notice")>> \in Seq(AnyPiece)
      /\ <<Piece("filled"), Piece("rst")>> \in Seq(AnyPiece) /\ <<Piece("filled")>> \in Seq(AnyPiece)
  BY PieceSequences DEF Mark
<1>3. CASE ps = <<Piece("notice"), Piece("end")>> /\ framing[v] = "chunked"
  BY <1>1, <1>2, <1>3 DEF NoHead, FinalKind, Completing, Short
<1>4. CASE ps = <<Piece("notice")>> /\ Short(v, lacking)
  BY <1>1, <1>2, <1>4 DEF NoHead, FinalKind, Completing
<1>5. CASE ps = <<Piece("filled")>> /\ ~Short(v, lacking)
  BY <1>1, <1>2, <1>5 DEF NoHead, FinalKind, Completing
<1>6. CASE /\ ps = <<Piece("filled"), Piece("rst")>> /\ ~Short(v, lacking)
           /\ NoticeLength # lacking /\ framing[v] = "length"
  BY <1>1, <1>2, <1>6 DEF NoHead, FinalKind, Completing, Noted
<1>7. QED
  BY <1>3, <1>4, <1>5, <1>6 DEF Noted

\* Such a text behind what there is of an answer.
LEMMA MarkedNoted ==
    ASSUME NEW v \in Visitor, IsAnswer(Whole(v)), framing[v] \in {"chunked", "length"},
           NEW s \in Seq(AnyPiece), Marked(Whole(v), s),
           HeadFirst(s), NEW lacking, NEW text \in Noted(v, lacking), NEW ps \in Closing(v, text)
    PROVE  ps \in Seq(AnyPiece) /\ Marked(Whole(v), s \o ps) /\ HeadFirst(s \o ps)
<1>1. /\ text \in Seq(AnyPiece) /\ Len(text) > 0 /\ NoHead(text)
      /\ text[1].kind \in Telling
  BY NotedIs DEF Telling
<1>2. ps \in Seq(AnyPiece) /\ MaybeReset(v, "proxy", text, ps)
  BY <1>1, ClosingIs DEF MaybeReset
<1>3. Marked(Whole(v), s \o text) /\ HeadFirst(s \o text)
  BY <1>1, MarkedBehind
<1>4. QED
  BY <1>1, <1>2, <1>3, MarkedMaybeReset DEF Hop

LEMMA AnswerNoted ==
    ASSUME NEW v \in Visitor, Whole(v)' = Whole(v), HopsTypeOK, AnswerOf(v), ErrorAfterHead(v)
    PROVE  AnswerOf(v)' /\ OnlyFor(v) /\ HistoryGrows /\ UNCHANGED <<sent, upload, up, died>>
<1> framing[v] \in {"chunked", "length"}
  BY RequestIs
<1> IsAnswer(Whole(v))
  BY RequestIs
<1>1. at[v]["proxy"] = "answering" /\ wire[v]["proxy"] # <<>> /\ "proxy" \in Hop
  BY DEF ErrorAfterHead, Comes, Hop
<1> PICK stage \in {"short", "ended"}, text \in Noted(v, room[v]) :
       \E ps \in Closing(v, text) : Hears(v, "proxy", stage, ps)
  BY DEF ErrorAfterHead
<1>2. PICK ps \in Closing(v, text) : Hears(v, "proxy", stage, ps)
  OBVIOUS
<1>3. ps \in Seq(AnyPiece)
  BY NotedIs, ClosingIs
<1>4. /\ Works(v, "proxy", stage, TRUE, ps) /\ OnlyFor(v) /\ UNCHANGED <<sent, upload, up, died>>
  BY <1>1, <1>2, <1>3, HearsIs DEF Stage
<1>5. ASSUME Passing(v)
      PROVE  LET s == (Got(v) \o wire[v]["router"]) \o ps IN Marked(Whole(v), s) /\ HeadFirst(s)
  BY <1>5, FlowBegins, MarkedNoted
<1>6. AnswerOf(v)'
  BY <1>1, <1>3, <1>4, <1>5, ProxyStops
<1>7. HistoryGrows
  BY DEF ErrorAfterHead, Spills, HistoryGrows, HopsTypeOK
<1>8. QED
  BY <1>4, <1>6, <1>7

\* A proxy that is done with a request writes a cut at most.
LEMMA AnswerClosed ==
    ASSUME NEW v \in Visitor, Whole(v)' = Whole(v), NEW how \in {"fin", "rst"}, NEW took,
           HopsTypeOK, AnswerOf(v), at[v]["proxy"] # "new",
           Works(v, "proxy", "ended", took, <<Piece(how)>>), sent'[v] = sent[v]
    PROVE  AnswerOf(v)'
<1> IsAnswer(Whole(v))
  BY RequestIs
<1>1. PICK e \in Seq(AnyPiece) : e = <<Piece(how)>> /\ Len(e) = 1 /\ e[1].kind = how
  <2>1. <<Piece(how)>> \in Seq(AnyPiece) /\ Len(<<Piece(how)>>) = 1 /\ <<Piece(how)>>[1].kind = how
    <3>1. how \in Mark
      BY DEF Mark
    <3>2. QED
      BY <3>1, PieceSequences
  <2>2. QED
    BY <2>1
<1>2. NoHead(e) /\ Len(e) > 0 /\ e[1].kind \in Telling
  BY <1>1 DEF NoHead, Telling
<1>3. Passing(v) =>
         LET s == (Got(v) \o wire[v]["router"]) \o e IN Marked(Whole(v), s) /\ HeadFirst(s)
  BY <1>2, FlowBegins, MarkedBehind
<1>4. Works(v, "proxy", "ended", took, e)
  BY <1>1
<1>5. QED
  BY <1>3, <1>4, ProxyStops

LEMMA AnswerIdle ==
    ASSUME NEW v \in Visitor, Whole(v)' = Whole(v), HopsTypeOK, AnswerOf(v), IdleCloses(v)
    PROVE  AnswerOf(v)' /\ OnlyFor(v) /\ HistoryGrows /\ UNCHANGED <<sent, upload, up, died>>
<1>1. /\ at[v]["proxy"] = "short" /\ at' = [at EXCEPT ![v]["proxy"] = "ended"] /\ "proxy" \in Hop
      /\ wire' = [wire EXCEPT ![v] = Delivered(v, Below["proxy"], <<Piece("fin")>>)]
      /\ UNCHANGED <<sent, upload, early, spilt, up, died>>
  BY BelowIs DEF IdleCloses, Hop
<1>2. <<Piece("fin")>> \in Seq(AnyPiece)
  BY PieceSequences DEF Mark
<1>3. Works(v, "proxy", "ended", FALSE, <<Piece("fin")>>) /\ OnlyFor(v)
  BY <1>1, <1>2, WritesIs DEF Stage
<1>4. AnswerOf(v)'
  BY <1>1, <1>3, AnswerClosed
<1>5. QED
  BY <1>1, <1>3, <1>4 DEF HistoryGrows, HopsTypeOK

LEMMA AnswerSpilt ==
    ASSUME NEW v \in Visitor, Whole(v)' = Whole(v), HopsTypeOK, AnswerOf(v), ErrorSpills(v)
    PROVE  AnswerOf(v)' /\ OnlyFor(v) /\ HistoryGrows /\ UNCHANGED <<sent, upload, up, died>>
<1>1. /\ at[v]["proxy"] = "ended" /\ wire[v]["proxy"] # <<>> /\ "proxy" \in Hop
      /\ Hears(v, "proxy", "ended", <<Piece("rst")>>) /\ UNCHANGED <<early, spilt>>
  BY DEF ErrorSpills, Comes, Hop
<1>2. <<Piece("rst")>> \in Seq(AnyPiece)
  BY PieceSequences DEF Mark
<1>3. /\ Works(v, "proxy", "ended", TRUE, <<Piece("rst")>>) /\ OnlyFor(v)
      /\ UNCHANGED <<sent, upload, up, died>>
  BY <1>1, <1>2, HearsIs DEF Stage
<1>4. AnswerOf(v)'
  BY <1>1, <1>3, AnswerClosed
<1>5. QED
  BY <1>1, <1>3, <1>4 DEF HistoryGrows, HopsTypeOK

\* A hop lets go of a request by a cut.
LEMMA AnswerCut ==
    ASSUME NEW v \in Visitor, Whole(v)' = Whole(v),
           NEW h \in Hop, NEW how \in {"fin", "rst"}, HopsTypeOK, AnswerOf(v),
           at[v][h] # "new", Works(v, h, "lost", FALSE, <<Piece(how)>>), sent'[v] = sent[v]
    PROVE  AnswerOf(v)'
<1> IsAnswer(Whole(v))
  BY RequestIs
<1>1. PICK e \in Seq(AnyPiece) : e = <<Piece(how)>> /\ Len(e) = 1 /\ e[1].kind = how
  <2>1. <<Piece(how)>> \in Seq(AnyPiece) /\ Len(<<Piece(how)>>) = 1 /\ <<Piece(how)>>[1].kind = how
    <3>1. how \in Mark
      BY DEF Mark
    <3>2. QED
      BY <3>1, PieceSequences
  <2>2. QED
    BY <2>1
<1>2. Works(v, h, "lost", FALSE, e)
  BY <1>1
<1>3. CASE h = "router"
  <2>1. Intact(Whole(v), Got(v)) /\ Got(v) \in Seq(AnyPiece)
    BY RequestIs DEF AnswerOf
  <2>2. \A i \in 1 .. Len(e) : e[i].kind \notin Completing \cup {"head", "notice"}
    BY <1>1 DEF Completing
  <2>3. Intact(Whole(v), Got(v) \o e)
    BY <2>1, <2>2, IntactBehind
  <2>4. QED
    BY <1>2, <1>3, <2>3, RouterStops
<1>4. CASE h = "proxy"
  <2>1. NoHead(e) /\ Len(e) > 0 /\ e[1].kind \in Telling
    BY <1>1 DEF NoHead, Telling
  <2>2. Passing(v) => LET s == (Got(v) \o wire[v]["router"]) \o e IN Marked(Whole(v), s) /\ HeadFirst(s)
    BY <2>1, FlowBegins, MarkedBehind
  <2>3. QED
    BY <1>2, <1>4, <2>2, ProxyStops
<1>5. QED
  BY <1>3, <1>4 DEF Hop

LEMMA AnswerTimedOut ==
    ASSUME NEW v \in Visitor, Whole(v)' = Whole(v),
           NEW h \in Hop, HopsTypeOK, AnswerOf(v), RequestTimeout(v, h)
    PROVE  AnswerOf(v)' /\ OnlyFor(v)
<1> IsAnswer(Whole(v))
  BY RequestIs
<1>1. at[v][h] \in {"waiting", "answering", "stalled", "short"} /\ at' = [at EXCEPT ![v][h] = "lost"]
      /\ sent' = sent
  BY DEF RequestTimeout
<1>2. CASE at[v][h] = "waiting"
  <2>1. PICK ps \in Seq(AnyPiece) :
           /\ ps = <<Piece("failed"), Piece("end")>> /\ NoHead(ps)
           /\ Len(ps) > 0 /\ ps[1].kind = "failed"
    <3>1. Piece("failed").kind = "failed" /\ Piece("end").kind = "end"
      BY DEF Piece
    <3>2. <<Piece("failed"), Piece("end")>> \in Seq(AnyPiece)
      BY OwnSequences
    <3>3. /\ NoHead(<<Piece("failed"), Piece("end")>>) /\ Len(<<Piece("failed"), Piece("end")>>) > 0
          /\ <<Piece("failed"), Piece("end")>>[1].kind = "failed"
      BY <3>1 DEF NoHead
    <3>4. QED
      BY <3>2, <3>3
  <2>2. wire' = [wire EXCEPT ![v] = Delivered(v, Below[h], ps)]
    BY <1>2, <2>1 DEF RequestTimeout
  <2>3. Works(v, h, "lost", FALSE, ps) /\ OnlyFor(v)
    BY <1>1, <2>2, WritesIs DEF Stage
  <2>4. CASE h = "router"
    <3>1. Intact(Whole(v), Got(v) \o ps)
      BY <1>2, <2>1, <2>4, OwnAnswerIntact
    <3>2. QED
      BY <1>1, <2>3, <2>4, <3>1, RouterStops
  <2>5. CASE h = "proxy"
    <3>1. Passing(v) => LET s == (Got(v) \o wire[v]["router"]) \o ps IN Marked(Whole(v), s) /\ HeadFirst(s)
      BY <1>2, <2>1, <2>5, OwnAnswerMarked
    <3>2. QED
      BY <1>1, <2>3, <2>5, <3>1, ProxyStops
  <2>6. QED
    BY <2>4, <2>5 DEF Hop
<1>3. CASE at[v][h] # "waiting"
  <2>1. PICK how \in {"fin", "rst"} : wire' = [wire EXCEPT ![v] = Delivered(v, Below[h], <<Piece(how)>>)]
    BY <1>3 DEF RequestTimeout
  <2>2. <<Piece(how)>> \in Seq(AnyPiece)
    BY PieceSequences DEF Mark
  <2>3. Works(v, h, "lost", FALSE, <<Piece(how)>>) /\ OnlyFor(v)
    BY <1>1, <2>1, <2>2, WritesIs DEF Stage
  <2>4. QED
    BY <1>1, <2>3, AnswerCut
<1>4. QED
  BY <1>2, <1>3

LEMMA AnswerVisited ==
    ASSUME NEW v \in Visitor, Whole(v)' = Whole(v),
           HopsTypeOK, AnswerOf(v), Visit(v)
    PROVE  AnswerOf(v)' /\ OnlyFor(v) /\ UNCHANGED <<sent, upload, early, spilt, up, died>>
<1> IsAnswer(Whole(v))
  BY RequestIs
<1>1. /\ at[v]["visitor"] = "new" /\ at[v]["router"] = "new" /\ at[v]["proxy"] = "new"
      /\ Got(v) = <<>> /\ wire[v]["router"] = <<>> /\ wire[v]["proxy"] = <<>> /\ sent[v] = 0
  BY DEF Visit, AnswerOf, NothingYet, Passing
<1>3. UNCHANGED <<sent, upload, early, spilt, up, died>>
  BY DEF Visit
<1>4. PICK rst \in Seq(AnyPiece) : rst = <<Piece("rst")>> /\ Len(rst) = 1 /\ rst[1].kind = "rst"
  <2>1. <<Piece("rst")>> \in Seq(AnyPiece) /\ Len(<<Piece("rst")>>) = 1 /\ <<Piece("rst")>>[1].kind = "rst"
    BY PieceSequences DEF Mark
  <2>2. QED
    BY <2>1
<1>5. PICK x \in {"reached", "lost"} :
         /\ at' = [at EXCEPT ![v] = [visitor |-> "waiting", router |-> "waiting", proxy |-> x]]
         /\ x = "reached" => wire' = wire
         /\ x = "lost" => wire' = [wire EXCEPT ![v]["router"] = rst]
  <2>1. CASE "proxy" \in up
    BY <2>1 DEF Visit
  <2>2. CASE "proxy" \notin up
    BY <1>4, <2>2 DEF Visit
  <2>3. QED
    BY <2>1, <2>2
<1>6. PICK f \in [Party -> Stage] :
         /\ f = [visitor |-> "waiting", router |-> "waiting", proxy |-> x]
         /\ f["visitor"] = "waiting" /\ f["router"] = "waiting" /\ f["proxy"] = x
  <2>1. x \in Stage /\ "waiting" \in Stage
    BY DEF Stage
  <2>2. /\ [visitor |-> "waiting", router |-> "waiting", proxy |-> x] \in [Party -> Stage]
        /\ [visitor |-> "waiting", router |-> "waiting", proxy |-> x]["visitor"] = "waiting"
        /\ [visitor |-> "waiting", router |-> "waiting", proxy |-> x]["router"] = "waiting"
        /\ [visitor |-> "waiting", router |-> "waiting", proxy |-> x]["proxy"] = x
    BY <2>1, StagesOf
  <2>3. QED
    BY <2>2
<1>7. /\ at'[v]["visitor"] = "waiting" /\ at'[v]["router"] = "waiting" /\ at'[v]["proxy"] = x
      /\ at' \in [Visitor -> [Party -> Stage]] /\ \A u \in Visitor \ {v} : at'[u] = at[u]
  BY <1>5, <1>6 DEF HopsTypeOK
<1>8. /\ wire' \in [Visitor -> [Party -> Seq(AnyPiece)]] /\ \A u \in Visitor \ {v} : wire'[u] = wire[u]
      /\ Got(v)' = <<>> /\ wire'[v]["proxy"] = <<>> /\ wire'[v]["router"] \in {<<>>, rst}
      /\ x = "reached" => wire'[v]["router"] = <<>>
  <2>1. wire \in [Visitor -> [Party -> Seq(AnyPiece)]]
    BY DEF HopsTypeOK
  <2>2. CASE x = "reached"
    BY <1>1, <1>5, <2>1, <2>2 DEF Got
  <2>3. CASE x = "lost"
    <3>1. "router" \in Party /\ "proxy" \in Party /\ "visitor" \in Party
      BY DEF Party, Hop
    <3>2. wire' = [wire EXCEPT ![v] = [wire[v] EXCEPT !["router"] = rst]]
      BY <1>5, <2>3
    <3>3. QED
      BY <1>1, <1>4, <2>1, <2>3, <3>1, <3>2 DEF Got
  <2>4. QED
    BY <2>2, <2>3
<1>9. OnlyFor(v)
  BY <1>7, <1>8 DEF OnlyFor
<1>10. Flow(v)' \in {<<>>, rst}
  <2>1. Flow(v)' = (<<>> \o wire'[v]["router"]) \o <<>>
    BY <1>7, <1>8 DEF Flow, Listening
  <2>2. (<<>> \o <<>>) \o <<>> = <<>> /\ (<<>> \o rst) \o <<>> = rst
    BY <1>4, OwnSequences
  <2>3. QED
    BY <1>8, <2>1, <2>2
<1>11. FlowMarked(v)'
  <2>1. \A s \in {<<>>, rst} : Marked(Whole(v), s) /\ HeadFirst(s)
    BY <1>4 DEF Marked, HeadFirst, Telling
  <2>2. QED
    BY <1>10, <2>1 DEF FlowMarked
<1>12. FlowIsAnswer(v)'
  BY <1>7 DEF FlowIsAnswer, Asked
<1>13. NoEndYet(v)' /\ Intact(Whole(v), Got(v)')
  BY <1>8 DEF NoEndYet, NoEnd, Intact
<1>14. NothingYet(v)'
  BY <1>1, <1>3, <1>7, <1>8 DEF NothingYet
<1>15. QED
  BY <1>3, <1>9, <1>11, <1>12, <1>13, <1>14 DEF AnswerOf

LEMMA AnswerForwarded ==
    ASSUME NEW v \in Visitor, Whole(v)' = Whole(v),
           HopsTypeOK, AnswerOf(v), Forward(v)
    PROVE  AnswerOf(v)' /\ OnlyFor(v) /\ HistoryGrows /\ UNCHANGED <<sent, upload, up, died>>
<1> IsAnswer(Whole(v))
  BY RequestIs
<1>1. at[v]["proxy"] = "reached" /\ UNCHANGED <<sent, upload, spilt, up, died>>
      /\ "proxy" \in Hop /\ "proxy" \in Party
  BY DEF Forward, Hop, Party
<1>2. CASE at' = [at EXCEPT ![v]["proxy"] = "waiting"] /\ UNCHANGED <<wire, early>>
  <2>1. /\ at' \in [Visitor -> [Party -> Stage]] /\ \A u \in Visitor \ {v} : at'[u] = at[u]
        /\ at'[v]["proxy"] = "waiting" /\ at'[v]["router"] = at[v]["router"]
        /\ at'[v]["visitor"] = at[v]["visitor"]
    BY <1>1, <1>2 DEF HopsTypeOK, Stage, Party, Hop
  <2>2. OnlyFor(v) /\ HistoryGrows
    BY <1>1, <1>2, <2>1 DEF OnlyFor, HistoryGrows, HopsTypeOK
  <2>3. Passing(v)' = Passing(v) /\ Got(v)' = Got(v)
    BY <1>2, <2>1 DEF Passing, Got
  <2>4. wire[v]["proxy"] = <<>> /\ sent[v] = 0
    BY <1>1 DEF AnswerOf, NothingYet
  <2>5. ASSUME Passing(v) PROVE Got(v) = <<>> /\ wire[v]["router"] = <<>>
    BY <1>1, <2>5 DEF AnswerOf, NothingYet, Passing
  <2>6. ASSUME Passing(v) PROVE Flow(v)' = <<>>
    <3>1. Flow(v)' = (<<>> \o <<>>) \o <<>>
      BY <1>2, <2>1, <2>3, <2>4, <2>5, <2>6 DEF Flow, Listening
    <3>2. QED
      BY <3>1
  <2>7. FlowMarked(v)' /\ FlowIsAnswer(v)'
    BY <1>1, <2>3, <2>4, <2>6 DEF FlowMarked, FlowIsAnswer, Marked, HeadFirst
  <2>8. NothingYet(v)' /\ NoEndYet(v)' /\ Intact(Whole(v), Got(v)')
    BY <1>1, <1>2, <2>1, <2>3 DEF AnswerOf, NothingYet, NoEndYet
  <2>9. QED
    BY <1>1, <2>2, <2>7, <2>8 DEF AnswerOf
<1>3. CASE at' = [at EXCEPT ![v]["proxy"] = "ended"] /\ ~UNCHANGED at
  <2> PICK own \in Seq(AnyPiece) : own = <<Piece("refused"), Piece("notice"), Piece("end")>>
    BY OwnSequences
  <2>1. PICK ps \in Closing(v, own) : wire' = [wire EXCEPT ![v] = Delivered(v, "router", ps)]
    BY <1>1, <1>3, ZenonT(40) DEF Forward, HopsTypeOK
  <2>2. ps \in Seq(AnyPiece) /\ MaybeReset(v, "proxy", own, ps)
    <3>1. \A s \in Seq(AnyPiece) : \A cs \in Closing(v, s) :
             cs \in Seq(AnyPiece) /\ MaybeReset(v, "proxy", s, cs)
      BY ClosingIs DEF MaybeReset
    <3>2. QED
      BY <2>1, <3>1
  <2>3. Len(ps) > 0 /\ NoHead(ps) /\ ps[1].kind = "refused"
    BY <1>1, <2>2, OwnAnswerIs
  <2>4. wire' = [wire EXCEPT ![v] = Delivered(v, Below["proxy"], ps)]
    BY <2>1, BelowIs
  <2>5. Works(v, "proxy", "ended", FALSE, ps) /\ OnlyFor(v)
    BY <1>1, <1>3, <2>2, <2>4, WritesIs DEF Stage
  <2>6. Passing(v) => LET s == (Got(v) \o wire[v]["router"]) \o ps IN Marked(Whole(v), s) /\ HeadFirst(s)
    BY <1>1, <2>2, <2>3, OwnAnswerMarked
  <2>7. AnswerOf(v)'
    BY <1>1, <2>2, <2>5, <2>6, ProxyStops
  <2>8. HistoryGrows
    BY <1>1, <1>3 DEF Forward, HistoryGrows, HopsTypeOK
  <2>9. QED
    BY <1>1, <2>5, <2>7, <2>8
<1>4. at[v]["proxy"] # "ended" /\ (at' = [at EXCEPT ![v]["proxy"] = "ended"] => at'[v]["proxy"] = "ended")
  BY <1>1 DEF HopsTypeOK
<1>5. QED
  BY <1>2, <1>3, <1>4 DEF Forward

\* What the relay writes gets to the proxy, which is there.
LEMMA RelayWritesIs ==
    ASSUME NEW v \in Visitor, NEW pieces \in Seq(AnyPiece), HopsTypeOK, Asked(v), at' = at,
           wire' = [wire EXCEPT ![v] = Delivered(v, "proxy", pieces)]
    PROVE  /\ OnlyFor(v) /\ at'[v] = at[v]
           /\ wire'[v]["proxy"] = wire[v]["proxy"] \o pieces
           /\ wire'[v]["router"] = wire[v]["router"] /\ wire'[v]["visitor"] = wire[v]["visitor"]
<1>1. "proxy" \in Party /\ "router" \in Party /\ "visitor" \in Party /\ at[v]["proxy"] # "lost"
  BY DEF Party, Hop, Asked
<1>2. PICK d : d = Delivered(v, "proxy", pieces)
  OBVIOUS
<1>3. d \in [Party -> Seq(AnyPiece)]
      /\ \A p \in Party : d[p] = IF p = "proxy" /\ at[v]["proxy"] # "lost"
                                 THEN wire[v][p] \o pieces ELSE wire[v][p]
  BY <1>1, <1>2, DeliveredIs
<1>4. OnlyFor(v) /\ wire'[v] = d
  BY <1>2, <1>3 DEF OnlyFor, HopsTypeOK
<1>5. QED
  BY <1>1, <1>3, <1>4

LEMMA AnswerCutOff ==
    ASSUME NEW v \in Visitor, Whole(v)' = Whole(v),
           HopsTypeOK, AnswerOf(v), RelayCut(v)
    PROVE  AnswerOf(v)' /\ OnlyFor(v) /\ UNCHANGED <<upload, early, spilt, up, died>>
<1> IsAnswer(Whole(v))
  BY RequestIs
<1>1. PICK how \in {"fin", "rst"} : wire' = [wire EXCEPT ![v] = Delivered(v, "proxy", <<Piece(how)>>)]
  BY DEF RelayCut
<1>2. PICK e \in Seq(AnyPiece) : e = <<Piece(how)>> /\ Len(e) = 1 /\ e[1].kind = how
  <2>1. <<Piece(how)>> \in Seq(AnyPiece) /\ Len(<<Piece(how)>>) = 1 /\ <<Piece(how)>>[1].kind = how
    <3>1. how \in Mark
      BY DEF Mark
    <3>2. QED
      BY <3>1, PieceSequences
  <2>2. QED
    BY <2>1
<1>3. Asked(v) /\ at' = at /\ sent'[v] = Len(Whole(v)) /\ UNCHANGED <<upload, early, spilt, up, died>>
  BY DEF RelayCut, HopsTypeOK
<1>4. /\ OnlyFor(v) /\ at'[v] = at[v]
      /\ wire'[v]["proxy"] = wire[v]["proxy"] \o e
      /\ wire'[v]["router"] = wire[v]["router"] /\ wire'[v]["visitor"] = wire[v]["visitor"]
  BY <1>1, <1>2, <1>3, RelayWritesIs
<1>5. ASSUME Passing(v)
      PROVE  LET s == Flow(v) \o e IN Marked(Whole(v), s) /\ HeadFirst(s)
  <2>1. Marked(Whole(v), Flow(v)) /\ HeadFirst(Flow(v))
    BY <1>5 DEF AnswerOf, FlowMarked
  <2>2. Flow(v) \in Seq(AnyPiece)
    BY RequestIs DEF Flow
  <2>3. NoHead(e) /\ Len(e) > 0 /\ e[1].kind \in Telling
    BY <1>2 DEF NoHead, Telling
  <2>4. QED
    BY <2>1, <2>2, <2>3, MarkedBehind
<1>6. AnswerOf(v)'
  BY <1>3, <1>4, <1>5, RelayWrites
<1>7. QED
  BY <1>3, <1>4, <1>6

LEMMA AnswerSent ==
    ASSUME NEW v \in Visitor, Whole(v)' = Whole(v),
           HopsTypeOK, AnswerOf(v), RelaySends(v)
    PROVE  AnswerOf(v)' /\ OnlyFor(v) /\ HistoryGrows /\ UNCHANGED <<upload, up, died>>
<1> IsAnswer(Whole(v))
  BY RequestIs
<1>1. PICK n \in Nat : n = sent[v] /\ n < Len(Whole(v)) /\ sent'[v] = n + 1 /\ Len(Whole(v)) \in Nat
  BY RequestIs DEF RelaySends, IsAnswer, RelayEnds, Asked, HopsTypeOK
<1>2. PICK piece \in Seq(AnyPiece) : piece = <<Whole(v)[n + 1]>>
  <2>1. Whole(v)[n + 1] \in AnyPiece
    BY <1>1 DEF IsAnswer
  <2>2. <<Whole(v)[n + 1]>> \in Seq(AnyPiece)
    BY <2>1
  <2>3. QED
    BY <2>2
<1>3. PICK ps \in Closing(v, piece) :
         /\ wire' = [wire EXCEPT ![v] = Delivered(v, "proxy", ps)]
         /\ n + 1 < Len(Whole(v)) => ps = piece
  BY <1>1, <1>2 DEF RelaySends, RelayEnds, Closing
<1>4. ps \in Seq(AnyPiece) /\ MaybeReset(v, "proxy", piece, ps)
  BY ClosingIs DEF MaybeReset
<1>5. Asked(v) /\ at' = at /\ HistoryGrows /\ UNCHANGED <<upload, up, died>>
  BY DEF RelaySends, RelayEnds, HistoryGrows, HopsTypeOK
<1>6. /\ OnlyFor(v) /\ at'[v] = at[v]
      /\ wire'[v]["proxy"] = wire[v]["proxy"] \o ps
      /\ wire'[v]["router"] = wire[v]["router"] /\ wire'[v]["visitor"] = wire[v]["visitor"]
  BY <1>3, <1>4, <1>5, RelayWritesIs
<1>7. ASSUME Passing(v)
      PROVE  LET s == Flow(v) \o ps
             IN  /\ Marked(Whole(v), s) /\ HeadFirst(s)
                 /\ \/ sent'[v] = Len(Whole(v))
                    \/ Len(s) = sent'[v] /\ \A i \in 1 .. sent'[v] : s[i] = Whole(v)[i]
  <2>1. Marked(Whole(v), Flow(v)) /\ HeadFirst(Flow(v)) /\ Flow(v) \in Seq(AnyPiece)
    BY <1>7, RequestIs DEF AnswerOf, FlowMarked, Flow
  <2>2. Len(Flow(v)) = n /\ \A i \in 1 .. n : Flow(v)[i] = Whole(v)[i]
    BY <1>1, <1>5, <1>7 DEF AnswerOf, FlowIsAnswer
  <2>3. /\ Len(Flow(v) \o piece) = n + 1 /\ \A i \in 1 .. n + 1 : (Flow(v) \o piece)[i] = Whole(v)[i]
        /\ Marked(Whole(v), Flow(v) \o piece) /\ HeadFirst(Flow(v) \o piece)
    BY <1>1, <1>2, <2>1, <2>2, AnswerGrows
  <2>4. Marked(Whole(v), Flow(v) \o ps) /\ HeadFirst(Flow(v) \o ps)
    BY <1>4, <2>1, <2>3, MarkedMaybeReset DEF Hop
  <2>5. CASE n + 1 < Len(Whole(v))
    BY <1>1, <1>3, <2>3, <2>4, <2>5
  <2>6. CASE n + 1 = Len(Whole(v))
    BY <1>1, <2>4, <2>6
  <2>7. QED
    BY <1>1, <2>5, <2>6
<1>8. AnswerOf(v)'
  BY <1>4, <1>5, <1>6, <1>7, RelayWrites
<1>9. QED
  BY <1>5, <1>6, <1>8

\* A text or surplus bytes in an answer: what there was of it stays marked.
LEMMA RelayFails ==
    ASSUME NEW v \in Visitor, Whole(v)' = Whole(v), HopsTypeOK, AnswerOf(v), Asked(v), at' = at,
           NEW pieces \in Seq(AnyPiece), RelayEnds(v, pieces),
           Passing(v) => LET s == Flow(v) \o pieces IN Marked(Whole(v), s) /\ HeadFirst(s)
    PROVE  AnswerOf(v)' /\ OnlyFor(v)
<1> IsAnswer(Whole(v))
  BY RequestIs
<1>1. PICK ps \in Closing(v, pieces) : wire' = [wire EXCEPT ![v] = Delivered(v, "proxy", ps)]
  BY DEF RelayEnds
<1>2. ps \in Seq(AnyPiece) /\ MaybeReset(v, "proxy", pieces, ps)
  BY ClosingIs DEF MaybeReset
<1>3. /\ OnlyFor(v) /\ at'[v] = at[v]
      /\ wire'[v]["proxy"] = wire[v]["proxy"] \o ps
      /\ wire'[v]["router"] = wire[v]["router"] /\ wire'[v]["visitor"] = wire[v]["visitor"]
  BY <1>1, <1>2, RelayWritesIs
<1>4. ASSUME Passing(v)
      PROVE  LET s == Flow(v) \o ps IN Marked(Whole(v), s) /\ HeadFirst(s)
  <2>1. Flow(v) \in Seq(AnyPiece)
    BY RequestIs DEF Flow
  <2>2. Marked(Whole(v), Flow(v) \o pieces) /\ HeadFirst(Flow(v) \o pieces)
    BY <1>4
  <2>3. QED
    BY <1>2, <2>1, <2>2, MarkedMaybeReset DEF Hop
<1>5. sent'[v] = Len(Whole(v))
  BY DEF RelayEnds, HopsTypeOK
<1>6. AnswerOf(v)'
  BY <1>2, <1>3, <1>4, <1>5, RelayWrites
<1>7. QED
  BY <1>3, <1>6

\* What the relay's own text is made of.
LEMMA RelayNoticeIs ==
    ASSUME NEW v \in Visitor, HopsTypeOK, RelayNotice(v)
    PROVE  \E e \in Seq(AnyPiece) :
              /\ RelayEnds(v, e) /\ NoHead(e) /\ Len(e) > 0 /\ e[1].kind \in Telling
              /\ spilt' = {} => \A i \in 1 .. Len(e) : e[i].kind \in FinalKind => i = Len(e)
<1> framing[v] \in {"chunked", "length"}
  BY RequestIs
<1>1. PICK lacking : lacking = Len(Whole(v)) - sent[v]
  OBVIOUS
<1>2. PICK ps \in Noted(v, lacking) :
         IF Short(v, lacking) THEN \E how \in {"fin", "rst"} : RelayEnds(v, Append(ps, Piece(how)))
         ELSE RelayEnds(v, ps)
  BY <1>1 DEF RelayNotice
<1>3. CASE Short(v, lacking)
  <2>1. PICK how \in {"fin", "rst"} : RelayEnds(v, Append(ps, Piece(how)))
    BY <1>2, <1>3
  <2>2. ps = <<Piece("notice")>>
    BY <1>3, NotedIs
  <2>3. PICK a, b \in AnyPiece : a = Piece("notice") /\ b = Piece(how) /\ a.kind = "notice" /\ b.kind = how
    BY PiecesAre DEF Mark
  <2>4. PICK e \in Seq(AnyPiece) : e = <<a, b>>
    <3>1. <<a, b>> \in Seq(AnyPiece)
      OBVIOUS
    <3>2. QED
      BY <3>1
  <2>5. Append(ps, Piece(how)) = e
    <3>1. Append(<<a>>, b) = <<a, b>>
      BY Pairs
    <3>2. QED
      BY <2>2, <2>3, <2>4, <3>1, Zenon
  <2>6. Len(e) = 2 /\ e[1] = a /\ e[2] = b
    BY <2>4
  <2>7. NoHead(e) /\ Len(e) > 0 /\ e[1].kind \in Telling
        /\ \A i \in 1 .. Len(e) : e[i].kind \in FinalKind => i = Len(e)
    BY <2>3, <2>6 DEF NoHead, Telling, FinalKind, Completing
  <2>8. QED
    BY <2>1, <2>5, <2>7
<1>4. CASE ~Short(v, lacking)
  <2>1. /\ RelayEnds(v, ps) /\ ps \in Seq(AnyPiece) /\ NoHead(ps) /\ Len(ps) > 0
        /\ ps[1].kind \in Telling
    BY <1>2, <1>4, NotedIs DEF Telling
  <2>2. ASSUME spilt' = {}
        PROVE  \A i \in 1 .. Len(ps) : ps[i].kind \in FinalKind => i = Len(ps)
    <3>1. ~(framing[v] = "length" /\ NoticeLength > lacking)
      BY <1>1, <2>2 DEF RelayNotice, Spills
    <3>2. framing[v] # "length" \/ NoticeLength = lacking
      <4>1. sent[v] \in Nat /\ Len(Whole(v)) \in Nat /\ NoticeLength \in Nat
        BY HopsAssumption, RequestIs DEF IsAnswer
      <4>2. QED
        BY <1>1, <1>4, <3>1, <4>1 DEF Short
    <3>3. \A i \in 1 .. Len(ps) : ps[i].kind # "rst"
      BY <3>2, NotedIs
    <3>4. QED
      BY <1>4, <3>3, NotedIs
  <2>3. QED
    BY <2>1, <2>2
<1>5. QED
  BY <1>3, <1>4

LEMMA AnswerNotedByRelay ==
    ASSUME NEW v \in Visitor, Whole(v)' = Whole(v), HopsTypeOK, AnswerOf(v), RelayNotice(v)
    PROVE  AnswerOf(v)' /\ OnlyFor(v) /\ HistoryGrows /\ UNCHANGED <<upload, up, died>>
<1> IsAnswer(Whole(v))
  BY RequestIs
<1>1. PICK e \in Seq(AnyPiece) :
         RelayEnds(v, e) /\ NoHead(e) /\ Len(e) > 0 /\ e[1].kind \in Telling
  BY RelayNoticeIs
<1>2. Asked(v) /\ at' = at /\ UNCHANGED <<upload, up, died>>
  BY DEF RelayNotice
<1>3. ASSUME Passing(v)
      PROVE  LET s == Flow(v) \o e IN Marked(Whole(v), s) /\ HeadFirst(s)
  <2>1. Marked(Whole(v), Flow(v)) /\ HeadFirst(Flow(v)) /\ Flow(v) \in Seq(AnyPiece)
    BY <1>3, RequestIs DEF AnswerOf, FlowMarked, Flow
  <2>2. QED
    BY <1>1, <2>1, MarkedBehind
<1>4. HistoryGrows
  BY <1>1 DEF RelayNotice, RelayEnds, Spills, HistoryGrows, HopsTypeOK
<1>5. QED
  BY <1>1, <1>2, <1>3, <1>4, RelayFails

LEMMA AnswerTooLong ==
    ASSUME NEW v \in Visitor, Whole(v)' = Whole(v), HopsTypeOK, AnswerOf(v), RelaySpills(v)
    PROVE  AnswerOf(v)' /\ OnlyFor(v) /\ HistoryGrows /\ UNCHANGED <<upload, up, died>>
<1> IsAnswer(Whole(v))
  BY RequestIs
<1>1. PICK n \in Nat : n = sent[v] /\ n + 1 = Len(Whole(v))
  BY RequestIs DEF RelaySpills
<1>2. PICK last, rst \in AnyPiece :
         last = Whole(v)[n + 1] /\ rst = Piece("rst") /\ rst.kind = "rst"
  BY <1>1, PiecesAre DEF IsAnswer, Mark
<1>3. PICK e, a, b \in Seq(AnyPiece) : e = <<last, rst>> /\ a = <<last>> /\ b = <<rst>>
  <2>1. <<last, rst>> \in Seq(AnyPiece) /\ <<last>> \in Seq(AnyPiece) /\ <<rst>> \in Seq(AnyPiece)
    OBVIOUS
  <2>2. QED
    BY <2>1, Zenon
<1>4. e = a \o b
  <2>1. <<last, rst>> = <<last>> \o <<rst>>
    BY Pairs
  <2>2. QED
    BY <1>3, <2>1, Zenon
<1>5. Asked(v) /\ at' = at /\ RelayEnds(v, e) /\ UNCHANGED <<upload, up, died>>
  BY <1>1, <1>2, <1>3 DEF RelaySpills
<1>6. ASSUME Passing(v)
      PROVE  LET s == Flow(v) \o e IN Marked(Whole(v), s) /\ HeadFirst(s)
  <2>0. Flow(v) \in Seq(AnyPiece)
    BY RequestIs DEF Flow
  <2>1. PICK f \in Seq(AnyPiece) : f = Flow(v) /\ Marked(Whole(v), f) /\ HeadFirst(f)
    BY <1>6, <2>0 DEF AnswerOf, FlowMarked
  <2>2. Len(f) = n /\ \A i \in 1 .. n : f[i] = Whole(v)[i]
    BY <1>1, <1>5, <1>6, <2>1 DEF AnswerOf, FlowIsAnswer
  <2>3. f \o a \in Seq(AnyPiece) /\ Marked(Whole(v), f \o a) /\ HeadFirst(f \o a)
    <3>1. n < Len(Whole(v))
      BY <1>1
    <3>2. a = <<Whole(v)[n + 1]>>
      BY <1>2, <1>3
    <3>3. QED
      BY <2>1, <2>2, <3>1, <3>2, AnswerGrows
  <2>4. NoHead(b) /\ Len(b) > 0 /\ b[1].kind \in Telling
    BY <1>2, <1>3 DEF NoHead, Telling
  <2>5. Marked(Whole(v), (f \o a) \o b) /\ HeadFirst((f \o a) \o b)
    BY <2>3, <2>4, MarkedBehind
  <2>6. (f \o a) \o b = f \o e
    BY <1>4, Joined
  <2>7. QED
    BY <2>1, <2>5, <2>6
<1>7. HistoryGrows
  BY <1>5 DEF RelaySpills, RelayEnds, HistoryGrows, HopsTypeOK
<1>8. QED
  BY <1>5, <1>6, <1>7, RelayFails

\* One hop's step for a request, apart from a death.
LEMMA AnswerServed ==
    ASSUME NEW v \in Visitor, Whole(v)' = Whole(v),
           NEW h \in Hop, HopsTypeOK, AnswerOf(v), HopStep(v, h),
           ~ErrorThrows(v, h)
    PROVE  AnswerOf(v)' /\ OnlyFor(v) /\ HistoryGrows /\ UNCHANGED <<sent, upload, up, died>>
<1>1. CASE Pipe(v, h)
  BY <1>1, AnswerPiped
<1>2. CASE ErrorBeforeHead(v, h)
  BY <1>2, AnswerFailed
<1>3. CASE AbortAfterHead(v, h)
  <2>1. Hears(v, h, "stalled", <<>>) /\ UNCHANGED <<early, spilt>>
        /\ at[v][h] = "answering" /\ wire[v][h] # <<>>
    BY <1>3 DEF AbortAfterHead, Aborted, Comes
  <2>2. QED
    BY <2>1, AnswerDropped DEF HistoryGrows, HopsTypeOK
<1>4. CASE h = "proxy" /\ ErrorAfterHead(v)
  BY <1>4, AnswerNoted
<1>7. CASE h = "proxy" /\ (IdleCloses(v) \/ ErrorSpills(v))
  BY <1>7, AnswerIdle, AnswerSpilt
<1>5. CASE ErrorIgnored(v, h)
  <2>1. Hears(v, h, "ended", <<>>) /\ UNCHANGED <<early, spilt>> /\ at[v][h] = "ended" /\ wire[v][h] # <<>>
    BY <1>5 DEF ErrorIgnored, Comes
  <2>2. QED
    BY <2>1, AnswerDropped DEF HistoryGrows, HopsTypeOK
<1>6. QED
  BY <1>1, <1>2, <1>3, <1>4, <1>5, <1>7 DEF HopStep

\* A death, whatever the reason.
LEMMA AnswersOutlive ==
    ASSUME NEW h \in Hop, HopsTypeOK, \A v \in Visitor : AnswerOf(v), Dies(h),
           \A v \in Visitor : Whole(v)' = Whole(v)
    PROVE  \A v \in Visitor : AnswerOf(v)'
<1> SUFFICES ASSUME NEW v \in Visitor PROVE AnswerOf(v)'
  OBVIOUS
<1>1. sent' = sent
  BY DiesIs
<1>2. CASE Open(v, h)
  <2>1. PICK how \in {"fin", "rst"} : Works(v, h, "lost", FALSE, <<Piece(how)>>)
    BY <1>2, DiesIs
  <2>2. at[v][h] # "new"
    BY <1>2 DEF Open
  <2>3. QED
    BY <1>1, <2>1, <2>2, AnswerCut
<1>3. CASE ~Open(v, h)
  BY <1>1, <1>3, DiesIs, Rests
<1>4. QED
  BY <1>2, <1>3

\* No step changes how an answer is framed, and what it lacks stays a number.
LEMMA FramingStays ==
    ASSUME HopsTypeOK, HopsNext
    PROVE  framing' = framing /\ room' \in [Visitor -> Int] /\ \A v \in Visitor : Whole(v)' = Whole(v)
<1>1. room \in [Visitor -> Int] /\ NoticeLength \in Nat
  BY HopsAssumption DEF HopsTypeOK
<1>2. ASSUME NEW v \in Visitor, NEW h \in Hop, Pipe(v, h)
      PROVE  framing' = framing /\ room' \in [Visitor -> Int]
  <2>1. framing' = framing
    BY <1>2 DEF Pipe, Ends, Hears
  <2>2. ASSUME Comes(v, h, DOMAIN Units) PROVE Units[Head(wire[v][h]).kind] \in Int
    BY <1>1, <2>2 DEF Comes, Units
  <2>3. room' = room \/ \E n \in Int : room' = [room EXCEPT ![v] = @ - n]
    BY <1>2, <2>2 DEF Pipe
  <2>4. room' \in [Visitor -> Int]
    BY <1>1, <2>3
  <2>5. QED
    BY <2>1, <2>4
<1>3. ASSUME NEW v \in Visitor, NEW h \in Hop, HopStep(v, h), ~Pipe(v, h)
      PROVE  framing' = framing /\ room' = room
  BY <1>3 DEF HopStep, ErrorBeforeHead, AbortAfterHead, ErrorAfterHead, IdleCloses, ErrorSpills,
              ErrorThrows, ErrorIgnored, Dies, Ends, Hears
<1>4. ASSUME NEW v \in Visitor,
             \/ Visit(v) \/ Forward(v) \/ UploadEnds(v) \/ Leave(v)
             \/ RelaySends(v) \/ RelayCut(v) \/ RelayNotice(v) \/ RelaySpills(v)
      PROVE  framing' = framing /\ room' = room
  BY <1>4 DEF Visit, Forward, UploadEnds, Leave, RelaySends, RelayCut, RelayNotice, RelaySpills
<1>5. ASSUME NEW v \in Visitor, NEW h \in Hop, RequestTimeout(v, h)
      PROVE  framing' = framing /\ room' = room
  BY <1>5 DEF RequestTimeout
<1>6. ASSUME NEW h \in Hop, Death(h) \/ Restart(h)
      PROVE  framing' = framing /\ room' = room
  BY <1>6 DEF Death, Dies, Restart
<1>7. framing' = framing /\ room' \in [Visitor -> Int]
  BY <1>1, <1>2, <1>3, <1>4, <1>5, <1>6 DEF HopsNext
<1>8. \A v \in Visitor : Whole(v)' = Whole(v)
  BY <1>7 DEF Whole
<1>9. QED
  BY <1>7, <1>8

\* No step takes an answer of any visitor apart, nor a variable out of its type.
LEMMA AnswersStep ==
    ASSUME HopsTypeOK, \A v \in Visitor : AnswerOf(v), HopsNext
    PROVE  HopsTypeOK' /\ (\A v \in Visitor : AnswerOf(v)') /\ HistoryGrows
<1> /\ framing' = framing /\ room' \in [Visitor -> Int]
    /\ \A v \in Visitor : Whole(v)' = Whole(v) /\ Len(Whole(v)) \in Nat
  BY FramingStays, RequestIs DEF IsAnswer
<1>1. ASSUME NEW v \in Visitor, OnlyFor(v), AnswerOf(v)', \A u \in Visitor \ {v} : sent'[u] = sent[u]
      PROVE  \A u \in Visitor : AnswerOf(u)'
  <2>1. ASSUME NEW u \in Visitor \ {v} PROVE AnswerOf(u)'
    BY <1>1, Rests DEF OnlyFor
  <2>2. QED
    BY <1>1, <2>1
<1>2. ASSUME NEW v \in Visitor, OnlyFor(v), HistoryGrows, UNCHANGED <<sent, upload, up, died>>
      PROVE  HopsTypeOK' /\ HistoryGrows
  BY <1>2 DEF HopsTypeOK, OnlyFor, HistoryGrows
<1>3. ASSUME NEW h \in Hop, Dies(h), died' \in [Hop -> Nat]
      PROVE  HopsTypeOK' /\ (\A v \in Visitor : AnswerOf(v)') /\ HistoryGrows
  <2>1. \A v \in Visitor : AnswerOf(v)'
    BY <1>3, AnswersOutlive
  <2>2. HopsTypeOK'
    BY <1>3, DiesIs DEF HopsTypeOK
  <2>3. HistoryGrows
    BY <1>3, DiesIs DEF HistoryGrows, HopsTypeOK
  <2>4. QED
    BY <2>1, <2>2, <2>3
<1>4. ASSUME NEW v \in Visitor, Visit(v)
      PROVE  HopsTypeOK' /\ (\A u \in Visitor : AnswerOf(u)') /\ HistoryGrows
  <2>1. AnswerOf(v)' /\ OnlyFor(v) /\ UNCHANGED <<sent, upload, early, spilt, up, died>> /\ HistoryGrows
    BY <1>4, AnswerVisited DEF HistoryGrows, HopsTypeOK
  <2>2. QED
    BY <1>1, <1>2, <2>1
<1>5. ASSUME NEW v \in Visitor, Forward(v)
      PROVE  HopsTypeOK' /\ (\A u \in Visitor : AnswerOf(u)') /\ HistoryGrows
  BY <1>1, <1>2, <1>5, AnswerForwarded
<1>6. ASSUME NEW v \in Visitor, UploadEnds(v)
      PROVE  HopsTypeOK' /\ (\A u \in Visitor : AnswerOf(u)') /\ HistoryGrows
  <2>1. UNCHANGED <<at, wire, sent, early, spilt, up, died>> /\ upload' = [upload EXCEPT ![v] = "sent"]
    BY <1>6 DEF UploadEnds
  <2>2. HopsTypeOK'
    BY <2>1 DEF HopsTypeOK
  <2>3. \A u \in Visitor : AnswerOf(u)'
    BY <2>1, Rests
  <2>4. QED
    BY <2>1, <2>2, <2>3 DEF HistoryGrows, HopsTypeOK
<1>7. ASSUME NEW v \in Visitor, Leave(v)
      PROVE  HopsTypeOK' /\ (\A u \in Visitor : AnswerOf(u)') /\ HistoryGrows
  <2>1. UNCHANGED <<wire, sent, early, spilt, up, died>> /\ at' = [at EXCEPT ![v]["visitor"] = "lost"]
        /\ upload' \in [Visitor -> {"open", "sent", "cut"}]
    BY <1>7 DEF Leave, HopsTypeOK
  <2>2. HopsTypeOK' /\ at'[v]["visitor"] = "lost" /\ \A u \in Visitor \ {v} : at'[u] = at[u]
        /\ at'[v]["router"] = at[v]["router"] /\ at'[v]["proxy"] = at[v]["proxy"]
    BY <2>1 DEF HopsTypeOK, Stage, Party, Hop
  <2>3. Passing(v)' = FALSE /\ Got(v)' = Got(v)
    BY <2>1, <2>2 DEF Passing, Got
  <2>4. AnswerOf(v)'
    BY <2>1, <2>2, <2>3 DEF AnswerOf, FlowMarked, FlowIsAnswer, NoEndYet, NothingYet
  <2>5. \A u \in Visitor \ {v} : AnswerOf(u)'
    BY <2>1, <2>2, Rests
  <2>6. QED
    BY <2>1, <2>2, <2>4, <2>5 DEF HistoryGrows, HopsTypeOK
<1>8. ASSUME NEW v \in Visitor, RelaySends(v)
      PROVE  HopsTypeOK' /\ (\A u \in Visitor : AnswerOf(u)') /\ HistoryGrows
  <2>1. AnswerOf(v)' /\ OnlyFor(v) /\ HistoryGrows /\ UNCHANGED <<upload, up, died>>
    BY <1>8, AnswerSent
  <2>2. /\ sent' \in [Visitor -> Nat] /\ sent'[v] <= Len(Whole(v))
        /\ \A u \in Visitor \ {v} : sent'[u] = sent[u]
    <3>1. sent[v] \in Nat /\ sent[v] < Len(Whole(v)) /\ Len(Whole(v)) \in Nat
      BY <1>8 DEF RelaySends, Asked, HopsTypeOK
    <3>2. sent' = [sent EXCEPT ![v] = sent[v] + 1] \/ sent' = [sent EXCEPT ![v] = Len(Whole(v))]
      BY <1>8 DEF RelaySends, RelayEnds
    <3>3. QED
      BY <3>1, <3>2 DEF HopsTypeOK
  <2>3. HopsTypeOK' /\ HistoryGrows
    BY <2>1, <2>2 DEF HopsTypeOK, OnlyFor, HistoryGrows
  <2>4. QED
    BY <1>1, <2>1, <2>2, <2>3
<1>9. ASSUME NEW v \in Visitor, RelayCut(v)
      PROVE  HopsTypeOK' /\ (\A u \in Visitor : AnswerOf(u)') /\ HistoryGrows
  <2>1. AnswerOf(v)' /\ OnlyFor(v) /\ UNCHANGED <<upload, early, spilt, up, died>>
    BY <1>9, AnswerCutOff
  <2>2. /\ sent' \in [Visitor -> Nat] /\ sent'[v] <= Len(Whole(v))
        /\ \A u \in Visitor \ {v} : sent'[u] = sent[u]
    BY <1>9 DEF RelayCut, HopsTypeOK
  <2>3. HopsTypeOK' /\ HistoryGrows
    BY <2>1, <2>2 DEF HopsTypeOK, OnlyFor, HistoryGrows
  <2>4. QED
    BY <1>1, <2>1, <2>2, <2>3
<1>15. ASSUME NEW v \in Visitor, RelayNotice(v) \/ RelaySpills(v)
       PROVE  HopsTypeOK' /\ (\A u \in Visitor : AnswerOf(u)') /\ HistoryGrows
  <2>1. AnswerOf(v)' /\ OnlyFor(v) /\ HistoryGrows /\ UNCHANGED <<upload, up, died>>
    BY <1>15, AnswerNotedByRelay, AnswerTooLong
  <2>2. sent' = [sent EXCEPT ![v] = Len(Whole(v))]
    <3>1. RelaySpills(v) => \E ps : RelayEnds(v, ps)
      BY DEF RelaySpills
    <3>2. RelayNotice(v) => \E ps : RelayEnds(v, ps)
      BY DEF RelayNotice
    <3>3. QED
      BY <1>15, <3>1, <3>2 DEF RelayEnds
  <2>3. /\ sent' \in [Visitor -> Nat] /\ sent'[v] <= Len(Whole(v))
        /\ \A u \in Visitor \ {v} : sent'[u] = sent[u]
    BY <2>2 DEF HopsTypeOK
  <2>4. HopsTypeOK' /\ HistoryGrows
    BY <2>1, <2>3 DEF HopsTypeOK, OnlyFor, HistoryGrows
  <2>5. QED
    BY <1>1, <2>1, <2>3, <2>4
<1>10. ASSUME NEW v \in Visitor, NEW h \in Hop, HopStep(v, h)
       PROVE  HopsTypeOK' /\ (\A u \in Visitor : AnswerOf(u)') /\ HistoryGrows
  <2>1. CASE ErrorThrows(v, h)
    BY <1>3, <2>1 DEF ErrorThrows, HopsTypeOK
  <2>2. CASE ~ErrorThrows(v, h)
    BY <1>1, <1>2, <1>10, <2>2, AnswerServed
  <2>3. QED
    BY <2>1, <2>2
<1>11. ASSUME NEW v \in Visitor, NEW h \in Hop, RequestTimeout(v, h)
       PROVE  HopsTypeOK' /\ (\A u \in Visitor : AnswerOf(u)') /\ HistoryGrows
  <2>1. AnswerOf(v)' /\ OnlyFor(v)
    BY <1>11, AnswerTimedOut
  <2>2. /\ UNCHANGED <<sent, up, died>> /\ HistoryGrows
        /\ upload' \in [Visitor -> {"open", "sent", "cut"}]
    BY <1>11 DEF RequestTimeout, HistoryGrows, HopsTypeOK
  <2>3. HopsTypeOK'
    BY <2>1, <2>2 DEF HopsTypeOK, OnlyFor, HistoryGrows
  <2>4. QED
    BY <1>1, <2>1, <2>2, <2>3
<1>12. ASSUME NEW h \in Hop, Death(h)
       PROVE  HopsTypeOK' /\ (\A u \in Visitor : AnswerOf(u)') /\ HistoryGrows
  <2>1. died' \in [Hop -> Nat] /\ Dies(h)
    BY <1>12 DEF Death, HopsTypeOK
  <2>2. QED
    BY <1>3, <2>1
<1>13. ASSUME NEW h \in Hop, Restart(h)
       PROVE  HopsTypeOK' /\ (\A u \in Visitor : AnswerOf(u)') /\ HistoryGrows
  <2>1. UNCHANGED <<at, wire, sent, upload, early, spilt, died>> /\ up' = up \cup {h}
    BY <1>13 DEF Restart
  <2>2. HopsTypeOK'
    BY <2>1 DEF HopsTypeOK
  <2>3. \A u \in Visitor : AnswerOf(u)'
    BY <2>1, Rests
  <2>4. QED
    BY <2>1, <2>2, <2>3 DEF HistoryGrows, HopsTypeOK
<1>14. QED
  BY <1>4, <1>5, <1>6, <1>7, <1>8, <1>9, <1>10, <1>11, <1>12, <1>13, <1>15 DEF HopsNext

-----------------------------------------------------------------------------
(* The router's end, step by step *)

NoReset(s) == \A i \in 1 .. Len(s) : s[i].kind # "rst"

LEMMA NoneIsEmpty == \A s \in Seq(AnyPiece) : Len(s) = 0 => s = <<>>
BY EmptySeq

\* A hop takes a piece: the last one if it stops, and it writes no reset.
LEMMA OrderlyTaken ==
    ASSUME NEW v \in Visitor, Whole(v)' = Whole(v),
           NEW h \in Hop, HopsTypeOK, Orderly(v),
           NEW stage \in {"answering", "stalled", "short", "ended"},
           NEW pieces \in Seq(AnyPiece), NoReset(pieces), wire[v][h] # <<>>,
           Works(v, h, stage, TRUE, pieces), sent'[v] = sent[v],
           h = "proxy" => stage = "answering" \/ Head(wire[v][h]).kind \in FinalKind
    PROVE  Orderly(v)'
<1> PICK r, p \in Seq(AnyPiece) : r = wire[v]["router"] /\ p = wire[v]["proxy"]
  BY RequestIs
<1>1. /\ at[v]["router"] # "lost" /\ at[v]["proxy"] # "lost"
      /\ \A i \in 1 .. Len(r) : r[i].kind # "rst"
      /\ ~Listening(v) => p = <<>>
      /\ \A i \in 1 .. Len(p) : p[i].kind \in FinalKind => i = Len(p) /\ sent[v] = Len(Whole(v))
  BY DEF Orderly, FinalKind
<1>2. CASE h = "router"
  <2>1. /\ at'[v]["router"] = stage /\ at'[v]["proxy"] = at[v]["proxy"]
        /\ wire'[v]["router"] = Tail(r) /\ wire'[v]["proxy"] = p /\ r # <<>>
    BY <1>2, BelowIs DEF Works, Party, Hop
  <2>2. \A i \in 1 .. Len(Tail(r)) : Tail(r)[i].kind # "rst"
    <3>1. \A i \in 1 .. Len(Tail(r)) : Tail(r)[i] = r[i + 1] /\ i + 1 \in 1 .. Len(r)
      BY <2>1
    <3>2. QED
      BY <1>1, <3>1
  <2>3. Listening(v)' = Listening(v)
    BY <2>1 DEF Listening
  <2>4. QED
    BY <1>1, <2>1, <2>2, <2>3 DEF Orderly, FinalKind
<1>3. CASE h = "proxy"
  <2>1. /\ at'[v]["proxy"] = stage /\ at'[v]["router"] = at[v]["router"] /\ p # <<>>
        /\ wire'[v]["proxy"] = Tail(p) /\ wire'[v]["router"] = r \o pieces
    BY <1>1, <1>3, BelowIs DEF Works, Party, Hop
  <2>2. \A i \in 1 .. Len(r \o pieces) : (r \o pieces)[i].kind # "rst"
    BY <1>1 DEF NoReset
  <2>3. \A i \in 1 .. Len(Tail(p)) : Tail(p)[i] = p[i + 1] /\ i + 1 \in 1 .. Len(p)
        /\ (i + 1 = Len(p) => i = Len(Tail(p)))
    BY <2>1
  <2>4. \A i \in 1 .. Len(Tail(p)) :
           Tail(p)[i].kind \in FinalKind => i = Len(Tail(p)) /\ sent[v] = Len(Whole(v))
    BY <1>1, <2>3
  <2>5. stage = "answering" \/ Tail(p) = <<>>
    <3>1. Head(p) = p[1] /\ 1 \in 1 .. Len(p) /\ Len(p) \in Nat
      BY <2>1, HeadAndTail
    <3>2. p[1].kind \in FinalKind => Len(p) = 1
      BY <1>1, <3>1
    <3>3. Len(p) = 1 => Tail(p) = <<>>
      <4>1. PICK tail \in Seq(AnyPiece) : tail = Tail(p) /\ Len(tail) = Len(p) - 1
        BY <2>1, HeadTailProperties
      <4>2. ASSUME Len(p) = 1 PROVE Len(tail) = 0
        BY <4>1, <4>2
      <4>3. QED
        BY <4>1, <4>2, NoneIsEmpty
    <3>4. QED
      BY <1>3, <3>1, <3>2, <3>3
  <2>6. ~Listening(v)' => Tail(p) = <<>>
    BY <2>1, <2>5 DEF Listening
  <2>7. QED
    BY <1>1, <2>1, <2>2, <2>4, <2>6 DEF Orderly, FinalKind
<1>4. QED
  BY <1>2, <1>3 DEF Hop

\* What a hop makes up has no reset if the upload was over.
LEMMA OwnHasNoReset ==
    /\ \A h \in Hop : NoReset(OwnAnswer(h))
    /\ NoReset(<<Piece("refused"), Piece("notice"), Piece("end")>>)
    /\ NoReset(<<>>)
BY DEF NoReset, OwnAnswer, Piece

LEMMA OrderlyEnded ==
    ASSUME NEW v \in Visitor, Whole(v)' = Whole(v),
           NEW h \in Hop, HopsTypeOK, Orderly(v), early' = {}, spilt' = {},
           NEW pieces \in Seq(AnyPiece), NoReset(pieces), wire[v][h] # <<>>, Ends(v, h, pieces),
           h = "proxy" => Head(wire[v][h]).kind \in FinalKind
    PROVE  Orderly(v)'
<1>1. PICK ps \in Seq(AnyPiece) : MaybeReset(v, h, pieces, ps) /\ Works(v, h, "ended", TRUE, ps)
  BY EndsIs
<1>2. upload[v] = "sent" /\ sent' = sent
  BY EndsIs
<1>3. ps = pieces
  BY <1>1, <1>2 DEF MaybeReset
<1>4. QED
  BY <1>1, <1>2, <1>3, OrderlyTaken

LEMMA OrderlyServed ==
    ASSUME NEW v \in Visitor, Whole(v)' = Whole(v),
           NEW h \in Hop, HopsTypeOK, Orderly(v), early' = {}, spilt' = {}, HopStep(v, h)
    PROVE  Orderly(v)' /\ up' = up
<1>0. wire[v][h] \in Seq(AnyPiece)
  BY BelowIs DEF HopsTypeOK
<1>1. CASE Pipe(v, h)
  <2>1. CASE /\ Comes(v, h, {"head", "failed", "refused", "chunk", "notice"})
             /\ Hears(v, h, "answering", <<Head(wire[v][h])>>)
    <3>1. PICK x \in AnyPiece : x = Head(wire[v][h]) /\ x.kind # "rst"
      BY <1>0, <2>1, HeadAndTail DEF Comes
    <3>2. <<x>> \in Seq(AnyPiece) /\ NoReset(<<x>>)
      BY <3>1 DEF NoReset
    <3>3. wire[v][h] # <<>>
      BY <2>1 DEF Comes
    <3>4. Works(v, h, "answering", TRUE, <<x>>) /\ UNCHANGED <<sent, upload, up, died>>
      BY <2>1, <3>1, <3>2, <3>3, HearsIs DEF Stage
    <3>5. QED
      BY <3>2, <3>3, <3>4, OrderlyTaken
  <2>2. CASE Comes(v, h, Completing) /\ Ends(v, h, <<Head(wire[v][h])>>)
    <3>1. PICK x \in AnyPiece : x = Head(wire[v][h]) /\ x.kind \in Completing
      BY <1>0, <2>2, HeadAndTail DEF Comes
    <3>2. /\ wire[v][h] # <<>> /\ Head(wire[v][h]).kind \in FinalKind
          /\ Ends(v, h, <<x>>)
      BY <2>2, <3>1 DEF Comes, FinalKind
    <3>3. <<x>> \in Seq(AnyPiece) /\ NoReset(<<x>>)
      BY <3>1 DEF NoReset, Completing
    <3>4. QED
      BY <3>2, <3>3, OrderlyEnded, EndsIs
  <2>3. QED
    BY <1>1, <2>1, <2>2 DEF Pipe
<1>2. CASE ErrorBeforeHead(v, h)
  <2>1. wire[v][h] # <<>> /\ Head(wire[v][h]).kind \in FinalKind /\ Ends(v, h, OwnAnswer(h))
    BY <1>2 DEF ErrorBeforeHead, Comes, FinalKind
  <2>2. QED
    BY <2>1, OwnSequences, OrderlyEnded, OwnHasNoReset, EndsIs
<1>3. CASE AbortAfterHead(v, h)
  <2>1. /\ Hears(v, h, "stalled", <<>>) /\ wire[v][h] # <<>> /\ Head(wire[v][h]).kind \in FinalKind
    BY <1>3 DEF AbortAfterHead, Aborted, Comes, FinalKind
  <2>2. Works(v, h, "stalled", TRUE, <<>>) /\ UNCHANGED <<sent, upload, up, died>>
    BY <2>1, HearsIs, OwnSequences DEF Stage
  <2>3. QED
    BY <2>1, <2>2, OwnSequences, OwnHasNoReset, OrderlyTaken
<1>4. CASE h = "proxy" /\ ErrorAfterHead(v)
  <2> framing[v] \in {"chunked", "length"}
    BY RequestIs
  <2>1. wire[v][h] # <<>> /\ Head(wire[v][h]).kind \in FinalKind /\ upload[v] = "sent"
    BY <1>4 DEF ErrorAfterHead, Comes, FinalKind
  <2> PICK stage \in {"short", "ended"}, text \in Noted(v, room[v]) :
         \E ps \in Closing(v, text) : Hears(v, h, stage, ps)
    BY <1>4 DEF ErrorAfterHead
  <2>2. PICK ps \in Closing(v, text) : Hears(v, h, stage, ps)
    OBVIOUS
  <2>3. ps = text /\ text \in Seq(AnyPiece)
    BY <2>1, <2>2, NotedIs DEF Closing
  <2>4. framing[v] # "length" \/ Short(v, room[v]) \/ NoticeLength = room[v]
    <3>1. ~(framing[v] = "length" /\ NoticeLength > room[v])
      BY <1>4 DEF ErrorAfterHead, Spills
    <3>2. room[v] \in Int /\ NoticeLength \in Nat
      BY HopsAssumption DEF HopsTypeOK
    <3>3. QED
      BY <3>1, <3>2 DEF Short
  <2>5. NoReset(text)
    BY <2>4, NotedIs DEF NoReset
  <2>6. Works(v, h, stage, TRUE, text) /\ UNCHANGED <<sent, upload, up, died>>
    BY <2>1, <2>2, <2>3, HearsIs DEF Stage
  <2>7. QED
    BY <2>1, <2>3, <2>5, <2>6, OrderlyTaken
<1>8. CASE h = "proxy" /\ IdleCloses(v)
  <2>1. /\ at[v]["proxy"] = "short" /\ at' = [at EXCEPT ![v]["proxy"] = "ended"] /\ "proxy" \in Hop
        /\ wire' = [wire EXCEPT ![v] = Delivered(v, Below["proxy"], <<Piece("fin")>>)]
        /\ UNCHANGED <<sent, up>>
    BY <1>8, BelowIs DEF IdleCloses, Hop
  <2>2. PICK r, e \in Seq(AnyPiece) :
           /\ r = wire[v]["router"] /\ e = <<Piece("fin")>> /\ Len(e) = 1 /\ e[1].kind = "fin"
    <3>1. /\ <<Piece("fin")>> \in Seq(AnyPiece) /\ Len(<<Piece("fin")>>) = 1
          /\ <<Piece("fin")>>[1].kind = "fin"
      BY PieceSequences DEF Mark
    <3>2. QED
      BY <3>1, RequestIs
  <2>3. Works(v, "proxy", "ended", FALSE, e)
    BY <2>1, <2>2, WritesIs DEF Stage
  <2>4. /\ at'[v]["proxy"] = "ended" /\ at'[v]["router"] = at[v]["router"]
        /\ wire'[v]["proxy"] = wire[v]["proxy"] /\ wire'[v]["router"] = r \o e
    BY <2>2, <2>3, BelowIs DEF Works, Orderly, Party, Hop
  <2>5. \A i \in 1 .. Len(r \o e) : (r \o e)[i].kind # "rst"
    BY <2>2 DEF Orderly
  <2>6. wire[v]["proxy"] = <<>>
    BY <2>1 DEF Orderly, Listening
  <2>7. QED
    BY <2>1, <2>4, <2>5, <2>6 DEF Orderly, Listening
<1>9. CASE h = "proxy" /\ ErrorSpills(v)
  BY <1>9 DEF ErrorSpills
<1>5. CASE ErrorThrows(v, h)
  <2>1. wire[v][h] # <<>> /\ Head(wire[v][h]).kind = "rst"
    BY <1>5 DEF ErrorThrows, Comes
  <2>2. CASE h = "router"
    <3>1. Head(wire[v][h]) = wire[v][h][1] /\ 1 \in 1 .. Len(wire[v][h])
      BY <1>0, <2>1, HeadAndTail
    <3>2. QED
      BY <2>1, <2>2, <3>1 DEF Orderly
  <2>3. CASE h = "proxy"
    BY <1>5, <2>1, <2>3 DEF ErrorThrows, Orderly, Listening
  <2>4. QED
    BY <2>2, <2>3 DEF Hop
<1>6. CASE ErrorIgnored(v, h)
  <2>1. Hears(v, h, "ended", <<>>) /\ wire[v][h] # <<>> /\ Head(wire[v][h]).kind \in FinalKind
    BY <1>6 DEF ErrorIgnored, Comes, FinalKind
  <2>2. Works(v, h, "ended", TRUE, <<>>) /\ UNCHANGED <<sent, upload, up, died>>
    BY <2>1, HearsIs, OwnSequences DEF Stage
  <2>3. QED
    BY <2>1, <2>2, OwnSequences, OwnHasNoReset, OrderlyTaken
<1>7. QED
  BY <1>1, <1>2, <1>3, <1>4, <1>5, <1>6, <1>8, <1>9 DEF HopStep

\* The relay's pieces come one by one, the last one last.
LEMMA OrderlySent ==
    ASSUME NEW v \in Visitor, Whole(v)' = Whole(v),
           HopsTypeOK, Orderly(v), early' = {}, spilt' = {}, RelaySends(v)
    PROVE  Orderly(v)' /\ UNCHANGED up /\ \A u \in Visitor \ {v} : sent'[u] = sent[u]
<1>1. PICK n \in Nat : n = sent[v] /\ n < Len(Whole(v)) /\ sent'[v] = n + 1
  BY RequestIs DEF RelaySends, RelayEnds, IsAnswer, Asked, HopsTypeOK
<1>2. PICK x \in AnyPiece : x = Whole(v)[n + 1] /\ (x.kind \in FinalKind => n + 1 = Len(Whole(v)))
  <2>1. n + 1 \in 1 .. Len(Whole(v)) /\ IsAnswer(Whole(v))
    BY <1>1, RequestIs DEF IsAnswer
  <2>2. QED
    BY <2>1 DEF FinalKind, Completing, IsAnswer
<1>3. <<x>> \in Seq(AnyPiece)
  BY <1>2
<1>4. upload[v] = "sent" \/ n + 1 < Len(Whole(v))
  BY <1>1, RequestIs DEF RelaySends, RelayEnds, IsAnswer
<1>5. wire' = [wire EXCEPT ![v] = Delivered(v, "proxy", <<x>>)]
  BY <1>1, <1>2, <1>4 DEF RelaySends, RelayEnds, Closing
<1>6. Asked(v) /\ at' = at /\ up' = up /\ \A u \in Visitor \ {v} : sent'[u] = sent[u]
  BY DEF RelaySends, RelayEnds, HopsTypeOK
<1>7. /\ wire'[v]["proxy"] = wire[v]["proxy"] \o <<x>> /\ wire'[v]["router"] = wire[v]["router"]
  BY <1>3, <1>5, <1>6, RelayWritesIs
<1> PICK p \in Seq(AnyPiece) : p = wire[v]["proxy"]
  BY RequestIs
<1>8. \A i \in 1 .. Len(p) : p[i].kind \notin FinalKind
  BY <1>1 DEF Orderly
<1>9. \A i \in 1 .. Len(p \o <<x>>) :
         (p \o <<x>>)[i].kind \in FinalKind => i = Len(p \o <<x>>) /\ n + 1 = Len(Whole(v))
  <2>1. /\ Len(p \o <<x>>) = Len(p) + 1 /\ (p \o <<x>>)[Len(p) + 1] = x
        /\ \A i \in 1 .. Len(p) : (p \o <<x>>)[i] = p[i]
    OBVIOUS
  <2>2. \A i \in 1 .. Len(p \o <<x>>) : i \in 1 .. Len(p) \/ i = Len(p) + 1
    BY <2>1
  <2>3. QED
    BY <1>2, <1>8, <2>1, <2>2
<1>10. Listening(v)' = Listening(v) /\ Listening(v)
  BY <1>6 DEF Listening, Asked
<1>11. QED
  BY <1>1, <1>6, <1>7, <1>9, <1>10 DEF Orderly, FinalKind

\* What ends the relay's response is the last piece for the proxy.
LEMMA OrderlyFailed ==
    ASSUME NEW v \in Visitor, Whole(v)' = Whole(v), HopsTypeOK, Orderly(v), Asked(v), at' = at,
           NEW e \in Seq(AnyPiece), RelayEnds(v, e), early' = {},
           \A i \in 1 .. Len(e) : e[i].kind \in FinalKind => i = Len(e)
    PROVE  Orderly(v)' /\ \A u \in Visitor \ {v} : sent'[u] = sent[u]
<1>1. upload[v] = "sent" /\ sent' = [sent EXCEPT ![v] = Len(Whole(v))]
  BY DEF RelayEnds
<1>2. wire' = [wire EXCEPT ![v] = Delivered(v, "proxy", e)]
  BY <1>1 DEF RelayEnds, Closing
<1>3. /\ wire'[v]["proxy"] = wire[v]["proxy"] \o e /\ wire'[v]["router"] = wire[v]["router"]
  BY <1>2, RelayWritesIs
<1> PICK p \in Seq(AnyPiece) : p = wire[v]["proxy"]
  BY RequestIs
<1>4. \A i \in 1 .. Len(p) : p[i].kind \notin FinalKind
  BY RequestIs DEF Orderly, Asked
<1>5. \A i \in 1 .. Len(p \o e) : (p \o e)[i].kind \in FinalKind => i = Len(p \o e)
  <2>1. /\ Len(p \o e) = Len(p) + Len(e) /\ Len(p) \in Nat /\ Len(e) \in Nat
        /\ \A i \in 1 .. Len(p \o e) :
              (i \in 1 .. Len(p) /\ (p \o e)[i] = p[i])
                 \/ (i - Len(p) \in 1 .. Len(e) /\ (p \o e)[i] = e[i - Len(p)])
    OBVIOUS
  <2>2. QED
    BY <1>4, <2>1
<1>6. sent'[v] = Len(Whole(v)) /\ \A u \in Visitor \ {v} : sent'[u] = sent[u]
  BY <1>1 DEF HopsTypeOK
<1>7. Listening(v)' /\ Listening(v)
  BY DEF Listening, Asked
<1>8. QED
  BY <1>3, <1>5, <1>6, <1>7 DEF Orderly

LEMMA OrderlyCutOff ==
    ASSUME NEW v \in Visitor, Whole(v)' = Whole(v),
           HopsTypeOK, Orderly(v), RelayCut(v)
    PROVE  Orderly(v)' /\ UNCHANGED up /\ \A u \in Visitor \ {v} : sent'[u] = sent[u]
<1>1. PICK how \in {"fin", "rst"} : wire' = [wire EXCEPT ![v] = Delivered(v, "proxy", <<Piece(how)>>)]
  BY DEF RelayCut
<1>2. PICK x \in AnyPiece : x = Piece(how)
  BY PiecesAre DEF Mark
<1>3. <<x>> \in Seq(AnyPiece)
  BY <1>2
<1>4. Asked(v) /\ at' = at /\ up' = up /\ sent'[v] = Len(Whole(v))
      /\ \A u \in Visitor \ {v} : sent'[u] = sent[u]
  BY DEF RelayCut, HopsTypeOK
<1>5. /\ wire'[v]["proxy"] = wire[v]["proxy"] \o <<x>> /\ wire'[v]["router"] = wire[v]["router"]
  BY <1>1, <1>2, <1>3, <1>4, RelayWritesIs
<1> PICK p \in Seq(AnyPiece) : p = wire[v]["proxy"]
  BY RequestIs
<1>6. \A i \in 1 .. Len(p) : p[i].kind \notin FinalKind
  BY <1>4, RequestIs DEF Orderly, Asked
<1>7. \A i \in 1 .. Len(p \o <<x>>) : (p \o <<x>>)[i].kind \in FinalKind => i = Len(p \o <<x>>)
  BY <1>6
<1>8. Listening(v)' = Listening(v) /\ Listening(v)
  BY <1>4 DEF Listening, Asked
<1>9. QED
  BY <1>4, <1>5, <1>7, <1>8 DEF Orderly, FinalKind

LEMMA OrderlyForwarded ==
    ASSUME NEW v \in Visitor, Whole(v)' = Whole(v),
           HopsTypeOK, Orderly(v), early' = {}, spilt' = {}, Forward(v)
    PROVE  Orderly(v)'
<1>1. /\ at[v]["proxy"] = "reached" /\ UNCHANGED <<sent, upload, up, died>>
      /\ wire[v]["proxy"] = <<>> /\ "proxy" \in Hop
      /\ "proxy" \in Party /\ "router" \in Party /\ "visitor" \in Party
  BY DEF Forward, Orderly, Listening, Hop, Party
<1>2. CASE at' = [at EXCEPT ![v]["proxy"] = "waiting"] /\ UNCHANGED <<wire, early>>
  BY <1>1, <1>2 DEF Orderly, Listening, HopsTypeOK
<1>3. CASE at' = [at EXCEPT ![v]["proxy"] = "ended"] /\ ~UNCHANGED at
  <2>1. PICK own \in Seq(AnyPiece) : own = <<Piece("refused"), Piece("notice"), Piece("end")>>
    BY OwnSequences
  <2>2. at[v]["proxy"] # "ended"
        /\ (at' = [at EXCEPT ![v]["proxy"] = "waiting"] => at'[v]["proxy"] = "waiting")
        /\ at'[v]["proxy"] = "ended"
    BY <1>1, <1>3 DEF HopsTypeOK
  <2>3. upload[v] = "sent" /\ wire' = [wire EXCEPT ![v] = Delivered(v, "router", own)]
    BY <1>3, <2>1, <2>2 DEF Forward, Closing
  <2>4. wire' = [wire EXCEPT ![v] = Delivered(v, Below["proxy"], own)]
    BY <2>3, BelowIs
  <2>5. Works(v, "proxy", "ended", FALSE, own)
    BY <1>1, <1>3, <2>1, <2>4, WritesIs DEF Stage
  <2>6. /\ at'[v]["proxy"] = "ended" /\ at'[v]["router"] = at[v]["router"]
        /\ wire'[v]["proxy"] = <<>> /\ wire'[v]["router"] = wire[v]["router"] \o own
    BY <1>1, <2>5, BelowIs DEF Works, Orderly, Party, Hop
  <2> PICK r \in Seq(AnyPiece) : r = wire[v]["router"]
    BY RequestIs
  <2>7. \A i \in 1 .. Len(r \o own) : (r \o own)[i].kind # "rst"
    <3>1. NoReset(own) /\ \A i \in 1 .. Len(r) : r[i].kind # "rst"
      BY <2>1, OwnHasNoReset DEF Orderly
    <3>2. QED
      BY <3>1 DEF NoReset
  <2>8. ~Listening(v)' /\ at[v]["router"] # "lost"
    BY <2>6 DEF Orderly, Listening
  <2>9. QED
    BY <2>6, <2>7, <2>8 DEF Orderly
<1>4. at[v]["proxy"] # "ended" /\ (at' = [at EXCEPT ![v]["proxy"] = "ended"] => at'[v]["proxy"] = "ended")
  BY <1>1 DEF HopsTypeOK
<1>5. QED
  BY <1>2, <1>3, <1>4 DEF Forward

\* Nothing but a death, or an answer before its upload, disturbs the order.
LEMMA UnharmedStep ==
    ASSUME HopsTypeOK, Unharmed, \A v \in Visitor : AnswerOf(v), HopsNext
    PROVE  Unharmed'
<1> \A v \in Visitor : Whole(v)' = Whole(v)
  BY FramingStays
<1>1. HopsTypeOK' /\ early \subseteq early' /\ spilt \subseteq spilt'
  BY AnswersStep DEF HistoryGrows
<1>2. died["router"] \in Nat /\ died["proxy"] \in Nat /\ died'["router"] \in Nat /\ died'["proxy"] \in Nat
  BY <1>1 DEF HopsTypeOK, Hop
<1>3. died["router"] <= died'["router"] /\ died["proxy"] <= died'["proxy"]
      /\ \A h \in Hop : Death(h) => died'["router"] + died'["proxy"] > 0
  <2>1. UNCHANGED died \/ \E h \in Hop : Death(h)
    <3>1. \A v \in Visitor : \A h \in Hop :
             HopStep(v, h) \/ RequestTimeout(v, h) => UNCHANGED died
      BY DEF HopStep, Pipe, Ends, Hears, ErrorBeforeHead, AbortAfterHead, ErrorAfterHead,
             IdleCloses, ErrorSpills, ErrorThrows, ErrorIgnored, RequestTimeout
    <3>2. \A v \in Visitor :
             \/ Visit(v) \/ Forward(v) \/ UploadEnds(v) \/ Leave(v)
             \/ RelaySends(v) \/ RelayCut(v) \/ RelayNotice(v) \/ RelaySpills(v)
             => UNCHANGED died
      BY DEF Visit, Forward, UploadEnds, Leave, RelaySends, RelayCut, RelayNotice, RelaySpills
    <3>3. \A h \in Hop : Restart(h) => UNCHANGED died
      BY DEF Restart
    <3>4. QED
      BY <3>1, <3>2, <3>3 DEF HopsNext
  <2>2. \A h \in Hop : Death(h) => died' = [died EXCEPT ![h] = @ + 1]
    BY DEF Death
  <2>3. ASSUME NEW h \in Hop, Death(h)
        PROVE  /\ died["router"] <= died'["router"] /\ died["proxy"] <= died'["proxy"]
               /\ died'["router"] + died'["proxy"] > 0
    <3>1. died \in [Hop -> Nat]
      BY DEF HopsTypeOK
    <3>2. CASE h = "router"
      BY <1>2, <2>2, <2>3, <3>1, <3>2 DEF Hop
    <3>3. CASE h = "proxy"
      BY <1>2, <2>2, <2>3, <3>1, <3>3 DEF Hop
    <3>4. QED
      BY <3>2, <3>3 DEF Hop
  <2>4. QED
    BY <1>2, <2>1, <2>3
<1>4. SUFFICES ASSUME ~Fault, ~Fault'
               PROVE  up' = Hop /\ \A v \in Visitor : Orderly(v)'
  <2>1. Fault => Fault'
    BY <1>1, <1>2, <1>3 DEF Fault
  <2>2. QED
    BY <2>1 DEF Unharmed
<1>5. up = Hop /\ (\A v \in Visitor : Orderly(v)) /\ early' = {} /\ spilt' = {}
  BY <1>4 DEF Unharmed, Fault
<1>6. ASSUME NEW v \in Visitor, OnlyFor(v), Orderly(v)', up' = up,
             \A u \in Visitor \ {v} : sent'[u] = sent[u]
      PROVE  up' = Hop /\ \A u \in Visitor : Orderly(u)'
  <2>1. ASSUME NEW u \in Visitor \ {v} PROVE Orderly(u)'
    <3>1. at'[u] = at[u] /\ wire'[u] = wire[u] /\ sent'[u] = sent[u] /\ Orderly(u)
      BY <1>5, <1>6 DEF OnlyFor
    <3>2. QED
      BY <3>1 DEF Orderly, Listening
  <2>2. QED
    BY <1>5, <1>6, <2>1
<1>7. ASSUME NEW v \in Visitor, Visit(v)
      PROVE  up' = Hop /\ \A u \in Visitor : Orderly(u)'
  <2>1. AnswerOf(v)' /\ OnlyFor(v) /\ UNCHANGED <<sent, upload, early, spilt, up, died>>
    BY <1>7, AnswerVisited
  <2>2. /\ at' = [at EXCEPT ![v] = [visitor |-> "waiting", router |-> "waiting", proxy |-> "reached"]]
        /\ wire' = wire /\ at[v]["proxy"] = "new"
    BY <1>5, <1>7 DEF Visit, Hop, AnswerOf, NothingYet
  <2>3. at'[v]["router"] = "waiting" /\ at'[v]["proxy"] = "reached"
    <3>1. PICK f : /\ f = [visitor |-> "waiting", router |-> "waiting", proxy |-> "reached"]
                   /\ f["router"] = "waiting" /\ f["proxy"] = "reached"
      <4>1. "waiting" \in Stage /\ "reached" \in Stage
        BY DEF Stage
      <4>2. /\ [visitor |-> "waiting", router |-> "waiting", proxy |-> "reached"]["router"] = "waiting"
            /\ [visitor |-> "waiting", router |-> "waiting", proxy |-> "reached"]["proxy"] = "reached"
        BY <4>1, StagesOf
      <4>3. QED
        BY <4>2
    <3>2. at'[v] = f
      BY <2>2, <3>1 DEF HopsTypeOK
    <3>3. QED
      BY <3>1, <3>2
  <2>4. Orderly(v)'
    BY <1>5, <2>1, <2>2, <2>3 DEF Orderly, Listening
  <2>5. QED
    BY <1>6, <2>1, <2>4
<1>8. ASSUME NEW v \in Visitor, Forward(v)
      PROVE  up' = Hop /\ \A u \in Visitor : Orderly(u)'
  BY <1>5, <1>6, <1>8, AnswerForwarded, OrderlyForwarded
<1>9. ASSUME NEW v \in Visitor, UploadEnds(v)
      PROVE  up' = Hop /\ \A u \in Visitor : Orderly(u)'
  BY <1>5, <1>9 DEF UploadEnds, Orderly, Listening
<1>10. ASSUME NEW v \in Visitor, Leave(v)
       PROVE  up' = Hop /\ \A u \in Visitor : Orderly(u)'
  <2>1. UNCHANGED <<wire, sent, up>> /\ at' = [at EXCEPT ![v]["visitor"] = "lost"]
    BY <1>10 DEF Leave
  <2>2. \A u \in Visitor : at'[u]["router"] = at[u]["router"] /\ at'[u]["proxy"] = at[u]["proxy"]
    BY <2>1 DEF HopsTypeOK, Party, Hop
  <2>3. QED
    BY <1>5, <2>1, <2>2 DEF Orderly, Listening
<1>11. ASSUME NEW v \in Visitor, RelaySends(v)
       PROVE  up' = Hop /\ \A u \in Visitor : Orderly(u)'
  BY <1>5, <1>6, <1>11, AnswerSent, OrderlySent
<1>12. ASSUME NEW v \in Visitor, RelayCut(v)
       PROVE  up' = Hop /\ \A u \in Visitor : Orderly(u)'
  BY <1>5, <1>6, <1>12, AnswerCutOff, OrderlyCutOff
<1>18. ASSUME NEW v \in Visitor, RelayNotice(v)
       PROVE  up' = Hop /\ \A u \in Visitor : Orderly(u)'
  <2>1. PICK e \in Seq(AnyPiece) :
           RelayEnds(v, e) /\ \A i \in 1 .. Len(e) : e[i].kind \in FinalKind => i = Len(e)
    BY <1>5, <1>18, RelayNoticeIs
  <2>2. Asked(v) /\ at' = at /\ up' = up
    BY <1>18 DEF RelayNotice
  <2>3. Orderly(v)' /\ \A u \in Visitor \ {v} : sent'[u] = sent[u]
    BY <1>5, <2>1, <2>2, OrderlyFailed
  <2>4. OnlyFor(v)
    BY <1>18, AnswerNotedByRelay
  <2>5. QED
    BY <1>6, <2>2, <2>3, <2>4
<1>19. ASSUME NEW v \in Visitor, RelaySpills(v)
       PROVE  FALSE
  BY <1>5, <1>19 DEF RelaySpills
<1>13. ASSUME NEW v \in Visitor, NEW h \in Hop, HopStep(v, h)
       PROVE  up' = Hop /\ \A u \in Visitor : Orderly(u)'
  <2>1. Orderly(v)' /\ up' = up
    BY <1>5, <1>13, OrderlyServed
  <2>2. ~ErrorThrows(v, h)
    <3>1. SUFFICES ASSUME ErrorThrows(v, h) PROVE FALSE
      OBVIOUS
    <3>2. up' = up \ {h}
      BY <3>1 DEF ErrorThrows, Dies
    <3>3. QED
      BY <1>5, <2>1, <3>2
  <2>3. OnlyFor(v) /\ UNCHANGED <<sent, upload, up, died>>
    BY <1>13, <2>2, AnswerServed
  <2>4. QED
    BY <1>6, <2>1, <2>3
<1>14. ASSUME NEW v \in Visitor, NEW h \in Hop, RequestTimeout(v, h)
       PROVE  FALSE
  BY <1>5, <1>14 DEF RequestTimeout
<1>15. ASSUME NEW h \in Hop, Death(h)
       PROVE  FALSE
  BY <1>3, <1>4, <1>15 DEF Fault
<1>16. ASSUME NEW h \in Hop, Restart(h)
       PROVE  FALSE
  BY <1>5, <1>16 DEF Restart
<1>17. QED
  BY <1>7, <1>8, <1>9, <1>10, <1>11, <1>12, <1>13, <1>14, <1>15, <1>16, <1>18, <1>19 DEF HopsNext

-----------------------------------------------------------------------------
(* The hops *)

LEMMA HopsInitHolds == HopsInit => HopsInv
<1> SUFFICES ASSUME HopsInit PROVE HopsInv
  OBVIOUS
<1>1. HopsTypeOK
  <2>1. \A v \in Visitor : IsAnswer(Whole(v))
    BY WholeIs DEF HopsInit
  <2>2. QED
    BY <2>1, HopsAssumption, OwnSequences DEF HopsInit, HopsTypeOK, Party, Stage, IsAnswer
<1>2. ASSUME NEW v \in Visitor
      PROVE  /\ \A x \in Party : at[v][x] = "new" /\ wire[v][x] = <<>>
             /\ sent[v] = 0
  BY DEF HopsInit, Party
<1>3. ASSUME NEW v \in Visitor PROVE AnswerOf(v)
  <2>1. Flow(v) = <<>> /\ Got(v) = <<>> /\ ~Asked(v)
    BY <1>2 DEF Flow, Got, Listening, Asked, Party, Hop
  <2>2. FlowMarked(v) /\ FlowIsAnswer(v) /\ NoEndYet(v) /\ Intact(Whole(v), Got(v))
    BY <2>1 DEF FlowMarked, FlowIsAnswer, NoEndYet, NoEnd, Intact, Marked, HeadFirst
  <2>3. NothingYet(v)
    BY <1>2, <2>1 DEF NothingYet, Party, Hop
  <2>4. QED
    BY <2>2, <2>3 DEF AnswerOf
<1>4. ASSUME NEW v \in Visitor PROVE Orderly(v)
  BY <1>2 DEF Orderly, Party, Hop
<1>5. Unharmed
  BY <1>4 DEF Unharmed, HopsInit
<1>6. QED
  BY <1>1, <1>3, <1>5 DEF HopsInv

\* For any number of visitors, deaths and chunks, every stream to a visitor is the
\* relay's answer up to a piece that tells of a failure, and without a fault of a hop's
\* own making no hop gets a reset.
THEOREM HopsInvariant == HopsSpec => []HopsInv
<1>1. HopsInit => HopsInv
  BY HopsInitHolds
<1>2. HopsInv /\ [HopsNext]_hopsVars => HopsInv'
  <2>1. SUFFICES ASSUME HopsInv, [HopsNext]_hopsVars PROVE HopsInv'
    OBVIOUS
  <2>2. CASE HopsNext
    BY <2>1, <2>2, AnswersStep, UnharmedStep DEF HopsInv
  <2>3. CASE UNCHANGED hopsVars
    <3>0. \A v \in Visitor : Whole(v)' = Whole(v)
      BY <2>3 DEF hopsVars, Whole
    <3>1. HopsTypeOK'
      BY <2>1, <2>3, <3>0 DEF HopsInv, HopsTypeOK, hopsVars
    <3>2. \A v \in Visitor : AnswerOf(v)'
      BY <2>1, <2>3, <3>0, Rests DEF HopsInv, hopsVars
    <3>3. Unharmed'
      BY <2>1, <2>3, <3>0 DEF HopsInv, hopsVars, Unharmed, Fault, Orderly, Listening
    <3>4. QED
      BY <3>1, <3>2, <3>3 DEF HopsInv
  <2>4. QED
    BY <2>1, <2>2, <2>3
<1>3. QED
  BY <1>1, <1>2, PTL DEF HopsSpec

\* An answer that is complete at the visitor is the relay's whole one, a hop's own, or has
\* the text of an error in it: TunnelRequestMiddleware.ts and server-router.ts, whatever
\* is cut, however the answer is framed and whoever dies.
THEOREM AnswerIntactHolds == HopsSpec => []AnswerIntact
<1>1. HopsInv => AnswerIntact
  <2>1. SUFFICES ASSUME HopsInv, NEW v \in Visitor,
                        Kinds(v) \cap Completing # {}, "head" \in Kinds(v),
                        Kinds(v) \cap {"notice", "filled"} = {}
                 PROVE  Len(Got(v)) >= Len(Whole(v)) /\ SubSeq(Got(v), 1, Len(Whole(v))) = Whole(v)
    BY DEF AnswerIntact
  <2>2. PICK g \in Seq(AnyPiece) : g = Got(v) /\ Intact(Whole(v), g)
    BY <2>1, RequestIs DEF HopsInv, AnswerOf
  <2>3. Len(g) >= Len(Whole(v)) /\ \A i \in 1 .. Len(Whole(v)) : g[i] = Whole(v)[i]
    BY <2>1, <2>2 DEF Intact, Kinds
  <2>4. Whole(v) \in Seq(AnyPiece) /\ Len(Whole(v)) \in Nat
    BY <2>1, RequestIs DEF HopsInv, IsAnswer
  <2>5. PICK s \in Seq(AnyPiece) :
           /\ s = SubSeq(g, 1, Len(Whole(v))) /\ Len(s) = Len(Whole(v))
           /\ \A i \in 1 .. Len(Whole(v)) : s[i] = g[i]
    BY <2>2, <2>3, <2>4
  <2>6. s = Whole(v)
    BY <2>3, <2>4, <2>5, SeqEqual
  <2>7. QED
    BY <2>2, <2>3, <2>5, <2>6
<1>2. QED
  BY <1>1, HopsInvariant, PTL

\* Only a proxy that died, an answer that was over before its upload, or one that got more
\* than its length ends the router (server-router.ts): no other failure of the relay, and
\* none in a chunked answer, keeps the other visitors from being served.
THEOREM RouterOutlivesRelayHolds == HopsSpec => []RouterOutlivesRelay
<1>1. HopsInv => RouterOutlivesRelay
  BY DEF HopsInv, Unharmed, Fault, RouterOutlivesRelay, Hop
<1>2. QED
  BY <1>1, HopsInvariant, PTL
=============================================================================
