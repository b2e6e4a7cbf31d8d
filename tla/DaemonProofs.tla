---------------------------- MODULE DaemonProofs ----------------------------
(***************************************************************************)
(* Proofs about the daemon, for any set of processes, any number of        *)
(* restarts and any number of queries that overlap.                        *)
(*                                                                         *)
(* The argument: a name's latest child is replaced only after its 'exit'   *)
(* was handled, so every child whose 'exit' is still to come is the latest *)
(* of its name; the status of a name follows from the events seen of that  *)
(* child; and a query that read "crashed" asked a child that was dead, so  *)
(* that no answer of it can follow.                                        *)
(***************************************************************************)
EXTENDS Daemon, TLAPS

DaemonTypeOK ==
    /\ daemon \in {"starting", "up", "exited", "failed"}
    /\ status \in [ProcessName -> ProcessStatus]
    /\ child \in [ProcessName -> Child \cup {None}]
    /\ timers \in [ProcessName -> Nat]
    /\ os \in [Child -> {"none", "alive", "dead"}]
    /\ nameOf \in [Child -> ProcessName \cup {None}]
    /\ seen \in [Child -> SUBSET {"spawn", "exit"}]
    /\ connected \in [Child -> BOOLEAN]
    /\ killed \subseteq Child
    /\ asked \in [Query -> [ProcessName -> Child \cup {None}]]
    /\ waiting \in [Query -> SUBSET ProcessName]
    /\ entry \in [Query -> [ProcessName -> Entry \cup {None}]]
    /\ reply \in [Query -> SUBSET ProcessName]
    /\ written \subseteq Query

\* The names and their children know each other; a child that was not spawned
\* has no history, and one that has is the latest of its name until its 'exit'.
ChildrenKnown ==
    /\ \A p \in ProcessName :
          child[p] # None => os[child[p]] # "none" /\ nameOf[child[p]] = p
    /\ \A c \in Child :
          IF os[c] = "none" THEN seen[c] = {} /\ ~connected[c]
          ELSE /\ nameOf[c] \in ProcessName
               /\ "exit" \notin seen[c] => child[nameOf[c]] = c
    /\ \A c \in Child : "exit" \in seen[c] => "spawn" \in seen[c] /\ os[c] = "dead"

\* What the daemon believes of a name is what it has seen of its latest child.
StatusFollows ==
    \A p \in ProcessName :
        /\ timers[p] = (IF status[p] = "crashed" THEN 1 ELSE 0)
        /\ child[p] = None <=> daemon = "starting"
        /\ status[p] = (IF child[p] = None THEN "stopped"
                        ELSE IF "exit" \in seen[child[p]] THEN "crashed"
                        ELSE IF "spawn" \in seen[child[p]] THEN "running" ELSE "starting")

\* A query holds children of the right names, waits only for children it asked,
\* and has no answer of a name that it noted as crashed: its child was dead.
QueriesSound ==
    \A q \in Query, p \in ProcessName :
        /\ p \in waiting[q] \/ p \in reply[q] => asked[q][p] # None
        /\ asked[q][p] # None =>
              /\ os[asked[q][p]] # "none" /\ nameOf[asked[q][p]] = p
              /\ entry[q][p] # None
              /\ \/ entry[q][p].status \in {"starting", "running"}
                 \/ os[asked[q][p]] = "dead" /\ p \notin reply[q]

DaemonInv ==
    /\ DaemonTypeOK
    /\ ChildrenKnown
    /\ StatusFollows
    /\ QueriesSound
    /\ StatsAreOwn

\* What a spawn leaves behind: each chosen name has a new child that knows it.
Spawned(chosen, new) ==
    /\ \A p \in chosen : /\ status'[p] = "starting" /\ child'[p] = new[p]
                         /\ os[new[p]] = "none" /\ os'[new[p]] = "alive"
                         /\ connected'[new[p]] = TRUE /\ nameOf'[new[p]] = p
    /\ \A p \in ProcessName \ chosen : status'[p] = status[p] /\ child'[p] = child[p]
    /\ \A c \in Child : \/ \E p \in chosen : c = new[p]
                        \/ /\ os'[c] = os[c] /\ nameOf'[c] = nameOf[c]
                           /\ connected'[c] = connected[c]
    /\ status' \in [ProcessName -> ProcessStatus]
    /\ child' \in [ProcessName -> Child \cup {None}]
    /\ os' \in [Child -> {"none", "alive", "dead"}]
    /\ nameOf' \in [Child -> ProcessName \cup {None}]
    /\ connected' \in [Child -> BOOLEAN]
-----------------------------------------------------------------------------
(* Lemmas *)

\* A spawn gives each chosen name a child of its own that knows its name.
LEMMA SpawnedChildren ==
    ASSUME DaemonTypeOK, NEW chosen \in SUBSET ProcessName, NEW new \in [chosen -> Child],
           Spawn(chosen, new)
    PROVE  Spawned(chosen, new)
<1> DEFINE spawned == {new[p] : p \in chosen}
<1>1. \A p \in chosen : new[p] \in spawned /\ new[p] \in Child
  OBVIOUS
<1>2. \A p \in chosen : (CHOOSE r \in chosen : new[r] = new[p]) = p
  BY DEF Spawn
<1>3. \A c \in spawned : (CHOOSE r \in chosen : new[r] = c) \in chosen
  BY <1>2
<1>4. /\ os' = [c \in Child |-> IF c \in spawned THEN "alive" ELSE os[c]]
      /\ connected' = [c \in Child |-> c \in spawned \/ connected[c]]
      /\ nameOf' = [c \in Child |->
             IF c \in spawned THEN CHOOSE p \in chosen : new[p] = c ELSE nameOf[c]]
  BY DEF Spawn
<1>5. /\ status' = [p \in ProcessName |-> IF p \in chosen THEN "starting" ELSE status[p]]
      /\ child' = [p \in ProcessName |-> IF p \in chosen THEN new[p] ELSE child[p]]
      /\ \A p \in chosen : os[new[p]] = "none"
  BY DEF Spawn
<1>6. \A p \in chosen : os'[new[p]] = "alive" /\ connected'[new[p]] = TRUE /\ nameOf'[new[p]] = p
  BY <1>1, <1>2, <1>4
<1>7. \A c \in Child \ spawned :
         os'[c] = os[c] /\ nameOf'[c] = nameOf[c] /\ connected'[c] = (FALSE \/ connected[c])
  BY <1>4
<1>8. /\ os' \in [Child -> {"none", "alive", "dead"}]
      /\ connected' \in [Child -> BOOLEAN]
  BY <1>4 DEF DaemonTypeOK
<1>9. nameOf' \in [Child -> ProcessName \cup {None}]
  BY <1>3, <1>4 DEF DaemonTypeOK
<1>10. /\ status' \in [ProcessName -> ProcessStatus]
       /\ child' \in [ProcessName -> Child \cup {None}]
  BY <1>5 DEF DaemonTypeOK, ProcessStatus
<1>11. \A c \in Child : connected[c] \in BOOLEAN
  BY DEF DaemonTypeOK
<1> QED  BY <1>5, <1>6, <1>7, <1>8, <1>9, <1>10, <1>11 DEF Spawned

\* listen() starts from a daemon that has spawned nothing.
LEMMA ListenKeepsInv ==
    ASSUME DaemonInv, Listen PROVE DaemonInv'
<1>1. PICK new \in [ProcessName -> Child] : Spawn(ProcessName, new)
  BY DEF Listen
<1>2. /\ daemon = "starting" /\ daemon' = "up"
      /\ UNCHANGED <<timers, seen, killed, asked, waiting, entry, reply, written>>
  BY DEF Listen, queryVars
<1>3. DaemonTypeOK
  BY DEF DaemonInv
<1>4. Spawned(ProcessName, new)
  BY <1>1, <1>3, SpawnedChildren, Zenon
<1>5. DaemonTypeOK'
  BY <1>2, <1>3, <1>4 DEF Spawned, DaemonTypeOK
<1>6. ChildrenKnown'
  BY <1>2, <1>4, DaemonAssumption DEF Spawned, DaemonInv, ChildrenKnown, StatusFollows
<1>7. StatusFollows'
  BY <1>2, <1>4, DaemonAssumption DEF Spawned, DaemonInv, ChildrenKnown, StatusFollows, DaemonTypeOK
<1>8. QueriesSound'
  BY <1>2, <1>3, <1>4, DaemonAssumption DEF Spawned, DaemonInv, QueriesSound, DaemonTypeOK
<1>9. StatsAreOwn'
  BY <1>2, <1>3, <1>4, DaemonAssumption DEF Spawned, DaemonInv, QueriesSound, StatsAreOwn, DaemonTypeOK
<1> QED  BY <1>5, <1>6, <1>7, <1>8, <1>9 DEF DaemonInv

\* A restart replaces a child whose 'exit' was handled by one that is new.
LEMMA RespawnKeepsInv ==
    ASSUME DaemonInv, NEW p \in ProcessName, Respawn(p) PROVE DaemonInv'
<1>1. PICK c \in Child : Spawn({p}, [r \in {p} |-> c])
  BY DEF Respawn
<1> DEFINE new == [r \in {p} |-> c]
<1>2. /\ daemon = "up" /\ timers[p] > 0 /\ timers' = [timers EXCEPT ![p] = @ - 1]
      /\ UNCHANGED <<daemon, seen, killed, asked, waiting, entry, reply, written>>
  BY DEF Respawn, TimerFired, queryVars
<1>3. DaemonTypeOK
  BY DEF DaemonInv
<1>4. new \in [{p} -> Child] /\ {p} \in SUBSET ProcessName /\ Spawn({p}, new)
  BY <1>1
<1>5. Spawned({p}, new)
  BY <1>3, <1>4, SpawnedChildren, Zenon
<1>6. /\ status'[p] = "starting" /\ child'[p] = c /\ os[c] = "none" /\ os'[c] = "alive"
      /\ connected'[c] = TRUE /\ nameOf'[c] = p
      /\ \A r \in ProcessName \ {p} : status'[r] = status[r] /\ child'[r] = child[r]
      /\ \A d \in Child \ {c} : /\ os'[d] = os[d] /\ nameOf'[d] = nameOf[d]
                               /\ connected'[d] = connected[d]
  BY <1>5 DEF Spawned
<1>7. child[p] # None /\ "exit" \in seen[child[p]] /\ status[p] = "crashed"
  BY <1>2 DEF DaemonInv, StatusFollows
<1> HIDE DEF new
<1>8. DaemonTypeOK'
  BY <1>2, <1>3, <1>5, <1>7 DEF DaemonTypeOK, Spawned, DaemonInv, StatusFollows
<1>9. ChildrenKnown'
  <2>1. \A r \in ProcessName :
          child'[r] # None => os'[child'[r]] # "none" /\ nameOf'[child'[r]] = r
    BY <1>3, <1>6 DEF DaemonInv, ChildrenKnown, DaemonTypeOK
  <2>2. \A d \in Child : IF os'[d] = "none" THEN seen'[d] = {} /\ ~connected'[d]
                         ELSE /\ nameOf'[d] \in ProcessName
                              /\ "exit" \notin seen'[d] => child'[nameOf'[d]] = d
    <3>1. \A d \in Child \ {c} : os[d] # "none" /\ "exit" \notin seen[d] => nameOf[d] # p
      BY <1>7 DEF DaemonInv, ChildrenKnown
    <3> QED  BY <1>2, <1>6, <3>1 DEF DaemonInv, ChildrenKnown
  <2>3. \A d \in Child : "exit" \in seen'[d] => "spawn" \in seen'[d] /\ os'[d] = "dead"
    BY <1>2, <1>6 DEF DaemonInv, ChildrenKnown
  <2> QED  BY <2>1, <2>2, <2>3 DEF ChildrenKnown
<1>10. StatusFollows'
  <2> SUFFICES ASSUME NEW r \in ProcessName
               PROVE  /\ timers'[r] = (IF status'[r] = "crashed" THEN 1 ELSE 0)
                      /\ child'[r] = None <=> daemon' = "starting"
                      /\ status'[r] = (IF child'[r] = None THEN "stopped"
                            ELSE IF "exit" \in seen'[child'[r]] THEN "crashed"
                            ELSE IF "spawn" \in seen'[child'[r]] THEN "running" ELSE "starting")
    BY DEF StatusFollows
  <2> QED  BY <1>2, <1>3, <1>6, <1>7, DaemonAssumption
           DEF DaemonInv, ChildrenKnown, StatusFollows, DaemonTypeOK
<1>11. QueriesSound'
  BY <1>2, <1>3, <1>6, DaemonAssumption DEF DaemonInv, QueriesSound, DaemonTypeOK
<1>12. StatsAreOwn'
  BY <1>2, <1>3, <1>6, DaemonAssumption DEF DaemonInv, QueriesSound, StatsAreOwn, DaemonTypeOK
<1> QED  BY <1>8, <1>9, <1>10, <1>11, <1>12 DEF DaemonInv

\* The events of a child: each changes what is known of that child alone.
LEMMA ChildEventsKeepInv ==
    ASSUME DaemonInv, NEW c \in Child,
           ChildSpawned(c) \/ ChildDies(c) \/ ChildExit(c) \/ Disconnected(c)
    PROVE  DaemonInv'
<1> USE DaemonAssumption
<1>1. CASE ChildSpawned(c)
  <2> DEFINE p == nameOf[c]
  <2>1. /\ os[c] # "none" /\ "spawn" \notin seen[c]
        /\ seen' = [seen EXCEPT ![c] = @ \cup {"spawn"}]
        /\ status' = [status EXCEPT ![p] = "running"]
        /\ UNCHANGED <<daemon, child, timers, os, nameOf, connected, killed>>
        /\ UNCHANGED <<asked, waiting, entry, reply, written>>
    BY <1>1 DEF ChildSpawned, queryVars
  <2>2. p \in ProcessName /\ child[p] = c /\ "exit" \notin seen[c] /\ c # None
    BY <2>1 DEF DaemonInv, ChildrenKnown
  <2> HIDE DEF p
  <2>3. DaemonTypeOK'
    BY <2>1, <2>2 DEF DaemonInv, DaemonTypeOK, ProcessStatus
  <2>4. ChildrenKnown'
    BY <2>1 DEF DaemonInv, DaemonTypeOK, ChildrenKnown
  <2>5. StatusFollows'
    BY <2>1, <2>2 DEF DaemonInv, DaemonTypeOK, StatusFollows, ChildrenKnown
  <2>6. QueriesSound' /\ StatsAreOwn'
    BY <2>1 DEF DaemonInv, QueriesSound, StatsAreOwn
  <2> QED  BY <2>3, <2>4, <2>5, <2>6 DEF DaemonInv
<1>2. CASE ChildDies(c)
  <2>1. /\ os[c] = "alive" /\ os' = [os EXCEPT ![c] = "dead"]
        /\ UNCHANGED <<daemon, status, child, timers, nameOf, seen, connected, killed>>
        /\ UNCHANGED <<asked, waiting, entry, reply, written>>
    BY <1>2 DEF ChildDies, queryVars
  <2>2. DaemonTypeOK' /\ ChildrenKnown'
    BY <2>1 DEF DaemonInv, DaemonTypeOK, ChildrenKnown
  <2>3. StatusFollows' /\ StatsAreOwn'
    BY <2>1 DEF DaemonInv, StatusFollows, StatsAreOwn
  <2>4. QueriesSound'
    BY <2>1 DEF DaemonInv, QueriesSound, DaemonTypeOK
  <2> QED  BY <2>2, <2>3, <2>4 DEF DaemonInv
<1>3. CASE ChildExit(c)
  <2> DEFINE p == nameOf[c]
  <2>1. /\ os[c] = "dead" /\ "spawn" \in seen[c] /\ "exit" \notin seen[c]
        /\ seen' = [seen EXCEPT ![c] = @ \cup {"exit"}]
        /\ status' = [status EXCEPT ![p] = "crashed"]
        /\ timers' = [timers EXCEPT ![p] = @ + 1]
        /\ waiting' = [q \in Query |->
              IF q \in WaitingFor(c) THEN waiting[q] \ {p} ELSE waiting[q]]
        /\ UNCHANGED <<daemon, child, os, nameOf, connected, killed, asked, entry, reply, written>>
    BY <1>3 DEF ChildExit, RestartTimers
  <2>2. p \in ProcessName /\ child[p] = c /\ c # None
    BY <2>1 DEF DaemonInv, ChildrenKnown
  <2>3. \A q \in Query : waiting'[q] \subseteq waiting[q]
    BY <2>1
  <2> HIDE DEF p
  <2>4. DaemonTypeOK'
    <3>1. waiting' \in [Query -> SUBSET ProcessName]
      BY <2>1 DEF DaemonInv, DaemonTypeOK
    <3> QED  BY <2>1, <2>2, <3>1 DEF DaemonInv, DaemonTypeOK, ProcessStatus
  <2>5. ChildrenKnown'
    BY <2>1, <2>2 DEF DaemonInv, DaemonTypeOK, ChildrenKnown
  <2>6. StatusFollows'
    BY <2>1, <2>2 DEF DaemonInv, DaemonTypeOK, StatusFollows, ChildrenKnown
  <2>7. QueriesSound' /\ StatsAreOwn'
    BY <2>1, <2>3 DEF DaemonInv, QueriesSound, StatsAreOwn
  <2> QED  BY <2>4, <2>5, <2>6, <2>7 DEF DaemonInv
<1>4. CASE Disconnected(c)
  <2>1. /\ os[c] = "dead" /\ connected' = [connected EXCEPT ![c] = FALSE]
        /\ UNCHANGED <<daemon, status, child, timers, os, nameOf, seen, killed>>
        /\ UNCHANGED <<asked, waiting, entry, reply, written>>
    BY <1>4 DEF Disconnected, queryVars
  <2>2. DaemonTypeOK' /\ ChildrenKnown'
    BY <2>1 DEF DaemonInv, DaemonTypeOK, ChildrenKnown
  <2>3. StatusFollows' /\ StatsAreOwn' /\ QueriesSound'
    BY <2>1 DEF DaemonInv, StatusFollows, StatsAreOwn, QueriesSound
  <2> QED  BY <2>2, <2>3 DEF DaemonInv
<1> QED  BY <1>1, <1>2, <1>3, <1>4

\* A query notes the status of a name together with the child it asks.
LEMMA CollectKeepsInv ==
    ASSUME DaemonInv, NEW q \in Query, CollectStats(q) PROVE DaemonInv'
<1> USE DaemonAssumption
<1> DEFINE note == [p \in ProcessName |-> [status |-> status[p], stats |-> None]]
           ask  == [p \in ProcessName |-> IF Askable(p) THEN child[p] ELSE None]
<1>1. /\ entry[q] = PerName(None)
      /\ asked' = [asked EXCEPT ![q] = ask]
      /\ waiting' = [waiting EXCEPT ![q] = {p \in ProcessName : Askable(p)}]
      /\ entry' = [entry EXCEPT ![q] = note]
      /\ UNCHANGED <<daemon, status, child, timers, os, nameOf, seen, connected, killed>>
      /\ UNCHANGED <<reply, written>>
  BY DEF CollectStats, procVars
<1>2. DaemonTypeOK
  BY DEF DaemonInv
<1>3. \A p \in ProcessName : /\ note[p] \in Entry /\ note[p] # None
                             /\ note[p].status = status[p] /\ note[p].stats = None
  BY <1>2 DEF DaemonTypeOK, Entry
<1>4. \A p \in ProcessName : /\ ask[p] \in Child \cup {None}
                             /\ Askable(p) => ask[p] = child[p] /\ ask[p] # None
                             /\ ask[p] # None => Askable(p)
  BY <1>2 DEF DaemonTypeOK, Askable
<1>5. note \in [ProcessName -> Entry \cup {None}] /\ ask \in [ProcessName -> Child \cup {None}]
  BY <1>3, <1>4
<1> HIDE DEF note, ask
<1>6. \A p \in ProcessName : p \notin reply[q]
  <2>1. \A p \in ProcessName : entry[q][p] = None
    BY <1>1 DEF PerName
  <2> QED  BY <2>1 DEF DaemonInv, QueriesSound
<1>7. DaemonTypeOK'
  BY <1>1, <1>2, <1>5 DEF DaemonTypeOK
<1>8. ChildrenKnown' /\ StatusFollows'
  BY <1>1 DEF DaemonInv, ChildrenKnown, StatusFollows
<1>9. \A p \in ProcessName : ask[p] # None =>
         /\ os[ask[p]] # "none" /\ nameOf[ask[p]] = p
         /\ status[p] \in {"starting", "running"} \/ os[ask[p]] = "dead"
  BY <1>2, <1>4 DEF DaemonInv, ChildrenKnown, StatusFollows, DaemonTypeOK
<1>10. \A p \in ProcessName : /\ asked'[q][p] = ask[p] /\ entry'[q][p] = note[p]
                              /\ p \in waiting'[q] => ask[p] # None
  BY <1>1, <1>2, <1>4 DEF DaemonTypeOK
<1>11. \A r \in Query \ {q} :
          asked'[r] = asked[r] /\ entry'[r] = entry[r] /\ waiting'[r] = waiting[r]
  BY <1>1, <1>2 DEF DaemonTypeOK
<1>12. QueriesSound'
  BY <1>1, <1>3, <1>6, <1>9, <1>10, <1>11 DEF DaemonInv, QueriesSound
<1>13. StatsAreOwn'
  BY <1>1, <1>3, <1>10, <1>11 DEF DaemonInv, StatsAreOwn
<1> QED  BY <1>7, <1>8, <1>12, <1>13 DEF DaemonInv

\* An answer, or the lack of one, changes what is noted for one name.
LEMMA AnswersKeepInv ==
    ASSUME DaemonInv, NEW q \in Query, NEW p \in ProcessName,
           ChildAnswers(q, p) \/ Answered(q, p) \/ NotAnswered(q, p)
    PROVE  DaemonInv'
<1> USE DaemonAssumption
<1>1. CASE ChildAnswers(q, p)
  <2>1. /\ asked[q][p] # None /\ os[asked[q][p]] = "alive"
        /\ reply' = [reply EXCEPT ![q] = @ \cup {p}]
        /\ UNCHANGED <<daemon, status, child, timers, os, nameOf, seen, connected, killed>>
        /\ UNCHANGED <<asked, waiting, entry, written>>
    BY <1>1 DEF ChildAnswers, procVars
  <2>2. DaemonTypeOK' /\ ChildrenKnown' /\ StatusFollows'
    BY <2>1 DEF DaemonInv, DaemonTypeOK, ChildrenKnown, StatusFollows
  <2>3. QueriesSound' /\ StatsAreOwn'
    BY <2>1 DEF DaemonInv, QueriesSound, StatsAreOwn, DaemonTypeOK
  <2> QED  BY <2>2, <2>3 DEF DaemonInv
<1>2. CASE Answered(q, p)
  <2> DEFINE c == asked[q][p]
             hearers == {r \in WaitingFor(c) : IsStatsResponse(r, q)}
             noted(r) == [entry[r] EXCEPT ![p].stats = c]
  <2>1. /\ p \in reply[q] /\ hearers # {}
        /\ waiting' = [r \in Query |-> IF r \in hearers THEN waiting[r] \ {p} ELSE waiting[r]]
        /\ entry' = [r \in Query |-> IF r \in hearers THEN noted(r) ELSE entry[r]]
        /\ UNCHANGED <<daemon, status, child, timers, os, nameOf, seen, connected, killed>>
        /\ UNCHANGED <<asked, reply, written>>
    BY <1>2 DEF Answered, procVars
  <2>2. hearers = {q}
    BY <2>1 DEF IsStatsResponse, WaitingFor
  <2>3. /\ c \in Child /\ c # None /\ nameOf[c] = p
        /\ entry[q][p] \in Entry /\ entry[q][p].status \in {"starting", "running"}
        /\ entry[q] \in [ProcessName -> Entry \cup {None}]
    BY <2>1 DEF DaemonInv, QueriesSound, DaemonTypeOK
  <2>4. /\ noted(q) \in [ProcessName -> Entry \cup {None}]
        /\ noted(q)[p] # None /\ noted(q)[p].status = entry[q][p].status /\ noted(q)[p].stats = c
        /\ \A r \in ProcessName \ {p} : noted(q)[r] = entry[q][r]
    <3>1. [entry[q][p] EXCEPT !.stats = c] \in Entry
      BY <2>3 DEF Entry
    <3>2. noted(q)[p] = [entry[q][p] EXCEPT !.stats = c]
      BY <2>3
    <3>3. \A r \in ProcessName \ {p} : noted(q)[r] = entry[q][r]
      BY <2>3
    <3>4. noted(q)[p].status = entry[q][p].status /\ noted(q)[p].stats = c
      BY <2>3, <3>2 DEF Entry
    <3> QED  BY <2>3, <3>1, <3>2, <3>3, <3>4
  <2> HIDE DEF noted, c
  <2>5. /\ entry'[q] = noted(q) /\ \A r \in Query \ {q} : entry'[r] = entry[r]
        /\ \A r \in Query : waiting'[r] \subseteq waiting[r]
    BY <2>1, <2>2
  <2>6. DaemonTypeOK'
    <3>1. waiting' \in [Query -> SUBSET ProcessName]
      BY <2>1 DEF DaemonInv, DaemonTypeOK
    <3>2. entry' \in [Query -> [ProcessName -> Entry \cup {None}]]
      BY <2>1, <2>2, <2>4 DEF DaemonInv, DaemonTypeOK
    <3> QED  BY <2>1, <3>1, <3>2 DEF DaemonInv, DaemonTypeOK
  <2>7. ChildrenKnown' /\ StatusFollows'
    BY <2>1 DEF DaemonInv, ChildrenKnown, StatusFollows
  <2>8. \A r \in Query, t \in ProcessName :
          \/ entry'[r][t] = entry[r][t]
          \/ /\ r = q /\ t = p /\ entry'[r][t] # None /\ entry[r][t] # None
             /\ entry'[r][t].status = entry[r][t].status /\ entry'[r][t].stats = asked[r][t]
    BY <2>3, <2>4, <2>5, Zenon DEF c
  <2>9. QueriesSound'
    BY <2>1, <2>5, <2>8 DEF DaemonInv, QueriesSound
  <2>10. StatsAreOwn'
    BY <2>1, <2>3, <2>8 DEF DaemonInv, StatsAreOwn, c
  <2> QED  BY <2>6, <2>7, <2>9, <2>10 DEF DaemonInv
<1>3. CASE NotAnswered(q, p)
  <2>1. /\ waiting' = [waiting EXCEPT ![q] = @ \ {p}]
        /\ UNCHANGED <<daemon, status, child, timers, os, nameOf, seen, connected, killed>>
        /\ UNCHANGED <<asked, entry, reply, written>>
    BY <1>3 DEF NotAnswered, procVars
  <2>2. DaemonTypeOK' /\ ChildrenKnown' /\ StatusFollows'
    BY <2>1 DEF DaemonInv, DaemonTypeOK, ChildrenKnown, StatusFollows
  <2>3. QueriesSound' /\ StatsAreOwn'
    BY <2>1 DEF DaemonInv, QueriesSound, StatsAreOwn, DaemonTypeOK
  <2> QED  BY <2>2, <2>3 DEF DaemonInv
<1> QED  BY <1>1, <1>2, <1>3

-----------------------------------------------------------------------------
(* Theorems *)

LEMMA DaemonInitHolds == DaemonInit => DaemonInv
BY DaemonAssumption
DEF DaemonInit, DaemonInv, DaemonTypeOK, ChildrenKnown, StatusFollows, QueriesSound,
    StatsAreOwn, PerName, ProcessStatus

\* For any processes, restarts and queries: the daemon's state has its types, what
\* it believes of a process is what it saw of its latest child, and what a query
\* noted belongs to the child it asked.
THEOREM DaemonInvariant == DaemonSpec => []DaemonInv
<1>1. DaemonInv /\ [DaemonNext]_daemonVars => DaemonInv'
  <2> SUFFICES ASSUME DaemonInv, [DaemonNext]_daemonVars PROVE DaemonInv'
    OBVIOUS
  <2>1. CASE Listen
    BY <2>1, ListenKeepsInv
  <2>2. CASE Shutdown
    <3>1. /\ daemon = "up" /\ daemon' = "exited"
          /\ killed' = killed \cup {c \in ToKill : os[c] = "alive"}
          /\ UNCHANGED <<status, child, timers, os, nameOf, seen, connected>>
          /\ UNCHANGED <<asked, waiting, entry, reply, written>>
      BY <2>2 DEF Shutdown, queryVars
    <3>2. DaemonTypeOK'
      BY <3>1 DEF DaemonInv, DaemonTypeOK, ToKill
    <3>3. ChildrenKnown' /\ StatusFollows' /\ QueriesSound' /\ StatsAreOwn'
      BY <3>1 DEF DaemonInv, ChildrenKnown, StatusFollows, QueriesSound, StatsAreOwn
    <3> QED  BY <3>2, <3>3 DEF DaemonInv
  <2>3. ASSUME NEW c \in Child,
               ChildSpawned(c) \/ ChildDies(c) \/ ChildExit(c) \/ Disconnected(c)
        PROVE  DaemonInv'
    BY <2>3, ChildEventsKeepInv
  <2>4. ASSUME NEW p \in ProcessName, Respawn(p) PROVE DaemonInv'
    BY <2>4, RespawnKeepsInv
  <2>5. ASSUME NEW p \in ProcessName, SpawnError(p) PROVE DaemonInv'
    <3>1. /\ daemon = "up" /\ daemon' = "failed" /\ os[child[p]] = "alive"
          /\ os' = [os EXCEPT ![child[p]] = "dead"]
          /\ UNCHANGED <<status, child, timers, nameOf, seen, connected, killed>>
          /\ UNCHANGED <<asked, waiting, entry, reply, written>>
      BY <2>5 DEF SpawnError, queryVars
    <3>2. child[p] \in Child
      BY <2>5, <3>1 DEF DaemonInv, DaemonTypeOK, StatusFollows
    <3>3. DaemonTypeOK' /\ ChildrenKnown'
      BY <3>1, <3>2 DEF DaemonInv, DaemonTypeOK, ChildrenKnown
    <3>4. StatusFollows' /\ StatsAreOwn' /\ QueriesSound'
      BY <3>1, <3>2 DEF DaemonInv, DaemonTypeOK, StatusFollows, StatsAreOwn, QueriesSound
    <3> QED  BY <3>3, <3>4 DEF DaemonInv
  <2>6. ASSUME NEW q \in Query, CollectStats(q) PROVE DaemonInv'
    BY <2>6, CollectKeepsInv
  <2>7. ASSUME NEW q \in Query, Write(q) PROVE DaemonInv'
    BY <2>7
    DEF Write, procVars, DaemonInv, DaemonTypeOK, ChildrenKnown, StatusFollows, QueriesSound,
        StatsAreOwn
  <2>8. ASSUME NEW q \in Query, NEW p \in ProcessName,
               ChildAnswers(q, p) \/ Answered(q, p) \/ NotAnswered(q, p)
        PROVE  DaemonInv'
    BY <2>8, AnswersKeepInv
  <2>9. CASE UNCHANGED daemonVars
    BY <2>9
    DEF daemonVars, procVars, queryVars, DaemonInv, DaemonTypeOK, ChildrenKnown, StatusFollows,
        QueriesSound, StatsAreOwn
  <2> QED  BY <2>1, <2>2, <2>3, <2>4, <2>5, <2>6, <2>7, <2>8, <2>9 DEF DaemonNext
<1> QED  BY <1>1, DaemonInitHolds, PTL DEF DaemonSpec

\* Of one name, never two children are alive at the same time, and the restart
\* timer runs exactly while the latest child is known to have ended.
THEOREM OneChildEachHolds == DaemonSpec => []OneChildEach
<1>1. DaemonInv => OneChildEach
  <2> SUFFICES ASSUME DaemonInv PROVE OneChildEach
    OBVIOUS
  <2>1. \A c \in Child : os[c] = "alive" => child[nameOf[c]] = c
    BY DEF DaemonInv, ChildrenKnown
  <2>2. \A p \in ProcessName :
          /\ timers[p] = 1 <=> status[p] = "crashed"
          /\ status[p] = "crashed" => os[child[p]] = "dead" /\ "exit" \in seen[child[p]]
          /\ status[p] = "running" => "exit" \notin seen[child[p]]
    BY DEF DaemonInv, ChildrenKnown, StatusFollows, DaemonTypeOK
  <2> QED  BY <2>1, <2>2 DEF OneChildEach
<1> QED  BY <1>1, DaemonInvariant, PTL

\* Statistics are shown beside a status only if they are of the child the query
\* asked, which answered this query and was not known to have ended.
THEOREM StatsAreOwnHolds == DaemonSpec => []StatsAreOwn
<1>1. DaemonInv => StatsAreOwn
  BY DEF DaemonInv
<1> QED  BY <1>1, DaemonInvariant, PTL

\* The shutdown signals every server process that runs: also one that was
\* spawned a moment ago and one whose start the daemon has not seen yet.
ShutdownMissesNone ==
    daemon = "up" /\ daemon' = "exited" => \A c \in Child : os[c] = "alive" => c \in killed'

\* `stop` leaves no process that was alive without its signal.
THEOREM ShutdownMissesNoneHolds == DaemonSpec => [][ShutdownMissesNone]_daemonVars
<1>1. DaemonInv /\ [DaemonNext]_daemonVars => [ShutdownMissesNone]_daemonVars
  <2> SUFFICES ASSUME DaemonInv, DaemonNext, daemon = "up", daemon' = "exited",
                      NEW c \in Child, os[c] = "alive"
               PROVE  c \in killed'
    BY DEF ShutdownMissesNone
  <2>1. Shutdown
    BY DEF DaemonNext, Listen, ChildSpawned, ChildDies, ChildExit, Disconnected, Respawn,
           SpawnError, CollectStats, Write, ChildAnswers, Answered, NotAnswered, procVars
  <2>2. nameOf[c] \in ProcessName /\ child[nameOf[c]] = c
    BY DEF DaemonInv, ChildrenKnown
  <2>3. c \in ToKill
    BY <2>2, DaemonAssumption DEF ToKill
  <2> QED  BY <2>1, <2>3 DEF Shutdown
<1> QED  BY <1>1, DaemonInvariant, PTL DEF DaemonSpec
=============================================================================
