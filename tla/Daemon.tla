------------------------------- MODULE Daemon -------------------------------
(***************************************************************************)
(* The daemon: it keeps the server processes running and asks them for     *)
(* their statistics (daemon/DaemonServer.ts, stats/requestChildStats.ts;   *)
(* the processes' side is exposeStats of stats/metrics.ts).                *)
(*                                                                         *)
(* A process is known by its name; every spawn gives it a new child, whose *)
(* death, 'exit' event and closed IPC channel come one after the other and *)
(* not always in that order.  The package @tunli/daemon (the command       *)
(* socket, signals) is external: its handlers run when a command arrives.  *)
(***************************************************************************)
EXTENDS Integers, FiniteSets, Functions

CONSTANTS
    ProcessName,  \* names of the server processes
    Child,        \* child processes, each spawned once: bounds the restarts
    Query,        \* rounds of #collectStats, each used once
    None

ProcessStatus == {"stopped", "starting", "running", "crashed"}

\* What #collectStats notes for one process: its status and its answer or null.
Entry == [status : ProcessStatus, stats : Child \cup {None}]

ASSUME DaemonAssumption ==
    /\ None \notin Child \cup ProcessName \cup Entry
    /\ ProcessName # {}

VARIABLES
    daemon,    \* "starting", "up", "exited" (shut down), "failed" (uncaught error)
    status,    \* name -> ProcessStatus
    child,     \* name -> its latest child
    timers,    \* name -> restart timers that have not fired
    os,        \* child -> "none", "alive", "dead": what the system knows
    nameOf,    \* child -> name it was spawned for
    seen,      \* child -> events of it the daemon has handled
    connected, \* child -> its IPC channel is open
    killed,    \* children SIGTERM was sent to
    asked,     \* query -> name -> child asked, None before
    waiting,   \* query -> names whose answer is awaited
    entry,     \* query -> name -> the collected entry, None before
    reply,     \* query -> names whose child has sent its answer
    written    \* queries whose result was written to the command socket

procVars == <<daemon, status, child, timers, os, nameOf, seen, connected, killed>>
queryVars == <<asked, waiting, entry, reply, written>>
daemonVars == <<procVars, queryVars>>

PerName(v) == [p \in ProcessName |-> v]

DaemonInit ==
    /\ daemon    = "starting"
    /\ status    = PerName("stopped")
    /\ child     = PerName(None)
    /\ timers    = PerName(0)
    /\ os        = [c \in Child |-> "none"]
    /\ nameOf    = [c \in Child |-> None]
    /\ seen      = [c \in Child |-> {}]
    /\ connected = [c \in Child |-> FALSE]
    /\ killed    = {}
    /\ asked     = [q \in Query |-> PerName(None)]
    /\ waiting   = [q \in Query |-> {}]
    /\ entry     = [q \in Query |-> PerName(None)]
    /\ reply     = [q \in Query |-> {}]
    /\ written   = {}

-----------------------------------------------------------------------------
(* Spawning and supervision *)

\* The child of each name in `chosen` is spawned: new[p] for p.
Spawn(chosen, new) ==
    /\ \A p \in chosen : os[new[p]] = "none"
    /\ \A p, r \in chosen : new[p] = new[r] => p = r
    /\ status' = [p \in ProcessName |-> IF p \in chosen THEN "starting" ELSE status[p]]
    /\ child' = [p \in ProcessName |-> IF p \in chosen THEN new[p] ELSE child[p]]
    /\ LET spawned == {new[p] : p \in chosen}
       IN  /\ os' = [c \in Child |-> IF c \in spawned THEN "alive" ELSE os[c]]
           /\ connected' = [c \in Child |-> c \in spawned \/ connected[c]]
           /\ nameOf' = [c \in Child |->
                 IF c \in spawned THEN CHOOSE p \in chosen : new[p] = c ELSE nameOf[c]]

\* listen(): the command socket is up, then every process is spawned.
Listen ==
    /\ daemon = "starting"
    /\ daemon' = "up"
    /\ \E new \in [ProcessName -> Child] : Spawn(ProcessName, new)
    /\ UNCHANGED <<timers, seen, killed, queryVars>>

\* 'spawn': the system has started the child.
ChildSpawned(c) ==
    /\ daemon = "up" /\ os[c] # "none" /\ "spawn" \notin seen[c]
    /\ seen' = [seen EXCEPT ![c] = @ \cup {"spawn"}]
    /\ status' = [status EXCEPT ![nameOf[c]] = "running"]
    /\ UNCHANGED <<daemon, child, timers, os, nameOf, connected, killed, queryVars>>

\* A process crashes, exits or obeys a signal.
ChildDies(c) ==
    /\ os[c] = "alive"
    /\ os' = [os EXCEPT ![c] = "dead"]
    /\ UNCHANGED <<daemon, status, child, timers, nameOf, seen, connected, killed, queryVars>>

\* Mutant: a crash while a query waits schedules no restart.
RestartTimersIdle(p) ==
    [timers EXCEPT ![p] = IF \E q \in Query : p \in waiting[q] THEN @ ELSE @ + 1]

\* setTimeout(() => this.#spawn(proc), 1000)
RestartTimers(p) == [timers EXCEPT ![p] = @ + 1]

\* The listeners for the child's end: queries that wait for it get null.
WaitingFor(c) == {q \in Query : nameOf[c] \in waiting[q] /\ asked[q][nameOf[c]] = c}

\* 'exit': the process is marked, its restart scheduled, and the queries that
\* wait for this child are finished.
ChildExit(c) ==
    LET p == nameOf[c]
    IN  /\ daemon = "up" /\ os[c] = "dead" /\ "spawn" \in seen[c] /\ "exit" \notin seen[c]
        /\ seen' = [seen EXCEPT ![c] = @ \cup {"exit"}]
        /\ status' = [status EXCEPT ![p] = "crashed"]
        /\ timers' = RestartTimers(p)
        /\ waiting' = [q \in Query |->
              IF q \in WaitingFor(c) THEN waiting[q] \ {p} ELSE waiting[q]]
        /\ UNCHANGED <<daemon, child, os, nameOf, connected, killed, asked, entry, reply, written>>

\* The IPC channel of a dead child closes, before or after its 'exit'.
Disconnected(c) ==
    /\ daemon = "up" /\ os[c] = "dead" /\ connected[c]
    /\ connected' = [connected EXCEPT ![c] = FALSE]
    /\ UNCHANGED <<daemon, status, child, timers, os, nameOf, seen, killed, queryVars>>

\* Mutant: setInterval for setTimeout.
TimerFiredAgain(p) == timers

TimerFired(p) == [timers EXCEPT ![p] = @ - 1]

Respawn(p) ==
    /\ daemon = "up" /\ timers[p] > 0
    /\ timers' = TimerFired(p)
    /\ \E c \in Child : Spawn({p}, [r \in {p} |-> c])
    /\ UNCHANGED <<daemon, seen, killed, queryVars>>

\* The system could not spawn the child: 'error' has no listener and ends the
\* daemon, and nobody ends the other children.
SpawnError(p) ==
    /\ daemon = "up" /\ status[p] = "starting" /\ os[child[p]] = "alive"
    /\ daemon' = "failed"
    /\ os' = [os EXCEPT ![child[p]] = "dead"]
    /\ UNCHANGED <<status, child, timers, nameOf, seen, connected, killed, queryVars>>

\* Mutant: only processes that are running are signalled.
ToKillRunning == {child[p] : p \in {r \in ProcessName : status[r] = "running"}} \ {None}

ToKill == {child[p] : p \in ProcessName} \ {None}

\* The 'shutdown' command or a signal: SIGTERM to every child, then
\* process.exit, so nothing runs in the daemon afterwards.
Shutdown ==
    /\ daemon = "up"
    /\ daemon' = "exited"
    /\ killed' = killed \cup {c \in ToKill : os[c] = "alive"}
    /\ UNCHANGED <<status, child, timers, os, nameOf, seen, connected, queryVars>>

-----------------------------------------------------------------------------
(* Statistics *)

\* requestChildStats: a child without a channel is not asked.
Askable(p) == child[p] # None /\ connected[child[p]]

\* #collectStats: every process is asked at once.  The status is read before
\* the await, the statistics after it.
CollectStats(q) ==
    /\ daemon = "up" /\ entry[q] = PerName(None)
    /\ asked' = [asked EXCEPT ![q] = [p \in ProcessName |->
                                         IF Askable(p) THEN child[p] ELSE None]]
    /\ waiting' = [waiting EXCEPT ![q] = {p \in ProcessName : Askable(p)}]
    /\ entry' = [entry EXCEPT ![q] = [p \in ProcessName |->
                                         [status |-> status[p], stats |-> None]]]
    /\ UNCHANGED <<procVars, reply, written>>

\* exposeStats: the child handles the request and answers with its id.
ChildAnswers(q, p) ==
    /\ daemon = "up" /\ p \notin reply[q]
    /\ asked[q][p] # None /\ os[asked[q][p]] = "alive"
    /\ reply' = [reply EXCEPT ![q] = @ \cup {p}]
    /\ UNCHANGED <<procVars, asked, waiting, entry, written>>

\* Mutant: isStatsResponse does not compare the id.
IsStatsResponseAny(r, q) == TRUE

\* The answer to q is the one r waits for.
IsStatsResponse(r, q) == r = q

\* The answer to q arrives at everybody who listens to that child.
Answered(q, p) ==
    LET c == asked[q][p]
        hearers == {r \in WaitingFor(c) : IsStatsResponse(r, q)}
    IN  /\ daemon = "up" /\ p \in reply[q] /\ connected[c]
        /\ hearers # {}
        /\ waiting' = [r \in Query |-> IF r \in hearers THEN waiting[r] \ {p} ELSE waiting[r]]
        /\ entry' = [r \in Query |->
              IF r \in hearers THEN [entry[r] EXCEPT ![p].stats = c] ELSE entry[r]]
        /\ UNCHANGED <<procVars, asked, reply, written>>

\* Mutant: only a child that is gone is given up.
GivesUpOnDead(q, p) == os[asked[q][p]] = "dead"

\* A child that does not answer is given up after a second, a dead one also
\* when the request cannot be sent.
GivesUp(q, p) == TRUE

NotAnswered(q, p) ==
    /\ daemon = "up" /\ p \in waiting[q] /\ GivesUp(q, p)
    /\ waiting' = [waiting EXCEPT ![q] = @ \ {p}]
    /\ UNCHANGED <<procVars, asked, entry, reply, written>>

\* Promise.all has every entry.
Write(q) ==
    /\ daemon = "up" /\ entry[q] # PerName(None) /\ waiting[q] = {} /\ q \notin written
    /\ written' = written \cup {q}
    /\ UNCHANGED <<procVars, asked, waiting, entry, reply>>

DaemonNext ==
    \/ Listen \/ Shutdown
    \/ \E c \in Child : ChildSpawned(c) \/ ChildDies(c) \/ ChildExit(c) \/ Disconnected(c)
    \/ \E p \in ProcessName : Respawn(p) \/ SpawnError(p)
    \/ \E q \in Query : CollectStats(q) \/ Write(q)
    \/ \E q \in Query, p \in ProcessName :
          ChildAnswers(q, p) \/ Answered(q, p) \/ NotAnswered(q, p)

DaemonSpec == DaemonInit /\ [][DaemonNext]_daemonVars

\* Events are delivered, timers fire, a child obeys SIGTERM (none of the server
\* processes handles it); a child need neither live nor answer.
DaemonFairSpec ==
    /\ DaemonSpec
    /\ \A c \in Child : /\ WF_daemonVars(ChildSpawned(c)) /\ WF_daemonVars(ChildExit(c))
                        /\ WF_daemonVars(c \in killed /\ ChildDies(c))
    /\ \A p \in ProcessName : WF_daemonVars(Respawn(p))
    /\ \A q \in Query : /\ WF_daemonVars(Write(q))
                        /\ \A p \in ProcessName : WF_daemonVars(NotAnswered(q, p))

-----------------------------------------------------------------------------
(* Properties *)

\* No two children of one name are alive at the same time (they would listen on
\* one port): the one that is alive is the latest, and a restart is pending
\* exactly while the latest child is known to have ended.
OneChildEach ==
    /\ \A c \in Child : os[c] = "alive" => child[nameOf[c]] = c
    /\ \A p \in ProcessName :
          /\ timers[p] = 1 <=> status[p] = "crashed"
          /\ status[p] = "crashed" => os[child[p]] = "dead" /\ "exit" \in seen[child[p]]
          /\ status[p] = "running" => "exit" \notin seen[child[p]]

\* Statistics are shown for a process only if the child that was its latest when
\* the query came has answered this query, and never beside "crashed" or
\* "stopped", although the status is read a second earlier.
StatsAreOwn ==
    \A q \in Query, p \in ProcessName :
        entry[q][p] # None /\ entry[q][p].stats # None =>
            /\ entry[q][p].stats = asked[q][p] /\ nameOf[asked[q][p]] = p
            /\ p \in reply[q]
            /\ entry[q][p].status \in {"starting", "running"}

\* A process that crashed is spawned again, as long as the daemon runs.
CrashedRestarts ==
    \A p \in ProcessName :
        status[p] = "crashed" ~> \/ status[p] = "starting" \/ daemon # "up"
                                 \/ \A c \in Child : os[c] # "none"

\* Every query is answered, whether the processes answer, hang or die.
EveryQueryAnswered ==
    \A q \in Query : entry[q] # PerName(None) ~> q \in written \/ daemon # "up"

\* A shutdown leaves no server process behind, not even one that was spawned a
\* moment before or is waiting to be restarted.
ShutdownLeavesNothing ==
    daemon = "exited" ~> \A c \in Child : os[c] # "alive"
=============================================================================
