---------------------------- MODULE RedisStorage ----------------------------
(***************************************************************************)
(* The API over Redis, with the connection under its commands (Redis.ts    *)
(* and the redis package).  enforceConnection opens the connection with    *)
(* the first command and lets every command wait for one shared promise;   *)
(* once resolved it stays so.  When the connection drops, the package      *)
(* rejects the commands it has sent, which Redis may have carried out or   *)
(* not, queues later ones, and connects again for as long as it takes.     *)
(***************************************************************************)
EXTENDS SubdomainApi

VARIABLES
    link,   \* the connection: "closed", "connecting", "ready", "broken"
    cmd     \* request -> its command: "none", "waiting", "queued", "sent", "lost"

redisVars == <<vars, link, cmd>>

RedisInit ==
    /\ Init
    /\ link = "closed"
    /\ cmd  = [r \in Req |-> "none"]

\* enforceConnection, then the command.
Issued ==
    [closed |-> "waiting", connecting |-> "waiting", ready |-> "sent", broken |-> "queued"][link]

\* The request goes on to its next command, or has been answered.
Issues(r) ==
    IF pc'[r] \in Awaiting
    THEN /\ cmd' = [cmd EXCEPT ![r] = Issued]
         /\ link' = IF link = "closed" THEN "connecting" ELSE link
    ELSE cmd' = [cmd EXCEPT ![r] = "none"] /\ UNCHANGED link

Begin(r) == (\E j \in Job : Start(r, j)) /\ Issues(r)

\* A command is rejected: the controller's promise is, and Express answers with an
\* error.  What was stored before stays.
Fail(r) ==
    /\ InFlight(r)
    /\ Goto(r, "failed")
    /\ UNCHANGED <<store, clock, began, job, sub, taken>>

\* Redis carries out a write whose reply never arrives.
Unheard(r) ==
    /\ \/ pc[r] = "register" /\ PutRegistration(r)
       \/ /\ pc[r] = "linkTarget" /\ UNCHANGED taken
          /\ Set(LinkKey(job[r].token, "target", job[r].target), sub[r])
       \/ /\ pc[r] = "linkProfile" /\ UNCHANGED taken
          /\ Set(LinkKey(job[r].token, "profile", job[r].profile), sub[r])
    /\ Goto(r, "unheard")
    /\ UNCHANGED <<clock, began, job, sub>>

Reply(r) == cmd[r] = "sent" /\ Step(r) /\ Issues(r)

ErrorReply(r) == cmd[r] = "sent" /\ Fail(r) /\ Issues(r)

\* Mutant: only commands that were queued are sent.
WokenQueued == {"queued"}

\* The promise resolves and the queue is written.
Woken == {"waiting", "queued"}

Connects ==
    /\ link \in {"connecting", "broken"}
    /\ link' = "ready"
    /\ cmd' = [r \in Req |-> IF cmd[r] \in Woken THEN "sent" ELSE cmd[r]]
    /\ UNCHANGED vars

Drops ==
    /\ link = "ready"
    /\ link' = "broken"
    /\ cmd' = [r \in Req |-> IF cmd[r] = "sent" THEN "lost" ELSE cmd[r]]
    /\ UNCHANGED vars

\* A command that went down with its connection is rejected; Redis may have had it.
Lose(r) == cmd[r] = "lost" /\ Fail(r) /\ Issues(r)

Slip(r) == cmd[r] = "lost" /\ Unheard(r) /\ UNCHANGED <<link, cmd>>

RedisRestart ==
    /\ Restart
    /\ link' = "closed"
    /\ cmd' = [r \in Req |-> "none"]

RedisNext ==
    \/ \E r \in Req : Begin(r) \/ Reply(r) \/ ErrorReply(r) \/ Lose(r) \/ Slip(r)
    \/ Connects \/ Drops \/ RedisRestart
    \/ Tick /\ UNCHANGED <<link, cmd>>

\* Redis comes back after each drop and replies while the connection lasts.
RedisFairness ==
    /\ WF_redisVars(Connects)
    /\ \A r \in Req : WF_redisVars(Reply(r)) /\ WF_redisVars(Lose(r))

RedisSpec == RedisInit /\ [][RedisNext]_redisVars /\ RedisFairness

-----------------------------------------------------------------------------
(* Properties *)

\* Every request is answered, with success or an error, or goes down with its
\* process: none is left waiting for a connection that is up again, whether its
\* command found the connection opening, open or broken.
EveryRequestAnswered ==
    \A r \in Req : InFlight(r) ~> pc[r] \in {"ok", "refused", "failed", "past"}
=============================================================================
