----------------------------- MODULE UpgradeHops -----------------------------
(***************************************************************************)
(* An upgraded connection (a WebSocket) on its way through the router      *)
(* (server-router.ts) and the proxy server (TunnelUpgradeMiddleware.ts).   *)
(* Each hop has a socket below, accepted by its HTTP server, and one above *)
(* that it opens itself, and pipes each into the other.  Connections end   *)
(* by a FIN of either side or by a reset, and the hops have to carry       *)
(* either one to the other end, whichever way and moment it comes.         *)
(***************************************************************************)
Forwarder == {"router", "proxy"}
Accepted == [router |-> "routerBelow", proxy |-> "proxyBelow"]
Opened == [router |-> "routerAbove", proxy |-> "proxyAbove"]

Socket == {"visitor", "routerBelow", "routerAbove", "proxyBelow", "proxyAbove", "relay"}
EndPoint == {"visitor", "relay"}

\* The other end of the connection, and the other socket of the hop.
Peer == [visitor |-> "routerBelow", routerBelow |-> "visitor",
         routerAbove |-> "proxyBelow", proxyBelow |-> "routerAbove",
         proxyAbove |-> "relay", relay |-> "proxyAbove"]
Twin == [routerBelow |-> "routerAbove", routerAbove |-> "routerBelow",
         proxyBelow |-> "proxyAbove", proxyAbove |-> "proxyBelow"]

VARIABLES
    life,    \* socket -> "none", "connecting", "open", "closed"
    fin,     \* sockets that sent a FIN
    eof,     \* sockets that read one
    signal   \* socket -> "none", or the "fin" or "rst" on its way to it

upgradeVars == <<life, fin, eof, signal>>

UpgradeInit ==
    /\ life   = [x \in Socket |-> "none"]
    /\ fin    = {}
    /\ eof    = {}
    /\ signal = [x \in Socket |-> "none"]

-----------------------------------------------------------------------------
(* Sockets *)

Net == [life |-> life, fin |-> fin, eof |-> eof, signal |-> signal]

Becomes(net) ==
    /\ life' = net.life /\ fin' = net.fin
    /\ eof' = net.eof /\ signal' = net.signal

Signalled(net, x, how) ==
    IF net.life[x] = "open" /\ net.signal[x] # "rst" THEN [net EXCEPT !.signal[x] = how] ELSE net

\* end(): a FIN, once; a socket that is through both ways closes.  A socket that
\* is not connected yet only remembers.
Ended(net, x) ==
    IF net.life[x] \notin {"open", "connecting"} \/ x \in net.fin THEN net
    ELSE LET ending == [net EXCEPT !.fin = @ \cup {x},
                                   !.life[x] = IF x \in net.eof THEN "closed" ELSE @]
         IN  IF net.life[x] = "open" THEN Signalled(ending, Peer[x], "fin") ELSE ending

\* destroy(), and what the system does with the sockets of a dead process.
Destroyed(net, x, how) ==
    IF net.life[x] = "open" THEN Signalled([net EXCEPT !.life[x] = "closed"], Peer[x], how)
    ELSE IF net.life[x] = "connecting" THEN [net EXCEPT !.life[x] = "closed"] ELSE net

-----------------------------------------------------------------------------
(* The hops *)

\* A visitor asks for an upgrade, and the router connects to the proxy.
Upgrade ==
    /\ life["visitor"] = "none"
    /\ life' = [life EXCEPT !["visitor"] = "open", !["routerBelow"] = "open",
                            !["routerAbove"] = "connecting"]
    /\ UNCHANGED <<fin, eof, signal>>

\* 'connect': both pipes are attached; one whose source has ended by then ends
\* its destination.
Piped(h, net) == IF Accepted[h] \in eof THEN Ended(net, Opened[h]) ELSE net

\* The proxy accepts: without a tunnel id it ends the socket, else it connects.
RouterConnected ==
    /\ life["routerAbove"] = "connecting"
    /\ LET net == [Net EXCEPT !.life["routerAbove"] = "open", !.life["proxyBelow"] = "open"]
       IN  \/ Becomes(Piped("router", [net EXCEPT !.life["proxyAbove"] = "connecting"]))
           \/ Becomes(Piped("router", Ended(net, "proxyBelow")))

\* Writing the request into a socket that was ended meanwhile is an error.
ProxyConnected ==
    /\ life["proxyAbove"] = "connecting"
    /\ Becomes(IF "proxyAbove" \in fin
               THEN Ended([Net EXCEPT !.life["proxyAbove"] = "closed"], "proxyBelow")
               ELSE Piped("proxy", [Net EXCEPT !.life["proxyAbove"] = "open",
                                               !.life["relay"] = "open"]))

\* Mutant: the router leaves the visitor alone.
OnErrorNothing(net, x, how) ==
    IF x \in {"routerBelow", "routerAbove"} THEN net ELSE Ended(net, Twin[x])

\* 'error': the router destroys the other socket, the proxy ends it.
OnError(net, x, how) ==
    IF x \in {"routerBelow", "routerAbove"} THEN Destroyed(net, Twin[x], how)
    ELSE Ended(net, Twin[x])

ConnectFails(h) ==
    /\ life[Opened[h]] = "connecting"
    /\ \E how \in {"fin", "rst"} :
          Becomes(OnError([Net EXCEPT !.life[Opened[h]] = "closed"], Opened[h], how))

Attached(h) == life[Opened[h]] \in {"open", "closed"} /\ life[Accepted[h]] # "none"

\* 'end': the pipe ends the other socket.  An accepted socket stays half open, one
\* that was opened ends itself too.
OnEnd(h, x) ==
    /\ x \in {Accepted[h], Opened[h]}
    /\ life[x] = "open" /\ signal[x] = "fin"
    /\ LET net   == [Net EXCEPT !.signal[x] = "none", !.eof = @ \cup {x},
                                !.life[x] = IF x \in fin THEN "closed" ELSE @]
           piped == IF Attached(h) THEN Ended(net, Twin[x]) ELSE net
       IN  Becomes(IF x = Opened[h] THEN Ended(piped, x) ELSE piped)

OnReset(h, x) ==
    /\ x \in {Accepted[h], Opened[h]}
    /\ life[x] = "open" /\ signal[x] = "rst"
    /\ \E how \in {"fin", "rst"} :
          Becomes(OnError([Net EXCEPT !.signal[x] = "none", !.life[x] = "closed"], x, how))

\* 'close', which only the proxy listens to.
OnClose(x) ==
    /\ x \in {"proxyBelow", "proxyAbove"}
    /\ life[x] = "closed" /\ life[Twin[x]] \in {"open", "connecting"} /\ Twin[x] \notin fin
    /\ Becomes(Ended(Net, Twin[x]))

\* The process of a hop dies.
ForwarderDies(h) ==
    /\ life[Accepted[h]] = "open" \/ life[Opened[h]] = "open"
    /\ \E how \in {"fin", "rst"} :
          Becomes(Destroyed(Destroyed(Net, Accepted[h], how), Opened[h], how))

-----------------------------------------------------------------------------
(* The two ends *)

EndEnds(x) ==
    /\ life[x] = "open" /\ x \notin fin
    /\ Becomes(Ended(Net, x))

EndResets(x) ==
    /\ life[x] = "open"
    /\ Becomes(Destroyed(Net, x, "rst"))

\* What an end makes of a signal: a FIN is read, a reset closes.
Told(x) ==
    [Net EXCEPT !.signal[x] = "none",
                !.eof = IF signal[x] = "fin" THEN @ \cup {x} ELSE @,
                !.life[x] = IF signal[x] = "rst" \/ x \in fin THEN "closed" ELSE @]

\* A visitor that is told of the end answers in kind.
VisitorTold ==
    /\ life["visitor"] = "open" /\ signal["visitor"] # "none"
    /\ Becomes(Ended(Told("visitor"), "visitor"))

\* The relay passes the end on to the client (request-pipe-end) and keeps its own
\* side open: that one ends by the client or its disconnect, which is EndEnds.
RelayTold ==
    /\ life["relay"] = "open" /\ signal["relay"] # "none"
    /\ Becomes(Told("relay"))

ForwarderStep(h) ==
    \/ ConnectFails(h)
    \/ \E x \in Socket \ EndPoint : OnEnd(h, x) \/ OnReset(h, x)

UpgradeNext ==
    \/ Upgrade \/ RouterConnected \/ ProxyConnected
    \/ \E h \in Forwarder : ForwarderStep(h) \/ ForwarderDies(h)
    \/ \E x \in {"proxyBelow", "proxyAbove"} : OnClose(x)
    \/ \E x \in EndPoint : EndEnds(x) \/ EndResets(x)
    \/ VisitorTold \/ RelayTold

\* Event loops turn, a connect succeeds or fails, and a visitor that is told of the
\* end gives up its own.  Nobody has to end first, and the relay never has to.
UpgradeFairness ==
    /\ WF_upgradeVars(RouterConnected) /\ WF_upgradeVars(ProxyConnected)
    /\ \A h \in Forwarder, x \in Socket \ EndPoint : WF_upgradeVars(OnEnd(h, x) \/ OnReset(h, x))
    /\ \A x \in Socket \ EndPoint : WF_upgradeVars(OnClose(x))
    /\ WF_upgradeVars(VisitorTold) /\ WF_upgradeVars(RelayTold)

UpgradeSpec == UpgradeInit /\ [][UpgradeNext]_upgradeVars /\ UpgradeFairness

-----------------------------------------------------------------------------
(* Properties *)

\* The relay has passed the visitor's end on to a client that has not ended yet.
WaitsForClient == life["relay"] = "open" /\ "relay" \in eof /\ "relay" \notin fin

\* Once any socket of the chain has ended or is gone, all of them close, or the
\* end reaches the relay, which then waits for its client: no hop keeps half a
\* connection for itself, before or after it is established, and when the relay
\* ends as well nothing of it is left.
UpgradeEndsBoth ==
    (\E x \in Socket : x \in fin \/ life[x] = "closed")
        ~> \/ \A x \in Socket : life[x] \in {"none", "closed"}
           \/ WaitsForClient
=============================================================================
