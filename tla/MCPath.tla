------------------------------- MODULE MCPath -------------------------------
(* What lies between a visitor and the tunnel's client, apart from the relay:  *)
(* the URL, the two hops of a request, those of an upgraded connection, and    *)
(* the uploads that share one connection to the client.  None of the four      *)
(* reads the state of another one, so each behaviour is one of one part, which *)
(* runs while the others rest in their initial state.                          *)
EXTENDS ProxyHops, UpgradeHops, TunnelWriter, VisitorUrl

VARIABLE part

pathVars == <<hopsVars, upgradeVars, writerVars, urlVars, part>>

(* Two templates with the id in the host name, two with it in the path. *)
MCTemplate ==
    {[isSubdomain |-> TRUE,  before |-> <<>>,     after |-> <<"zone">>],
     [isSubdomain |-> TRUE,  before |-> <<"t-">>, after |-> <<"zone">>],
     [isSubdomain |-> FALSE, before |-> <<>>,     after |-> <<>>],
     [isSubdomain |-> FALSE, before |-> <<"t">>,  after |-> <<"x">>]}

(* Paths that look like a part of a template or like another tunnel's. *)
MCTargetPath == {<<"">>, <<"x", "">>, <<"t", "t1">>}

PathInit ==
    /\ part \in {"hops", "upgrade", "writer", "url"}
    /\ HopsInit /\ UpgradeInit /\ WriterInit /\ UrlInit
    /\ part # "hops" => framing = [v \in Visitor |-> "chunked"]
    /\ part # "url" =>
          /\ page = [scheme |-> "https", host |-> <<"t1", "zone">>, port |-> "", path |-> <<"">>]
          /\ front = "nginx" /\ targetHost = Local

PathNext ==
    \/ part = "hops" /\ HopsNext /\ UNCHANGED <<upgradeVars, writerVars, urlVars, part>>
    \/ part = "upgrade" /\ UpgradeNext /\ UNCHANGED <<hopsVars, writerVars, urlVars, part>>
    \/ part = "writer" /\ WriterNext /\ UNCHANGED <<hopsVars, upgradeVars, urlVars, part>>
    \/ part = "url" /\ UrlNext /\ UNCHANGED <<hopsVars, upgradeVars, writerVars, part>>

(* What is fair in a part is not enabled while it rests. *)
PathSpec ==
    PathInit /\ [][PathNext]_pathVars /\ HopsFairness /\ UpgradeFairness /\ WriterFairness
=============================================================================
