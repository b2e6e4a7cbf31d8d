----------------------------- MODULE VisitorUrl -----------------------------
(***************************************************************************)
(* Which tunnel a URL belongs to (proxy-server/utils.ts) and where a       *)
(* redirect of the local target leads (utils/httpFunctions.ts).  The       *)
(* operator's urlTemplate puts the id into the host name or into the path, *)
(* and the id has to be found again behind whatever front server stands    *)
(* before the router, also in the URL that a redirect makes of it.         *)
(*                                                                         *)
(* A host name is a sequence of pieces, a path a sequence of segments of   *)
(* which the last is "" behind a '/'.  Ports are those that are not the    *)
(* standard one of the scheme; "" is that.                                 *)
(***************************************************************************)
EXTENDS Integers, Sequences, SequencesExt

CONSTANTS
    Tunnel,        \* tunnel ids
    Template,      \* urlTemplates: [isSubdomain, before, after]
    TargetPath,    \* paths at the local target
    MaxRedirects   \* bound on the redirects that a visitor follows

\* A path has at least the '/' it begins with.
ASSUME UrlAssumption ==
    /\ Tunnel \subseteq STRING
    /\ Template \subseteq [isSubdomain : BOOLEAN, before : Seq(STRING), after : Seq(STRING)]
    /\ TargetPath \subseteq Seq(STRING) \ {<<>>}
    /\ MaxRedirects \in Nat

Scheme == {"http", "https"}
Port == {"", "8443"}
\* No front server; one that passes the Host header on; one that sets Host and
\* X-Forwarded-Host to the host name, as the example's nginx on its standard ports;
\* or one that has a Host of its own and tells the visitor's in X-Forwarded-Host.
FrontServer == {"none", "keeps", "nginx", "renames"}

Site == <<"site">>
Internal == <<"internal">>
Local == <<"local">>
Foreign == <<"foreign">>
Nowhere == [id |-> <<>>, path |-> <<>>]

VARIABLES
    template,     \* the one of proxyServer.urlTemplate
    front,        \* the front server
    targetHost,   \* what the client announced: Local, or <<>>
    page,         \* the URL the visitor is at
    origin,       \* history: scheme and port the visitor began with
    meant,        \* history: id and path at the target that it stands for; or Nowhere
    reached,      \* id and path that the proxy server made of it; Nowhere before that
    redirects     \* redirects so far

urlVars == <<template, front, targetHost, page, origin, meant, reached, redirects>>

\* interpolate(urlTemplate, {id}), and the path behind it.
Composed(t, id, path) ==
    IF t.isSubdomain THEN [host |-> t.before \o <<id>> \o t.after, path |-> path]
    ELSE [host |-> Site, path |-> t.before \o <<id>> \o t.after \o path]

\* Without a front server there is no TLS; nginx listens on the standard ports.
Reaches(f, scheme, port) ==
    (f = "none" => scheme = "http") /\ (f = "nginx" => port = "")

UrlInit ==
    /\ template \in Template /\ front \in FrontServer /\ targetHost \in {<<>>, Local}
    /\ \E scheme \in Scheme, port \in Port, id \in Tunnel, path \in TargetPath :
          /\ Reaches(front, scheme, port)
          /\ origin = [scheme |-> scheme, port |-> port]
          /\ meant = [id |-> <<id>>, path |-> path]
          /\ LET url == Composed(template, id, path)
             IN  page = [scheme |-> scheme, host |-> url.host, port |-> port, path |-> url.path]
    /\ reached = Nowhere /\ redirects = 0

\* The headers that tell where the visitor is; <<>> and "" are none.
Headers ==
    [host          |-> IF front = "renames" THEN Internal ELSE page.host,
     port          |-> IF front = "keeps" \/ front = "none" THEN page.port ELSE "",
     forwardedHost |-> IF front \in {"nginx", "renames"} THEN page.host ELSE <<>>,
     proto         |-> IF front = "none" THEN "" ELSE page.scheme]

-----------------------------------------------------------------------------
(* proxy-server/utils.ts *)

\* buildFullUrl, of which only the host name is used.
HostName == IF Headers.forwardedHost # <<>> THEN Headers.forwardedHost ELSE Headers.host

FromHost(host, path) ==
    IF IsPrefix(template.before, host) /\ IsSuffix(template.after, host)
    THEN [id |-> SubSeq(host, Len(template.before) + 1, Len(host) - Len(template.after)),
          path |-> path]
    ELSE Nowhere

Behind(rest) == SubSeq(rest, 2 + Len(template.after), Len(rest))

\* An id ends at what follows it in the template, or with the path when that is '/'.
FromPath(path) ==
    LET rest == SubSeq(path, Len(template.before) + 1, Len(path))
    IN  IF ~IsPrefix(template.before, path) \/ rest = <<>> THEN Nowhere
        ELSE IF Behind(rest) # <<>> /\ IsPrefix(template.after, Tail(rest))
             THEN [id |-> <<rest[1]>>, path |-> Behind(rest)]
             ELSE IF template.after = <<>> THEN [id |-> <<rest[1]>>, path |-> <<"">>]
                  ELSE Nowhere

Extracted(host, path) ==
    IF template.isSubdomain THEN FromHost(host, path) ELSE FromPath(path)

\* The id has to be one (isTunnelId).
Resolve ==
    /\ reached = Nowhere /\ page.host \notin {Foreign, Internal}
    /\ LET found == Extracted(HostName, page.path)
       IN  /\ \E id \in Tunnel : found.id = <<id>>
           /\ reached' = found
    /\ UNCHANGED <<template, front, targetHost, page, origin, meant, redirects>>

-----------------------------------------------------------------------------
(* utils/httpFunctions.ts *)

Proto == IF Headers.proto # "" THEN Headers.proto ELSE "http"

\* Mutant: only host name and protocol are replaced.
PublicWithPort(location) == [location EXCEPT !.scheme = Proto, !.host = Headers.host]

\* The request's Host becomes the location's host name and port.
Public(location) ==
    [location EXCEPT !.scheme = Proto, !.host = Headers.host, !.port = Headers.port]

\* A redirect elsewhere is left alone, if the client said what its target is.
Rewritten(location) ==
    IF targetHost # <<>> /\ location.host # targetHost THEN location ELSE Public(location)

\* The local target redirects by a full URL or by a path, which is left as it is, and
\* the visitor follows.
Redirect ==
    /\ reached # Nowhere /\ redirects < MaxRedirects
    /\ redirects' = redirects + 1
    /\ reached' = Nowhere
    /\ \E path \in TargetPath :
          \/ \E host \in {Local, Foreign}, scheme \in Scheme, port \in Port :
                /\ page' = Rewritten([scheme |-> scheme, host |-> host, port |-> port,
                                      path |-> path])
                /\ meant' = IF host = Local THEN [reached EXCEPT !.path = path] ELSE Nowhere
          \/ page' = [page EXCEPT !.path = path] /\ meant' = [reached EXCEPT !.path = path]
    /\ UNCHANGED <<template, front, targetHost, origin>>

UrlNext == Resolve \/ Redirect

UrlSpec == UrlInit /\ [][UrlNext]_urlVars

-----------------------------------------------------------------------------
(* Properties *)

\* Redirects that the server follows up: not with the id in the path, which a
\* redirect loses, and not with a Host header that is not the visitor's.
Followed == redirects = 0 \/ (template.isSubdomain /\ front # "renames")

\* The visitor of a tunnel's URL, and one that its target redirects to itself, gets to
\* that tunnel, at the path the target means and on the scheme and port it came on; a
\* redirect elsewhere leads there once the target is known.
RedirectsReturn ==
    Followed =>
        /\ meant # Nowhere =>
              /\ reached \in {Nowhere, meant}
              /\ Extracted(HostName, page.path) = meant
              /\ page.scheme = origin.scheme /\ page.port = origin.port
        /\ meant = Nowhere /\ targetHost # <<>> => page.host = Foreign
=============================================================================
