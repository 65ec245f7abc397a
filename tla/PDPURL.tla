------------------------------- MODULE PDPURL -------------------------------
(***************************************************************************)
(* Where a tool call sends its request: validatePDPURL, resolveEndpoint,    *)
(* rootOf, resolveFromRoot and batchEndpointFrom (authzen.go,               *)
(* tool_authzen.go), over a session in which the model chains calls by      *)
(* passing the URLs one result carries as pdp_url of the next.              *)
(*                                                                          *)
(* A path is the sequence of its segments: "" is <<>>, "/" is <<"">> and    *)
(* "/a/" is <<"a", "">>, so strings.HasSuffix and TrimSuffix on a suffix    *)
(* that begins with "/" are exact.                                          *)
(***************************************************************************)
EXTENDS Naturals, SequencesExt

CONSTANTS
    Segments,   \* what paths are made of
    Mounts,     \* the paths PDPs are mounted under
    Configured, \* values of AUTHZEN_PDP_URL, each with the mount it means
    Offered     \* URLs the model makes up

pathEvaluation  == <<"access", "v1", "evaluation">>
pathEvaluations == <<"access", "v1", "evaluations">>
pathMetadata    == <<".well-known", "authzen-configuration">>

EndpointPaths == <<pathEvaluations, pathEvaluation, pathMetadata>>

\* A URL: its scheme and host, whether it has userinfo, its decoded path, and
\* whether its text spells a slash of the path as %2F. A query or a fragment
\* decides nothing here.
URLs == [scheme: STRING, host: STRING, user: BOOLEAN, path: Seq(Segments),
         escaped: BOOLEAN]

NoURL == [scheme |-> "", host |-> "", user |-> FALSE, path |-> <<>>,
          escaped |-> FALSE]

\* The paths that mean the PDP mounted at m: its endpoints, and, unless it looks
\* like an endpoint itself, its root.
Means(m, p) ==
    \/ \E i \in DOMAIN EndpointPaths : p = m \o EndpointPaths[i]
    \/ /\ p \in {m, Append(m, "")}
       /\ \A i \in DOMAIN EndpointPaths : ~IsSuffix(EndpointPaths[i], m)

ASSUME SegmentAssumption ==
    /\ "access" \in Segments /\ "v1" \in Segments
    /\ "evaluation" \in Segments /\ "evaluations" \in Segments
    /\ ".well-known" \in Segments /\ "authzen-configuration" \in Segments
ASSUME SlashAssumption == "" \in Segments
ASSUME MountAssumption ==
    \A m \in Mounts : m \in Seq(Segments) /\ (m # <<>> => Last(m) # "")
ASSUME ConfiguredAssumption ==
    \A c \in Configured :
        c.mount \in Mounts /\ c.url \in URLs /\ (c.url = NoURL \/ Means(c.mount, c.url.path))

\* A URL made up for the configured host is one of the PDP's, or no good at all.
ASSUME OfferedAssumption ==
    \A u \in Offered :
        /\ u \in URLs
        /\ \A c \in Configured : u.host = c.url.host =>
              u.host = "" \/ u.user \/ Means(c.mount, u.path)

VARIABLES
    mount,      \* where the configured PDP is mounted
    config,     \* AUTHZEN_PDP_URL
    seen,       \* the URLs the model can pass as pdp_url
    call        \* [tool, override, url]: the last call and where it was sent

vars == <<mount, config, seen, call>>

Valid_Userinfo(u) == u.scheme \in {"http", "https"} /\ u.host # ""
Valid_AnyScheme(u) == u.host # "" /\ ~u.user

Valid(u) == u.scheme \in {"http", "https"} /\ u.host # "" /\ ~u.user

\* What rootOf and resolveFromRoot do last: assign u.Path, clear the query and the
\* fragment, and return u.String(). The RawPath they leave alone no longer decodes
\* to another path, and String, net/url's, then drops the original spelling.
WithPath(u, p) == [u EXCEPT !.path = p, !.escaped = u.escaped /\ p = u.path]

TrimSlash(p) == IF p # <<>> /\ Last(p) = "" THEN Front(p) ELSE p

TrimSuffix(p, s) == IF IsSuffix(s, p) THEN SubSeq(p, 1, Len(p) - Len(s)) ELSE p

\* Without the break: every endpoint path, in turn.
StripEndpoint_NoBreak(p) ==
    TrimSuffix(TrimSuffix(TrimSuffix(p, pathMetadata), pathEvaluations), pathEvaluation)

\* The first known endpoint path the path ends in, and only that one.
StripEndpoint(p) ==
    LET known == {i \in DOMAIN EndpointPaths : IsSuffix(EndpointPaths[i], p)}
    IN  IF known = {} THEN p ELSE TrimSuffix(p, EndpointPaths[Min(known)])

rootOf(u) == WithPath(u, TrimSlash(StripEndpoint(u.path)))

resolveFromRoot(root, path) == WithPath(root, TrimSlash(root.path) \o path)

batchEndpointFrom(u) == resolveFromRoot(rootOf(u), pathEvaluations)

Override(u) == IF u # NoURL THEN u ELSE config

\* The URL a tool sends its request to for the pdp_url argument u.
Endpoint(tool, u) ==
    CASE tool = "evaluate" -> Override(u)
      [] tool = "batch"    -> IF u # NoURL THEN u ELSE batchEndpointFrom(config)
      [] tool = "discover" -> resolveFromRoot(rootOf(Override(u)), pathMetadata)

\* What the model can read off the result: the endpoint, and from the metadata
\* of the configured PDP the two endpoints it publishes.
Shown(tool, url) ==
    {url} \cup
    IF tool = "discover" /\ url.path = mount \o pathMetadata
    THEN {WithPath(url, mount \o p) : p \in {pathEvaluation, pathEvaluations}}
    ELSE {}

Call(tool, u) ==
    /\ Override(u) # NoURL /\ Valid(Override(u))
    /\ call' = [tool |-> tool, override |-> u, url |-> Endpoint(tool, u)]
    /\ seen' = seen \cup Shown(tool, Endpoint(tool, u))
    /\ UNCHANGED <<mount, config>>

\* The configured or given URL is refused, and nothing is sent.
Refuse(tool, u) ==
    /\ Override(u) = NoURL \/ ~Valid(Override(u))
    /\ call' = [tool |-> tool, override |-> u, url |-> NoURL]
    /\ UNCHANGED <<mount, config, seen>>

Init ==
    /\ \E u \in Configured : mount = u.mount /\ config = u.url
    /\ seen = Offered
    /\ call = [tool |-> "none", override |-> NoURL, url |-> NoURL]

Next ==
    \E tool \in {"evaluate", "batch", "discover"}, u \in seen \cup {NoURL} :
        Call(tool, u) \/ Refuse(tool, u)

Spec == Init /\ [][Next]_vars
-----------------------------------------------------------------------------
Sent == call.url # NoURL

\* The endpoint is derived, not named by the call.
Derived == call.tool = "discover" \/ (call.tool = "batch" /\ call.override = NoURL)

\* Every variable has its type; a URL a result shows is an HTTP one.
TypeOK ==
    /\ mount \in Mounts
    /\ \A u \in seen \cup {config} : u.path \in Seq(Segments) /\ u.escaped \in BOOLEAN
    /\ \A u \in seen \ Offered : u.scheme \in {"http", "https"}
    /\ call.tool \in {"none", "evaluate", "batch", "discover"}

\* No request goes to a host with userinfo in its URL or to no host, whether
\* the URL was configured, made up, shown by a result or derived from one
\* (authzen.go:140-160).
RequestsAreValid == Sent => call.url.host # "" /\ ~call.url.user

\* Chaining never leaves the PDP: a request goes to the host its call names or
\* the configuration does, and at the configured PDP, from whichever of its
\* URLs, configured or shown by an earlier result, authzen_discover asks the
\* metadata and authzen_evaluate_batch the evaluations endpoint of the mount
\* (authzen.go:312-314, tool_authzen.go:325-328).
ChainingStaysOnMount ==
    Sent =>
        /\ call.url.host = Override(call.override).host
        /\ call.url.host = config.host /\ Derived =>
              call.url.path = mount \o
                (IF call.tool = "discover" THEN pathMetadata ELSE pathEvaluations)

\* README.md:122: a PDP mounted under a prefix keeps its prefix, as configured.
PrefixIsKept ==
    Sent /\ call.tool = "discover" /\ call.override = NoURL =>
        call.url.escaped = config.escaped
=============================================================================
