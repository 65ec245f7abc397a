------------------------------ MODULE MCPDPURL ------------------------------
(***************************************************************************)
(* PDPs at the origin, under a prefix, and under a prefix that ends like an *)
(* AuthZEN path, configured by any of their URLs.                           *)
(***************************************************************************)
EXTENDS PDPURL

MCSegments == {"access", "v1", "evaluation", "evaluations", ".well-known",
               "authzen-configuration", "", "pdp", "gw", "a", "b"}

LookAlike == <<"gw", "access", "v1", "evaluation">>

MCMounts == {<<>>, <<"pdp">>, LookAlike}

URL(h, p, e) ==
    [scheme |-> "https", host |-> h, user |-> FALSE, path |-> p, escaped |-> e]

\* A PDP is configured by an endpoint, or by its root - with or without the
\* trailing slash - unless the root looks like an endpoint itself.
Forms(m) ==
    {m \o pathEvaluation, m \o pathEvaluations, m \o pathMetadata}
    \cup IF m = LookAlike THEN {} ELSE {m, Append(m, "")}

MCConfigured ==
    UNION {{[mount |-> m, url |-> URL("pdp", p, FALSE)] : p \in Forms(m)} : m \in MCMounts}
    \cup {[mount |-> <<>>, url |-> NoURL]}

MCOffered ==
    {[URL("pdp", pathEvaluation, FALSE) EXCEPT !.user = TRUE],
     [URL("", pathEvaluation, FALSE) EXCEPT !.scheme = ""],
     [URL("other", pathEvaluation, FALSE) EXCEPT !.scheme = "ftp"],
     URL("other", <<"a", "">>, FALSE)}

EscapedConfigured ==
    {[mount |-> <<"a", "b">>, url |-> URL("pdp", <<"a", "b">> \o pathEvaluation, TRUE)]}

PlainMounts == MCMounts \cup {<<"a", "b">>}

NoOffer == {}
=============================================================================
