--------------------------- MODULE MCAuthZENTools ---------------------------
(***************************************************************************)
(* Small sessions of AuthZENTools for TLC.                                  *)
(***************************************************************************)
EXTENDS AuthZENTools, TLC

CONSTANTS p1, p2    \* two PDPs

\* Every argument a caller can send, one batch entry over the limit included.
EveryInput ==
    [tool: {"evaluate"}, pdp_url: URLs, entities: BOOLEAN, n: {1},
     semantic: {"execute_all"}]
    \cup [tool: {"batch"}, pdp_url: URLs, entities: BOOLEAN, n: 0..(MaxBatch + 1),
          semantic: Semantics \cup {"other"}]
    \cup [tool: {"discover"}, pdp_url: URLs, entities: {TRUE}, n: {0},
          semantic: {"execute_all"}]

\* What tells two concurrent calls apart: the tool, the PDP, a short batch.
FewInputs ==
    [tool: {"evaluate"}, pdp_url: {p2}, entities: {TRUE}, n: {1},
     semantic: {"execute_all"}]
    \cup [tool: {"batch"}, pdp_url: {""}, entities: {TRUE}, n: {2},
          semantic: {"deny_on_first_deny"}]
    \cup [tool: {"discover"}, pdp_url: {"bad", p2}, entities: {TRUE}, n: {0},
          semantic: {"execute_all"}]

FewFaults == {"none", "short", "missing", "redirect", "extra"}
=============================================================================
