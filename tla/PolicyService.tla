---------------------------- MODULE PolicyService ----------------------------
(***************************************************************************)
(* What evaluate_policy promises the model that calls it, with no compiler, *)
(* no deadline and no limit in sight.                                       *)
(*                                                                          *)
(* A call whose arguments are in order is accepted.  Its query then has an  *)
(* answer, has none, or the policy turns out to be broken.  The caller is   *)
(* told the first two as they are, or gets an error: a broken policy is     *)
(* never told as one that does not allow, and nobody waits for good.        *)
(***************************************************************************)
CONSTANT Calls

VARIABLES
    accepted,   \* the calls whose arguments were in order
    verdict,    \* verdict[c]: what came of c's query
    told        \* told[c]: what its caller was told

vars == <<accepted, verdict, told>>

Answers  == {"defined", "undefined"}
Verdicts == Answers \cup {"none", "broken"}

Init ==
    /\ accepted = {}
    /\ verdict = [c \in Calls |-> "none"]
    /\ told    = [c \in Calls |-> "none"]

Accept(c) ==
    /\ c \notin accepted /\ told[c] = "none"
    /\ accepted' = accepted \cup {c}
    /\ UNCHANGED <<verdict, told>>

Decide(c) ==
    /\ c \in accepted /\ told[c] = "none" /\ verdict[c] = "none"
    /\ \E v \in Answers \cup {"broken"} : verdict' = [verdict EXCEPT ![c] = v]
    /\ UNCHANGED <<accepted, told>>

Tell(c) ==
    /\ told[c] = "none" /\ verdict[c] \in Answers
    /\ told' = [told EXCEPT ![c] = verdict[c]]
    /\ UNCHANGED <<accepted, verdict>>

Refuse(c) ==
    /\ told[c] = "none"
    /\ told' = [told EXCEPT ![c] = "error"]
    /\ UNCHANGED <<accepted, verdict>>

Next == \E c \in Calls : Accept(c) \/ Decide(c) \/ Tell(c) \/ Refuse(c)

\* An accepted call is settled, whatever its policy does.
Settle(c) == c \in accepted /\ (Tell(c) \/ Refuse(c))

Safety == Init /\ [][Next]_vars

Spec == Safety /\ \A c \in Calls : WF_vars(Settle(c))
=============================================================================
