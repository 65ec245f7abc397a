--------------------------- MODULE DecisionService ---------------------------
(***************************************************************************)
(* What the AuthZEN tools promise the model that calls them, with no        *)
(* network, no client and no JSON in sight.                                 *)
(*                                                                          *)
(* A call asks for the decisions of a number of evaluations.  The Policy    *)
(* Decision Point may rule on all of them, once, and leave decisions out of *)
(* what it sends: those at the end, or any.  The call is then answered with *)
(* what is left, numbered from 0 - so each decision is tied to the index it *)
(* was made for if none before it was left out - or it is refused.  There   *)
(* is no third outcome: what was not ruled is never answered, an answer is  *)
(* whole only if it is all of the ruling, and none is ever taken back.      *)
(***************************************************************************)
EXTENDS Rulings

CONSTANTS
    Calls,      \* the tool calls of a session
    MaxBatch,   \* how many evaluations one call may ask for
    Decision    \* what a PDP can say about one evaluation

VARIABLES
    asked,      \* asked[c]: how many evaluations c put to the PDP, 0 before
    ruled,      \* ruled[c]: the ruling on c's evaluations, at most one, and
                \* whether it leads: nothing is left out of it but at its end
    answer      \* answer[c]: what the caller was told

vars == <<asked, ruled, answer>>

Unanswered == [outcome |-> "none", given |-> {}, whole |-> FALSE]
Refused    == [outcome |-> "refused", given |-> {}, whole |-> FALSE]

\* What can be told of a ruling.
Tellable(r) == IF r.leads THEN Leading(r.ruling) ELSE Parts(r.ruling)

\* The decisions of a list, each with its zero-based index.
Numbered(S) == {<<i - 1, S[i]>> : i \in 1..Len(S)}

\* The list S, told of n evaluations.
Decided(S, n) ==
    [outcome |-> "decided", given |-> Numbered(S), whole |-> Len(S) = n]

Init ==
    /\ asked  = [c \in Calls |-> 0]
    /\ ruled  = [c \in Calls |-> {}]
    /\ answer = [c \in Calls |-> Unanswered]

Ask(c) ==
    /\ asked[c] = 0
    /\ answer[c] = Unanswered
    /\ \E n \in 1..MaxBatch : asked' = [asked EXCEPT ![c] = n]
    /\ UNCHANGED <<ruled, answer>>

\* The PDP decides.  It may do so after the call was given up.
Rule(c) ==
    /\ asked[c] # 0
    /\ ruled[c] = {}
    /\ \E D \in [1..asked[c] -> Decision], leads \in BOOLEAN :
          ruled' = [ruled EXCEPT ![c] = {[ruling |-> D, leads |-> leads]}]
    /\ UNCHANGED <<asked, answer>>

Answer(c) ==
    /\ answer[c] = Unanswered
    /\ \E r \in ruled[c] : \E S \in Tellable(r) :
          answer' = [answer EXCEPT ![c] = Decided(S, asked[c])]
    /\ UNCHANGED <<asked, ruled>>

Refuse(c) ==
    /\ answer[c] = Unanswered
    /\ answer' = [answer EXCEPT ![c] = Refused]
    /\ UNCHANGED <<asked, ruled>>

Next == \E c \in Calls : Ask(c) \/ Rule(c) \/ Answer(c) \/ Refuse(c)

\* A call that was put to the PDP is settled, whatever the PDP does.
Settle(c) == asked[c] # 0 /\ (Answer(c) \/ Refuse(c))

Safety == Init /\ [][Next]_vars

Spec == Safety /\ \A c \in Calls : WF_vars(Settle(c))
=============================================================================
