--------------------------- MODULE EvaluationArgs ---------------------------
(***************************************************************************)
(* How a call to authzen_evaluate or authzen_evaluate_batch is read before  *)
(* anything is sent: readEvaluationArgs, readEvaluationEntries,             *)
(* validateEntities and requireMembers (tool_authzen.go) over jsonObjectArg *)
(* and optionalJSON (args.go).  The arguments are read in a fixed order and *)
(* the first fault ends the call; what passes is forwarded as it was        *)
(* written.                                                                 *)
(*                                                                          *)
(* A text is what it decodes to: nothing, something over the byte limit,    *)
(* not JSON, null, an object, or any other JSON value.  Of an object only   *)
(* the members AuthZEN requires count.                                      *)
(***************************************************************************)
EXTENDS Naturals, Sequences

CONSTANTS
    Inputs,     \* the calls
    MaxBatch    \* maxBatchEvaluations

Names == <<"subject", "action", "resource", "context">>
Entities == {"subject", "action", "resource"}

Members(name) == IF name = "action" THEN {"name"} ELSE {"type", "id"}

\* What the schema of each tool requires, as registered.
registerEvaluateTool == {"subject", "action", "resource"}
registerBatchTool == {"evaluations"}

Schema(tool) == IF tool = "batch" THEN registerBatchTool ELSE registerEvaluateTool

Kinds == {"absent", "tooBig", "notJSON", "null", "other", "object"}

\* members maps each member the object has to what it is: a non-empty "string",
\* an "empty" one, or "other".
Value(k) == [kind |-> k, members |-> <<>>]
Object(f) == [kind |-> "object", members |-> f]
Absent == Value("absent")

IsList(l) == Len(l) \in Nat /\ l = [i \in 1..Len(l) |-> l[i]]

\* An entry maps each name to the members of the entry json.Unmarshal takes for
\* it, in their order: the one spelled "exact"ly so, and any that differ in case.
IsEntry(e) ==
    e.kind = "object" =>
        /\ DOMAIN e.slots = Entities \cup {"context"}
        /\ \A n \in Entities \cup {"context"} :
              /\ IsList(e.slots[n])
              /\ \A j \in DOMAIN e.slots[n] :
                    e.slots[n][j].value.kind \in Kinds \ {"absent", "tooBig", "notJSON"}

ASSUME BatchAssumption == MaxBatch \in Nat \ {0}
ASSUME InputAssumption ==
    \A a \in Inputs :
        /\ a.tool \in {"evaluate", "batch"}
        /\ a.tool = "evaluate" => a.semantic # "other"
        /\ \A n \in Entities \cup {"context"} : a.args[n].kind \in Kinds
        /\ a.list.kind \in Kinds \cup {"array"}
        /\ IsList(a.list.entries)
        /\ \A i \in 1..Len(a.list.entries) : IsEntry(a.list.entries[i])

VARIABLES
    input,  \* the call
    at,     \* what is read next: "arguments", "entities", "list", "entries",
            \* "semantic"; or how it ended: "sent", "refused"
    k,      \* the argument or the entry read next
    fault   \* what the error result names: <<>>, <<name>> or <<name, index>>

vars == <<input, at, k, fault>>
-----------------------------------------------------------------------------
Required == input.tool = "evaluate"

\* jsonObjectArg: nothing, unless required, or a JSON object.
jsonObjectArg(v, required) == v.kind = "object" \/ (v.kind = "absent" /\ ~required)

\* An argument that may be absent is required.
requireMembers_Always(v, members) ==
    v.kind = "object" /\ \A m \in members : m \in DOMAIN v.members /\ v.members[m] = "string"

\* When there is anything: an object with every member a non-empty string. null
\* decodes to an object without members.
requireMembers(v, members) ==
    v.kind # "absent" =>
        /\ v.kind = "object"
        /\ \A m \in members : m \in DOMAIN v.members /\ v.members[m] = "string"

validateEntities(r) == \A n \in Entities : requireMembers(r[n], Members(n))

\* json.Unmarshal matches member names without regard to case, and the last
\* one it meets stays.
Decoded(e) ==
    [n \in DOMAIN e.slots |->
        IF e.slots[n] = <<>> THEN Absent ELSE e.slots[n][Len(e.slots[n])].value]

firstPresent_Swapped(entry, fallback) ==
    IF fallback.kind # "absent" THEN fallback ELSE entry

firstPresent(entry, fallback) == IF entry.kind # "absent" THEN entry ELSE fallback

Effective(e) == [n \in DOMAIN e.slots |-> firstPresent(Decoded(e)[n], input.args[n])]

EntryPasses(e) ==
    /\ e.kind = "object"
    /\ \A n \in Entities : Effective(e)[n].kind # "absent"
    /\ validateEntities(Effective(e))

ListPasses_NoLimit(l) == l.kind = "array" /\ l.entries # <<>>

ListPasses(l) == l.kind = "array" /\ Len(l.entries) \in 1..MaxBatch

Refuse(where) == at' = "refused" /\ fault' = where /\ UNCHANGED <<input, k>>

Continue(there, i) == at' = there /\ k' = i /\ UNCHANGED <<input, fault>>
-----------------------------------------------------------------------------
ReadArgument ==
    /\ at = "arguments"
    /\ LET n == Names[k] IN
       IF ~jsonObjectArg(input.args[n], Required /\ n # "context") THEN Refuse(<<n>>)
       ELSE IF k < Len(Names) THEN Continue("arguments", k + 1)
       ELSE Continue("entities", 1)

\* validateEntities, on the arguments, up to the first that fails.
CheckArgument ==
    /\ at = "entities"
    /\ LET n == Names[k] IN
       IF ~requireMembers(input.args[n], Members(n)) THEN Refuse(<<n>>)
       ELSE IF k < 3 THEN Continue("entities", k + 1)
       ELSE Continue(IF input.tool = "batch" THEN "list" ELSE "sent", 1)

ReadList ==
    /\ at = "list"
    /\ IF ListPasses(input.list) THEN Continue("entries", 1) ELSE Refuse(<<"evaluations">>)

ReadEntry ==
    /\ at = "entries"
    /\ IF ~EntryPasses(input.list.entries[k]) THEN Refuse(<<"evaluations", k>>)
       ELSE IF k < Len(input.list.entries) THEN Continue("entries", k + 1)
       ELSE Continue("semantic", k)

\* A semantic is passed on for the PDP to judge.
CheckSemantic_Forwarded ==
    /\ at = "semantic"
    /\ Continue("sent", k)

CheckSemantic ==
    /\ at = "semantic"
    /\ IF input.semantic = "other" THEN Refuse(<<"evaluations_semantic">>)
       ELSE Continue("sent", k)

Init ==
    /\ input \in Inputs
    /\ at = "arguments"
    /\ k = 1
    /\ fault = <<>>

Ended == at \in {"sent", "refused"} /\ UNCHANGED vars

Next ==
    \/ ReadArgument \/ CheckArgument
    \/ ReadList \/ ReadEntry \/ CheckSemantic
    \/ Ended

Spec == Init /\ [][Next]_vars
-----------------------------------------------------------------------------
(* What the PDP makes of what was sent: each entry's own members, spelled as *)
(* AuthZEN spells them, over the defaults.                                   *)

ReadByPDP(e) ==
    [n \in DOMAIN e.slots |->
        LET own == {j \in DOMAIN e.slots[n] : e.slots[n][j].exact}
        IN  IF own = {} THEN input.args[n]
            ELSE e.slots[n][CHOOSE j \in own : \A i \in own : i <= j].value]

Evaluations ==
    IF input.tool = "evaluate" THEN {input.args}
    ELSE {ReadByPDP(input.list.entries[i]) : i \in DOMAIN input.list.entries}

\* AuthZEN 1.0's required members, all there.
Conforms(r) ==
    \A n \in Entities :
        /\ r[n].kind = "object"
        /\ \A m \in Members(n) : m \in DOMAIN r[n].members /\ r[n].members[m] = "string"

\* Every entry spells its members as AuthZEN does.
Exact ==
    \A i \in DOMAIN input.list.entries : LET e == input.list.entries[i] IN
        \A n \in DOMAIN e.slots : \A j \in DOMAIN e.slots[n] : e.slots[n][j].exact
-----------------------------------------------------------------------------
\* Every variable has its type, and no index leaves what it indexes: a list over
\* the limit is never walked.
TypeOK ==
    /\ input.tool \in {"evaluate", "batch"}
    /\ at \in {"arguments", "entities", "list", "entries", "semantic", "sent", "refused"}
    /\ at = "arguments" => k \in 1..4
    /\ at = "entities" => k \in 1..3
    /\ at \in {"entries", "semantic"} =>
          k \in DOMAIN input.list.entries /\ Len(input.list.entries) <= MaxBatch

\* When every member is spelled exactly, what is sent is a request each of whose
\* evaluations the PDP reads with every required member: the ones its entry
\* leaves to the defaults included (tool_authzen.go:428-450).
SentConforms == at = "sent" /\ Exact => \A r \in Evaluations : Conforms(r)

\* An error names what is wrong: an argument that is not what the tool asks
\* for, or the entry that does not conform once it has the defaults, and not a
\* default some entry did without (tool_authzen.go:206-209, 467-473).
RefusalNamesTheFault ==
    at = "refused" /\ Exact =>
        CASE Len(fault) = 2 ->
               LET e == input.list.entries[fault[2]]
               IN  e.kind # "object" \/ ~Conforms(ReadByPDP(e))
          [] fault[1] \in Entities ->
               LET v == input.args[fault[1]]
               IN  \/ v.kind = "absent" /\ input.tool = "evaluate"
                   \/ v.kind \notin {"absent", "object"}
                   \/ \E m \in Members(fault[1]) :
                         v.kind = "object" /\ (m \notin DOMAIN v.members \/ v.members[m] # "string")
          [] fault[1] = "context" -> input.args["context"].kind \notin {"absent", "object"}
          [] fault = <<"evaluations">> ->
               input.list.kind # "array" \/ Len(input.list.entries) \notin 1..MaxBatch
          [] OTHER -> input.semantic = "other"

\* The schema the model reads and the checks a handler makes agree, though each is
\* written by hand: a call that leaves out what its tool's schema requires, or is
\* outside its enum, is refused whatever its other arguments are, and a call is
\* refused for want of an argument only if the schema requires it
\* (tool_authzen.go:85-101, 168-195).
SchemaIsEnforced ==
    LET kind(n) == IF n = "evaluations" THEN input.list.kind ELSE input.args[n].kind
        missing == {n \in Schema(input.tool) : kind(n) = "absent"}
    IN  /\ at = "sent" => missing = {} /\ input.semantic # "other"
        /\ at = "refused" /\ Len(fault) = 1 /\ fault[1] # "evaluations_semantic"
              /\ kind(fault[1]) = "absent" => fault[1] \in missing

\* README.md:133: required members are validated before the request is sent.
MembersAreValidated == at = "sent" => \A r \in Evaluations : Conforms(r)

\* tool_authzen.go:428-429: what the PDP will evaluate, the entry over the
\* defaults, is what gets checked; its context is an object too (args.go:50-54).
ContextIsChecked ==
    at = "sent" => \A r \in Evaluations : r["context"].kind \in {"absent", "object"}
=============================================================================
