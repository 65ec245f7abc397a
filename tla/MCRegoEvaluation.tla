-------------------------- MODULE MCRegoEvaluation --------------------------
(***************************************************************************)
(* Policies good and bad, one of them with a built-in misspelt, with every   *)
(* argument right or wrong once, and result sets at, under and over the     *)
(* limit.                                                                   *)
(***************************************************************************)
EXTENDS RegoEvaluation

MCFunctions == {"count", "http.send", "opa.runtime", "http.sendd"}
MCSandboxed == {"http.send", "opa.runtime"}

MCWithin ==
    [f \in MCFunctions |-> IF f = "http.sendd" THEN {"http.send"} ELSE {f} \cap MCSandboxed]

Policy(sound, parses, uses) == [sound |-> sound, parses |-> parses, uses |-> uses]

Plain == Policy(TRUE, {"v1"}, {"count"})

Good == [rego |-> "text", query |-> "text", version |-> "v1", input_json |-> "value",
         data_json |-> "object", trace |-> FALSE, policy |-> Plain]

FaultyArguments ==
    {[Good EXCEPT !.rego = x] : x \in {"absent", "tooBig"}}
    \cup {[Good EXCEPT !.query = x] : x \in {"absent", "tooBig"}}
    \cup {[Good EXCEPT !.version = "other"]}
    \cup {[Good EXCEPT !.input_json = x] : x \in {"tooBig", "notJSON"}}
    \cup {[Good EXCEPT !.data_json = x] : x \in {"tooBig", "notJSON", "null", "other"}}

SoundArguments ==
    {[Good EXCEPT !.version = v, !.trace = t, !.policy = Policy(s, {p}, {b})] :
        v \in {"", "v1", "v0"}, t \in BOOLEAN, s \in BOOLEAN, p \in Versions,
        b \in {"count", "http.send"}}

Misspelt ==
    {[Good EXCEPT !.policy = Policy(TRUE, {"v1"}, uses)] :
        uses \in {{"http.sendd"}, {"http.sendd", "opa.runtime"}, {"http.send", "opa.runtime"}}}

MCInputs == FaultyArguments \cup SoundArguments \cup Misspelt

\* Undefined, several results, and a single value.
MCResultSets ==
    {[results |-> 0, single |-> FALSE, size |-> 1, valueSize |-> 0]}
    \cup {[results |-> 2, single |-> FALSE, size |-> s, valueSize |-> 0] :
             s \in (ResultBytes - 1)..(ResultBytes + 1)}
    \cup {[results |-> 1, single |-> TRUE, size |-> s, valueSize |-> v] :
             s \in (ResultBytes - 1)..(ResultBytes + 2), v \in {1}}
    \cup {[results |-> 1, single |-> TRUE, size |-> ResultBytes + 2, valueSize |-> v] :
             v \in (ResultBytes - 1)..(ResultBytes + 1)}
=============================================================================
