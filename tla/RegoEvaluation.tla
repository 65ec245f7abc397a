--------------------------- MODULE RegoEvaluation ---------------------------
(***************************************************************************)
(* One call of evaluate_policy (tool_opa.go): its arguments are read, the    *)
(* policy is compiled against the capabilities of the configuration         *)
(* (opa_capabilities.go) and evaluated by OPA under a deadline, while it     *)
(* prints and is traced; the answer is cut to its bounds and returned.       *)
(* Calls share nothing they write, so one call stands for any number.       *)
(*                                                                          *)
(* print() and the trace go to two BoundedLogs, which module                *)
(* BoundedCollector implements; the call as a whole implements              *)
(* PolicyService.                                                           *)
(***************************************************************************)
EXTENDS Naturals, Sequences

CONSTANTS
    Inputs,         \* the arguments callers send
    ResultSets,     \* what queries evaluate to
    Functions,      \* the names policies call functions by
    Builtins,       \* those that are built-ins
    Sandboxed,      \* sandboxedBuiltins
    Within,         \* Within[f]: the sandboxed names that occur in the name f
    AllowNetwork,   \* the values of AllowNetworkBuiltins
    PrintLines,     \* maxPrintLines
    TraceLines,     \* maxTraceLines
    TraceEvents,    \* maxTraceEvents
    LineBytes,      \* maxPrintLineBytes
    ResultBytes     \* maxResultBytes

Versions == {"v1", "v0"}

\* What a policy is to the compiler: whether it type checks, the versions of
\* Rego it parses as, and the functions it calls that it does not define.
Policies == [sound: BOOLEAN, parses: SUBSET Versions, uses: SUBSET Functions]

AllInputs ==
    [rego: {"absent", "tooBig", "text"}, query: {"absent", "tooBig", "text"},
     version: Versions \cup {"", "other"},
     input_json: {"absent", "tooBig", "notJSON", "value"},
     data_json: {"absent", "tooBig", "notJSON", "null", "other", "object"},
     trace: BOOLEAN, policy: Policies]

\* The encoded size of a result set, and of its value when it is a single one.
AllResultSets == [results: Nat, single: BOOLEAN, size: Nat, valueSize: Nat]

ASSUME PolicyAssumption ==
    /\ Sandboxed \subseteq Builtins /\ Builtins \subseteq Functions
    /\ "" \notin Functions
    /\ Within \in [Functions -> SUBSET Sandboxed]
    /\ \A b \in Sandboxed : Within[b] = {b}
    /\ Inputs \subseteq AllInputs
ASSUME ResultAssumption ==
    /\ ResultSets \subseteq AllResultSets
    /\ \A rs \in ResultSets : rs.single => rs.results = 1 /\ rs.valueSize < rs.size
ASSUME AllowAssumption == AllowNetwork \subseteq BOOLEAN
ASSUME LimitAssumption ==
    {PrintLines, TraceLines, TraceEvents, LineBytes, ResultBytes} \subseteq Nat \ {0}

VARIABLES
    allow,      \* AllowNetworkBuiltins
    pc,         \* "read", "compile", "eval", "failed", "format", "done"
    input,      \* the arguments
    ctxErr,     \* evalCtx.Err(): "", "deadline", "canceled"
    cancelled,  \* the caller's own context is done
    called,     \* the built-ins that ran
    cause,      \* why OPA gave up: "builtin", "interrupt"
    printed, printCut,      \* the printCollector
    events, eventsDropped,  \* the boundedTracer
    rs,         \* what OPA returned
    rendered,   \* the lines PrettyTrace made of the events, each too long or not
    result      \* what the caller was told

logs == <<printed, printCut, events, eventsDropped>>
vars == <<allow, pc, input, ctxErr, cancelled, called, cause, logs, rs, rendered,
          result>>

NoResult == [status |-> "none", why |-> "", hint |-> "", defined |-> FALSE, value |-> FALSE,
             resultSet |-> FALSE, omitted |-> FALSE, printed |-> <<>>,
             printedTruncated |-> FALSE, trace |-> <<>>, traceTruncated |-> FALSE]

NoInput == [rego |-> "absent", query |-> "absent", version |-> "", trace |-> FALSE,
            input_json |-> "absent", data_json |-> "absent",
            policy |-> [sound |-> FALSE, parses |-> {}, uses |-> {}]]

NoSet == [results |-> 0, single |-> FALSE, size |-> 0, valueSize |-> 0]

Message == [from: {"policy"}, seq: {1}, size: {LineBytes, LineBytes + 1}]

Printer == INSTANCE BoundedLog WITH
    Limit <- PrintLines, Messages <- Message, kept <- printed, lost <- printCut

\* An event is kept whole, whatever its size.
Tracer == INSTANCE BoundedLog WITH
    Limit <- TraceEvents, LineBytes <- LineBytes + 1, Messages <- Message,
    kept <- events, lost <- eventsDropped

Fail(why) ==
    /\ pc' = "done"
    /\ result' = [NoResult EXCEPT !.status = "error", !.why = why]

FailCompile(hint) ==
    /\ pc' = "done"
    /\ result' = [NoResult EXCEPT !.status = "error", !.why = "compile", !.hint = hint]
-----------------------------------------------------------------------------
(* The arguments, in the order they are read. *)

requiredString(s) == s = "text"
VersionOf(v) == IF v = "" THEN "v1" ELSE v

Accepts(a) ==
    /\ requiredString(a.rego) /\ requiredString(a.query)
    /\ VersionOf(a.version) \in Versions
    /\ a.input_json \in {"absent", "value"}
    /\ a.data_json \in {"absent", "object"}

ReadArguments ==
    /\ pc = "read"
    /\ \E a \in Inputs :
          /\ input' = a
          /\ IF Accepts(a) THEN pc' = "compile" /\ UNCHANGED result ELSE Fail("arguments")
    /\ UNCHANGED <<allow, ctxErr, cancelled, called, cause, logs, rs, rendered>>
-----------------------------------------------------------------------------
(* OPA, under the capabilities and the context it is given. *)

capabilities_Unrestricted == Builtins

capabilities == IF allow THEN Builtins ELSE Builtins \ Sandboxed

Compiles(a) ==
    /\ a.policy.sound
    /\ VersionOf(a.version) \in a.policy.parses
    /\ a.policy.uses \subseteq capabilities

\* The functions a compile error may name: those there are not, or the first of
\* them, when nothing else is wrong, any when it quotes a source that is.
Named(a) ==
    IF a.policy.sound /\ VersionOf(a.version) \in a.policy.parses
    THEN (SUBSET (a.policy.uses \ capabilities)) \ {{}} ELSE SUBSET Functions

\* The sandboxed names strings.Contains finds in the error.
Found(named) == UNION {Within[f] : f \in named}

sandboxHint_Inverted(named) ==
    IF ~allow \/ Found(named) = {} THEN {""} ELSE Found(named)

\* The note on a compile error: one of the sandboxed names found in it.
sandboxHint(named) ==
    IF allow \/ Found(named) = {} THEN {""} ELSE Found(named)

Compile ==
    /\ pc = "compile"
    /\ IF Compiles(input) THEN pc' = "eval" /\ UNCHANGED result
       ELSE \E named \in Named(input) : \E hint \in sandboxHint(named) : FailCompile(hint)
    /\ UNCHANGED <<allow, input, ctxErr, cancelled, called, cause, logs, rs, rendered>>

PrintLine ==
    /\ pc = "eval"
    /\ Printer!Next
    /\ UNCHANGED <<allow, pc, input, ctxErr, cancelled, called, cause, events,
                   eventsDropped, rs, rendered, result>>

TraceEvent ==
    /\ pc = "eval" /\ input.trace
    /\ Tracer!Next
    /\ UNCHANGED <<allow, pc, input, ctxErr, cancelled, called, cause, printed,
                   printCut, rs, rendered, result>>

CallBuiltin ==
    /\ pc = "eval"
    /\ \E b \in input.policy.uses : called' = called \cup {b}
    /\ UNCHANGED <<allow, pc, input, ctxErr, cancelled, cause, logs, rs, rendered, result>>

\* Without StrictBuiltinErrors the expression is undefined and evaluation goes on.
BuiltinFails_Undefined ==
    /\ pc = "eval" /\ called # {}
    /\ cause' = "builtin"
    /\ UNCHANGED <<allow, pc, input, ctxErr, cancelled, called, logs, rs, rendered, result>>

BuiltinFails ==
    /\ pc = "eval" /\ called # {}
    /\ cause' = "builtin"
    /\ pc' = "failed"
    /\ UNCHANGED <<allow, input, ctxErr, cancelled, called, logs, rs, rendered, result>>

\* OPA notices that its context is done.
Interrupt ==
    /\ pc = "eval" /\ ctxErr # ""
    /\ cause' = "interrupt"
    /\ pc' = "failed"
    /\ UNCHANGED <<allow, input, ctxErr, cancelled, called, logs, rs, rendered, result>>

\* OPA is done, before its context is or too late to notice.
Answer ==
    /\ pc = "eval"
    /\ rs' \in ResultSets
    /\ pc' = "format"
    /\ UNCHANGED <<allow, input, ctxErr, cancelled, called, cause, logs, rendered, result>>
-----------------------------------------------------------------------------
(* The two contexts: evalCtx keeps the first error it gets. *)

Running == pc \in {"compile", "eval", "failed", "format"}

\* The evaluation gets the caller's context, which has no deadline.
Deadline_None == FALSE /\ UNCHANGED vars

Deadline ==
    /\ Running /\ ctxErr = ""
    /\ ctxErr' = "deadline"
    /\ UNCHANGED <<allow, pc, input, cancelled, called, cause, logs, rs, rendered, result>>

\* The deadline set on a context of its own, not on the caller's.
Cancel_Detached ==
    /\ Running /\ ~cancelled
    /\ cancelled' = TRUE
    /\ UNCHANGED <<allow, pc, input, ctxErr, called, cause, logs, rs, rendered, result>>

Cancel ==
    /\ Running /\ ~cancelled
    /\ cancelled' = TRUE
    /\ ctxErr' = IF ctxErr = "" THEN "canceled" ELSE ctxErr
    /\ UNCHANGED <<allow, pc, input, called, cause, logs, rs, rendered, result>>
-----------------------------------------------------------------------------
(* The result. *)

\* ctx shadowed by the context with the deadline: then ctx.Err() is ctxErr.
Why_Shadowed == IF ctxErr = "deadline" /\ ctxErr = "" THEN "timeout" ELSE "eval"

Why == IF ctxErr = "deadline" /\ ~cancelled THEN "timeout" ELSE "eval"

ReportError ==
    /\ pc = "failed"
    /\ Fail(Why)
    /\ UNCHANGED <<allow, input, ctxErr, cancelled, called, cause, logs, rs, rendered>>

\* json.Encoder ends what it writes with a newline, which is counted.
encodesWithin_Always(size) == TRUE

encodesWithin(size) == size + 1 <= ResultBytes

\* What the query's answer looks like in the result.
AnswerPart_FromReturned(r) ==
    [defined |-> encodesWithin(r.size) /\ r.results > 0,
     resultSet |-> encodesWithin(r.size), omitted |-> ~encodesWithin(r.size),
     value |-> r.single /\ (encodesWithin(r.size) \/ encodesWithin(r.valueSize))]

AnswerPart(r) ==
    [defined |-> r.results > 0,
     resultSet |-> encodesWithin(r.size), omitted |-> ~encodesWithin(r.size),
     value |-> r.single /\ (encodesWithin(r.size) \/ encodesWithin(r.valueSize))]

\* The lines PrettyTrace may make of n events, each too long or not.
Rendered(n) == IF n = 0 THEN {<<>>} ELSE UNION {[1..i -> BOOLEAN] : i \in 1..(2 * n)}

Shorter(x, y) == IF x < y THEN x ELSE y

\* Lines that are left out at the end do not count.
TraceCut_NoLineBound(l) ==
    eventsDropped \/ \E i \in 1..Shorter(Len(l), TraceLines) : l[i]

\* Any of the three bounds: events collected, lines, bytes of a line returned.
TraceCut(l) ==
    \/ eventsDropped
    \/ Len(l) > TraceLines
    \/ \E i \in 1..Shorter(Len(l), TraceLines) : l[i]

Format ==
    /\ pc = "format"
    /\ \E l \in Rendered(Len(events)), p \in {AnswerPart(rs)} :
          /\ rendered' = l
          /\ result' = [status |-> "ok", why |-> "", hint |-> "", defined |-> p.defined,
                        value |-> p.value, resultSet |-> p.resultSet, omitted |-> p.omitted,
                        printed |-> printed, printedTruncated |-> printCut,
                        trace |-> SubSeq(l, 1, Shorter(Len(l), TraceLines)),
                        traceTruncated |-> TraceCut(l)]
    /\ pc' = "done"
    /\ UNCHANGED <<allow, input, ctxErr, cancelled, called, cause, logs, rs>>
-----------------------------------------------------------------------------
Init ==
    /\ allow \in AllowNetwork
    /\ pc = "read" /\ input = NoInput
    /\ ctxErr = "" /\ cancelled = FALSE
    /\ called = {} /\ cause = ""
    /\ Printer!Init /\ Tracer!Init
    /\ rs = NoSet /\ rendered = <<>> /\ result = NoResult

Evaluate ==
    \/ PrintLine \/ TraceEvent \/ CallBuiltin
    \/ BuiltinFails \/ Interrupt \/ Answer

Done == pc = "done" /\ UNCHANGED vars

Next ==
    \/ ReadArguments \/ Compile \/ Evaluate
    \/ Deadline \/ Cancel
    \/ ReportError \/ Format
    \/ Done

\* The timer fires, OPA compiles and notices a context that is done, and the
\* handler runs. A policy need never come to an end.
Fairness ==
    /\ WF_vars(Compile) /\ WF_vars(Deadline)
    /\ WF_vars(Interrupt) /\ WF_vars(ReportError) /\ WF_vars(Format)

Spec == Init /\ [][Next]_vars /\ Fairness
-----------------------------------------------------------------------------
LineSet == [from: {"policy"}, seq: {1}, cut: BOOLEAN]

\* Every variable has its type, and evalCtx is done whenever the caller's
\* context is.
TypeOK ==
    /\ allow \in AllowNetwork /\ input \in Inputs \cup {NoInput}
    /\ pc \in {"read", "compile", "eval", "failed", "format", "done"}
    /\ ctxErr \in {"", "deadline", "canceled"} /\ cancelled \in BOOLEAN
    /\ cancelled => ctxErr # ""
    /\ called \subseteq Builtins
    /\ cause \in {"", "builtin", "interrupt"}
    /\ result.hint \in Sandboxed \cup {""}
    /\ {printed, events} \subseteq Seq(LineSet)
    /\ {printCut, eventsDropped} \subseteq BOOLEAN
    /\ rs \in ResultSets \cup {NoSet} /\ rendered \in Seq(BOOLEAN)

\* An evaluation the deadline stopped says so, unless the caller is gone
\* (tool_opa.go:208-213).
TimeoutIsNamed ==
    pc = "done" /\ cause = "interrupt" /\ ~cancelled => result.why = "timeout"

\* Unless the operator allowed it, no built-in that leaves the process ever runs
\* (opa_capabilities.go:9-32).
SandboxHolds == called \cap Sandboxed # {} => allow

\* The sandbox, and nothing else, stops the policy: with all the built-ins it
\* would compile.
StoppedBySandbox(a) ==
    /\ a.policy.sound /\ VersionOf(a.version) \in a.policy.parses
    /\ a.policy.uses \subseteq Builtins /\ ~(a.policy.uses \subseteq capabilities)

\* A policy that only the sandbox stops is told so, with a built-in it really calls;
\* where the sandbox is off, nobody is (README.md:166, opa_capabilities.go:29-32).
\* Of what else a compiler refuses, a policy that is sound but calls functions there
\* are not is told so only where the name of one holds a sandboxed name.
SandboxIsExplained ==
    result.why = "compile" =>
        /\ allow => result.hint = ""
        /\ StoppedBySandbox(input) => result.hint \in input.policy.uses \cap Sandboxed
        /\ input.policy.sound /\ VersionOf(input.version) \in input.policy.parses =>
              \/ result.hint = ""
              \/ \E f \in input.policy.uses \ capabilities : result.hint \in Within[f]

\* Whatever was cut, the result still says whether the query had an answer, and
\* gives the answer, whole or its one value, if it is shorter than the limit, and
\* not if it is longer (tool_opa.go:50-60, 223-236). Of exactly the limit,
\* see AtTheLimit in RegoEvaluationProofs.
AnswerIsKept ==
    result.status = "ok" =>
        /\ result.defined <=> rs.results > 0
        /\ result.omitted <=> ~result.resultSet
        /\ rs.size # ResultBytes => (result.resultSet <=> rs.size < ResultBytes)
        /\ result.value => rs.single
        /\ rs.single /\ rs.valueSize # ResultBytes =>
              (result.value <=> rs.valueSize < ResultBytes)

\* Nothing a policy makes grows past its bound in what is returned: the result
\* set, its value, the printed lines and the trace (tool_opa.go:21-39).
ResultIsBounded ==
    result.status = "ok" =>
        /\ result.resultSet => rs.size <= ResultBytes
        /\ result.value => rs.valueSize <= ResultBytes
        /\ Len(result.printed) <= PrintLines
        /\ Len(result.trace) <= TraceLines

\* A trace says it was cut if it was, and only then: where the events were not all
\* collected, the lines not all returned, or one of them not to its end
\* (tool_opa.go:70-74, 340-341, 382-399).
TraceCutIsDeclared ==
    result.status = "ok" =>
        (result.traceTruncated <=>
            \/ eventsDropped
            \/ Len(rendered) > Len(result.trace)
            \/ \E i \in 1..Len(result.trace) : result.trace[i])
-----------------------------------------------------------------------------
(* Refinement: the call keeps the promise of PolicyService. *)

Verdict ==
    IF cause = "builtin" THEN "broken"
    ELSE IF pc # "format" /\ result.status # "ok" THEN "none"
    ELSE IF rs.results > 0 THEN "defined" ELSE "undefined"

Told ==
    CASE result.status = "none"  -> "none"
      [] result.status = "error" -> "error"
      [] OTHER                   -> IF result.defined THEN "defined" ELSE "undefined"

Promise == INSTANCE PolicyService WITH
    Calls    <- {"call"},
    accepted <- IF pc = "read" \/ result.why = "arguments" THEN {} ELSE {"call"},
    verdict  <- [c \in {"call"} |-> Verdict],
    told     <- [c \in {"call"} |-> Told]

\* Each step of an evaluation is a step of PolicyService or none: a built-in that
\* fails never leads to "undefined" (tool_opa.go:167-171), and what the caller is
\* told of the query's answer is what OPA found. An evaluation that began ends,
\* whatever the policy does (tool_opa.go:195-200).
ImplementsPolicyService == Promise!Spec
=============================================================================
