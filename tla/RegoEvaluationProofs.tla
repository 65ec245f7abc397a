------------------------ MODULE RegoEvaluationProofs ------------------------
(***************************************************************************)
(* What one evaluation promises, for any policies, result sets, built-ins   *)
(* and limits; and that it implements PolicyService.                        *)
(***************************************************************************)
EXTENDS RegoEvaluation, SequenceTheorems, TLAPS

\* What a policy calls is what its compiler let through.
CompiledInv ==
    /\ pc \in {"eval", "failed", "format"} \/ result.status = "ok" => Compiles(input)
    /\ called \subseteq capabilities

\* Why OPA gave up is known as long as it did, and evalCtx is cancelled by its
\* caller only.
CauseInv ==
    /\ cause = "" <=> pc \notin {"failed", "done"} \/ (pc = "done" /\ result.why \notin {"timeout", "eval"})
    /\ cause = "interrupt" => ctxErr # ""
    /\ ctxErr = "canceled" => cancelled

\* There is a result at the end and not before.
StageInv ==
    /\ pc # "done" => result = NoResult
    /\ pc = "done" => result.status \in {"error", "ok"}
    /\ result.why \in {"", "arguments", "compile", "timeout", "eval"}
    /\ result.status = "ok" <=> pc = "done" /\ result.why = ""
    /\ pc = "format" => rs \in ResultSets
    /\ pc # "read" => input \in Inputs

\* The logs are bounded while they are written.
LogInv == Len(printed) <= PrintLines /\ Len(events) <= TraceEvents

\* A result is made of what OPA returned and of the logs.
OkInv ==
    result.status = "ok" =>
        /\ rs \in ResultSets
        /\ result.defined = AnswerPart(rs).defined
        /\ result.value = AnswerPart(rs).value
        /\ result.resultSet = AnswerPart(rs).resultSet
        /\ result.omitted = AnswerPart(rs).omitted
        /\ result.printed = printed
        /\ result.trace \in Seq(BOOLEAN) /\ Len(result.trace) <= TraceLines

\* The note on a compile error is no accident: there is one where every name that
\* is missing holds a sandboxed one, even of a policy the sandbox does not stop.
BlameInv ==
    /\ result.why = "compile" /\ ~allow
    /\ input.policy.sound /\ VersionOf(input.version) \in input.policy.parses
    /\ \A f \in input.policy.uses \ capabilities : Within[f] # {}
    => result.hint # ""

IInv ==
    /\ TypeOK /\ CompiledInv /\ CauseInv /\ StageInv /\ LogInv /\ OkInv
    /\ TimeoutIsNamed /\ SandboxIsExplained /\ BlameInv /\ TraceCutIsDeclared

LEMMA InitHolds == Init => IInv
  <1> SUFFICES ASSUME Init PROVE IInv
    OBVIOUS
  <1>0. result = NoResult /\ result.status = "none" /\ result.why = "" /\ result.hint = ""
    BY DEF Init, NoResult
  <1>e. printed = <<>> /\ events = <<>> /\ printCut = FALSE /\ eventsDropped = FALSE
    BY DEF Init, Printer!Init, Tracer!Init
  <1>c. printed \in Seq(LineSet) /\ events \in Seq(LineSet)
    BY <1>e
  <1>d. printCut \in BOOLEAN /\ eventsDropped \in BOOLEAN
    BY <1>e
  <1>a. {printed, events} \subseteq Seq(LineSet) /\ {printCut, eventsDropped} \subseteq BOOLEAN
    BY <1>c, <1>d
  <1>f. rendered \in Seq(BOOLEAN)
    BY EmptySeq DEF Init
  <1>1. TypeOK
    BY <1>0, <1>a, <1>f DEF Init, TypeOK
  <1>2. CompiledInv /\ CauseInv /\ StageInv
    BY <1>0 DEF Init, CompiledInv, CauseInv, StageInv
  <1>b. PrintLines \in Nat /\ TraceEvents \in Nat
    BY LimitAssumption
  <1>3. LogInv
    BY <1>e, <1>b DEF LogInv
  <1>4. /\ OkInv /\ TimeoutIsNamed
        /\ SandboxIsExplained /\ BlameInv /\ TraceCutIsDeclared
    BY <1>0 DEF Init, OkInv, TimeoutIsNamed, SandboxIsExplained, BlameInv, TraceCutIsDeclared
  <1> QED BY <1>1, <1>2, <1>3, <1>4 DEF IInv

\* Steps that end the call with an error.
LEMMA FailSets ==
    ASSUME NEW why, Fail(why)
    PROVE  /\ pc' = "done" /\ result'.status = "error" /\ result'.why = why
           /\ result'.hint = ""
  BY DEF Fail, NoResult

LEMMA ReadKeeps == IInv /\ ReadArguments => IInv'
  <1> SUFFICES ASSUME IInv, ReadArguments PROVE IInv'
    OBVIOUS
  <1> USE DEF logs
  <1>1. PICK a \in Inputs :
          /\ input' = a
          /\ IF Accepts(a) THEN pc' = "compile" /\ UNCHANGED result ELSE Fail("arguments")
    BY DEF ReadArguments
  <1>2. /\ pc = "read" /\ result = NoResult
        /\ UNCHANGED <<allow, ctxErr, cancelled, called, cause, printed, printCut,
                       events, eventsDropped, rs, rendered>>
    BY DEF ReadArguments, IInv, StageInv
  <1>3. NoResult.status = "none" /\ NoResult.why = "" /\ NoResult.hint = ""
    BY DEF NoResult
  <1>4. \/ pc' = "compile" /\ result' = NoResult
        \/ /\ pc' = "done" /\ result'.status = "error" /\ result'.why = "arguments"
           /\ result'.hint = ""
    BY <1>1, <1>2, FailSets
  <1>5. TypeOK'
    BY <1>1, <1>2, <1>3, <1>4 DEF IInv, TypeOK
  <1>6. CompiledInv'
    BY <1>2, <1>3, <1>4 DEF IInv, CompiledInv, capabilities
  <1>7. CauseInv' /\ StageInv'
    BY <1>1, <1>2, <1>3, <1>4 DEF IInv, CauseInv, StageInv
  <1>8. LogInv'
    BY <1>2 DEF IInv, LogInv
  <1>9. OkInv' /\ TimeoutIsNamed' /\ SandboxIsExplained' /\ BlameInv' /\ TraceCutIsDeclared'
    BY <1>2, <1>3, <1>4, <1>7
    DEF IInv, OkInv, TimeoutIsNamed, SandboxIsExplained, BlameInv, TraceCutIsDeclared, CauseInv
  <1> QED BY <1>5, <1>6, <1>7, <1>8, <1>9 DEF IInv

\* The note of a compile error, by what the policy calls.
LEMMA HintTells ==
    ASSUME input \in Inputs, ~Compiles(input), allow \in BOOLEAN,
           NEW named \in Named(input), NEW hint \in sandboxHint(named)
    PROVE  /\ hint \in Sandboxed \cup {""}
           /\ allow => hint = ""
           /\ StoppedBySandbox(input) => hint \in input.policy.uses \cap Sandboxed
           /\ input.policy.sound /\ VersionOf(input.version) \in input.policy.parses =>
                 \/ hint = ""
                 \/ \E f \in input.policy.uses \ capabilities : hint \in Within[f]
           /\ /\ ~allow
              /\ input.policy.sound /\ VersionOf(input.version) \in input.policy.parses
              /\ \A f \in input.policy.uses \ capabilities : Within[f] # {}
              => hint # ""
  <1> DEFINE parsed == input.policy.sound /\ VersionOf(input.version) \in input.policy.parses
             missing == input.policy.uses \ capabilities
  <1>1. /\ input.policy.uses \subseteq Functions
        /\ Within \in [Functions -> SUBSET Sandboxed]
        /\ \A b \in Sandboxed : Within[b] = {b}
        /\ "" \notin Sandboxed /\ Sandboxed \subseteq Builtins
    BY PolicyAssumption DEF AllInputs, Policies
  <1>2. allow => hint = ""
    BY DEF sandboxHint
  <1>3. hint = "" \/ hint \in Found(named)
    BY DEF sandboxHint
  <1>4. named \subseteq Functions
    BY <1>1 DEF Named
  <1>5. Found(named) \subseteq Sandboxed
    <2>1. \A f \in named : Within[f] \subseteq Sandboxed
      BY <1>1, <1>4
    <2> QED BY <2>1 DEF Found
  <1>6. ASSUME parsed PROVE named \subseteq missing /\ named # {}
    <2>1. named \in (SUBSET missing) \ {{}}
      BY <1>6 DEF Named
    <2> HIDE DEF missing
    <2>2. named \in SUBSET missing /\ named # {}
      BY <2>1
    <2> QED BY <2>2
  <1>7. parsed => hint = "" \/ \E f \in missing : hint \in Within[f]
    BY <1>3, <1>6 DEF Found
  <1>8. ASSUME parsed, ~allow, \A f \in missing : Within[f] # {}
        PROVE  hint # ""
    <2>1. PICK f \in named : f \in missing
      BY <1>6, <1>8
    <2>2. Found(named) # {}
      BY <1>8, <2>1 DEF Found
    <2>3. hint \in Found(named)
      BY <1>8, <2>2 DEF sandboxHint
    <2> QED BY <1>1, <1>5, <2>3
  <1>9. ASSUME StoppedBySandbox(input)
        PROVE  hint \in input.policy.uses \cap Sandboxed
    <2>1. parsed /\ ~allow /\ capabilities = Builtins \ Sandboxed
      BY <1>9 DEF StoppedBySandbox, capabilities
    <2>2. missing \subseteq Sandboxed
      BY <1>9, <2>1 DEF StoppedBySandbox
    <2>3. PICK f \in missing : hint \in Within[f]
      BY <1>1, <1>7, <1>8, <2>1, <2>2
    <2> QED BY <1>1, <2>2, <2>3
  <1> QED BY <1>2, <1>3, <1>5, <1>7, <1>8, <1>9

LEMMA CompileKeeps == IInv /\ Compile => IInv'
  <1> SUFFICES ASSUME IInv, Compile PROVE IInv'
    OBVIOUS
  <1> USE DEF logs
  <1>1. /\ pc = "compile" /\ result = NoResult /\ cause = ""
        /\ UNCHANGED <<allow, input, ctxErr, cancelled, called, cause, printed, printCut,
                       events, eventsDropped, rs, rendered>>
    BY DEF Compile, IInv, StageInv, CauseInv
  <1>2. NoResult.status = "none" /\ NoResult.why = "" /\ NoResult.hint = ""
    BY DEF NoResult
  <1>3. capabilities' = capabilities /\ Compiles(input)' = Compiles(input)
    BY <1>1 DEF capabilities, Compiles
  <1>a. allow \in BOOLEAN
    BY AllowAssumption DEF IInv, TypeOK
  <1>4. CASE Compiles(input)
    <2>1. pc' = "eval" /\ result' = NoResult
      BY <1>1, <1>4 DEF Compile
    <2>2. TypeOK' /\ LogInv'
      BY <1>1, <1>2, <2>1 DEF IInv, TypeOK, LogInv
    <2>3. CompiledInv'
      BY <1>1, <1>3, <1>4 DEF IInv, CompiledInv
    <2>4. CauseInv' /\ StageInv'
      BY <1>1, <1>2, <2>1 DEF IInv, CauseInv, StageInv
    <2>5. OkInv' /\ TimeoutIsNamed' /\ SandboxIsExplained' /\ BlameInv' /\ TraceCutIsDeclared'
      BY <1>1, <1>2, <2>1
      DEF OkInv, TimeoutIsNamed, SandboxIsExplained, BlameInv, TraceCutIsDeclared
    <2> QED BY <2>2, <2>3, <2>4, <2>5 DEF IInv
  <1>5. CASE ~Compiles(input)
    <2>1. PICK named \in Named(input) : \E hint \in sandboxHint(named) : FailCompile(hint)
      BY <1>5 DEF Compile
    <2>2. PICK hint \in sandboxHint(named) : FailCompile(hint)
      BY <2>1
    <2>3. /\ pc' = "done" /\ result'.status = "error" /\ result'.why = "compile"
          /\ result'.hint = hint
      BY <2>2 DEF FailCompile, NoResult
    <2>a. input \in Inputs
      BY <1>1 DEF IInv, StageInv, TypeOK
    <2>4. hint \in Sandboxed \cup {""}
      BY <1>5, <1>a, <2>a, HintTells
    <2>5. TypeOK' /\ LogInv'
      BY <1>1, <2>3, <2>4 DEF IInv, TypeOK, LogInv
    <2>6. CompiledInv'
      BY <1>1, <1>3, <2>3 DEF IInv, CompiledInv
    <2>7. CauseInv' /\ StageInv'
      BY <1>1, <2>3 DEF IInv, CauseInv, StageInv
    <2>8. OkInv' /\ TimeoutIsNamed' /\ TraceCutIsDeclared'
      BY <1>1, <2>3 DEF OkInv, TimeoutIsNamed, TraceCutIsDeclared
    <2>9. SandboxIsExplained' /\ BlameInv'
      <3>1. (StoppedBySandbox(input))' <=> StoppedBySandbox(input)
        BY <1>1, <1>3 DEF StoppedBySandbox
      <3>2. input' = input /\ allow' = allow /\ result'.hint = hint
        BY <1>1, <2>3
      <3>3. SandboxIsExplained'
        BY <1>3, <1>5, <1>a, <2>a, <3>1, <3>2, HintTells DEF SandboxIsExplained
      <3>4. BlameInv'
        BY <1>3, <1>5, <1>a, <2>a, <3>2, HintTells DEF BlameInv
      <3> QED BY <3>3, <3>4
    <2> QED BY <2>5, <2>6, <2>7, <2>8, <2>9 DEF IInv
  <1> QED BY <1>4, <1>5

\* What a log holds once it kept a message or lost one, within its limit.
LEMMA PrinterKeeps ==
    ASSUME TypeOK, Len(printed) <= PrintLines, Printer!Next
    PROVE  /\ printed' \in Seq(LineSet) /\ Len(printed') <= PrintLines
           /\ printCut' \in BOOLEAN
  <1>a. PrintLines \in Nat /\ printed \in Seq(LineSet) /\ printCut \in BOOLEAN
    BY LimitAssumption DEF TypeOK
  <1>1. ASSUME NEW m \in Message, Printer!Keep(m)
        PROVE  /\ printed' \in Seq(LineSet) /\ Len(printed') <= PrintLines
               /\ printCut' \in BOOLEAN
    <2> DEFINE L == LineSet
               line == Printer!Line(m)
    <2>1. line \in L
      BY DEF Printer!Line, Message, LineSet
    <2>2. Len(printed) < PrintLines /\ printed' = Append(printed, line)
      BY <1>1 DEF Printer!Keep
    <2>3. printCut' = (printCut \/ line.cut)
      BY <1>1 DEF Printer!Keep
    <2>4. printCut' \in BOOLEAN
      BY <2>3, Zenon
    <2> HIDE DEF L, line
    <2>5. printed \in Seq(L)
      BY <1>a DEF L
    <2>6. printed' \in Seq(L) /\ Len(printed') = Len(printed) + 1
      BY <2>1, <2>2, <2>5
    <2>7. Len(printed') <= PrintLines
      BY <1>a, <2>2, <2>5, <2>6
    <2> QED BY <2>4, <2>6, <2>7 DEF L
  <1>2. ASSUME Printer!Lose
        PROVE  /\ printed' \in Seq(LineSet) /\ Len(printed') <= PrintLines
               /\ printCut' \in BOOLEAN
    BY <1>2, <1>a DEF Printer!Lose
  <1> QED BY <1>1, <1>2 DEF Printer!Next

LEMMA TracerKeeps ==
    ASSUME TypeOK, Len(events) <= TraceEvents, Tracer!Next
    PROVE  /\ events' \in Seq(LineSet) /\ Len(events') <= TraceEvents
           /\ eventsDropped' \in BOOLEAN
  <1>a. TraceEvents \in Nat /\ events \in Seq(LineSet) /\ eventsDropped \in BOOLEAN
    BY LimitAssumption DEF TypeOK
  <1>1. ASSUME NEW m \in Message, Tracer!Keep(m)
        PROVE  /\ events' \in Seq(LineSet) /\ Len(events') <= TraceEvents
               /\ eventsDropped' \in BOOLEAN
    <2> DEFINE L == LineSet
               line == Tracer!Line(m)
    <2>1. line \in L
      BY DEF Tracer!Line, Message, LineSet
    <2>2. Len(events) < TraceEvents /\ events' = Append(events, line)
      BY <1>1 DEF Tracer!Keep
    <2>3. eventsDropped' = (eventsDropped \/ line.cut)
      BY <1>1 DEF Tracer!Keep
    <2>4. eventsDropped' \in BOOLEAN
      BY <2>3, Zenon
    <2> HIDE DEF L, line
    <2>5. events \in Seq(L)
      BY <1>a DEF L
    <2>6. events' \in Seq(L) /\ Len(events') = Len(events) + 1
      BY <2>1, <2>2, <2>5
    <2>7. Len(events') <= TraceEvents
      BY <1>a, <2>2, <2>5, <2>6
    <2> QED BY <2>4, <2>6, <2>7 DEF L
  <1>2. ASSUME Tracer!Lose
        PROVE  /\ events' \in Seq(LineSet) /\ Len(events') <= TraceEvents
               /\ eventsDropped' \in BOOLEAN
    BY <1>2, <1>a DEF Tracer!Lose
  <1> QED BY <1>1, <1>2 DEF Tracer!Next

LEMMA NoResultTells ==
    NoResult.status = "none" /\ NoResult.why = "" /\ NoResult.hint = ""
  BY DEF NoResult

\* While OPA evaluates nothing is known of the end.
LEMMA EvalKnows ==
    ASSUME IInv, pc \in {"eval", "failed", "format"}
    PROVE  /\ result = NoResult /\ result.status = "none" /\ result.why = ""
           /\ input \in Inputs /\ Compiles(input)
  <1>1. result = NoResult /\ input \in Inputs /\ Compiles(input)
    BY DEF IInv, StageInv, CompiledInv
  <1> QED BY <1>1, NoResultTells

LEMMA LogsKeep == IInv /\ (PrintLine \/ TraceEvent) => IInv'
  <1> SUFFICES ASSUME IInv, PrintLine \/ TraceEvent PROVE IInv'
    OBVIOUS
  <1>1. /\ pc = "eval"
        /\ UNCHANGED <<allow, pc, input, ctxErr, cancelled, called, cause, rs, rendered,
                       result>>
    BY DEF PrintLine, TraceEvent
  <1>2. \/ Printer!Next /\ UNCHANGED <<events, eventsDropped>>
        \/ Tracer!Next /\ UNCHANGED <<printed, printCut>>
    BY DEF PrintLine, TraceEvent
  <1>3. /\ printed' \in Seq(LineSet) /\ Len(printed') <= PrintLines
        /\ printCut' \in BOOLEAN
    BY <1>2, PrinterKeeps DEF IInv, LogInv, TypeOK
  <1>4. /\ events' \in Seq(LineSet) /\ Len(events') <= TraceEvents
        /\ eventsDropped' \in BOOLEAN
    BY <1>2, TracerKeeps DEF IInv, LogInv, TypeOK
  <1>5. result = NoResult /\ result.status = "none" /\ result.why = ""
    BY <1>1, EvalKnows
  <1>6. TypeOK'
    BY <1>1, <1>3, <1>4 DEF IInv, TypeOK
  <1>7. CompiledInv' /\ CauseInv' /\ StageInv'
    BY <1>1 DEF IInv, CompiledInv, CauseInv, StageInv, capabilities, Compiles
  <1>8. LogInv'
    BY <1>3, <1>4 DEF LogInv
  <1>9. OkInv' /\ TimeoutIsNamed' /\ SandboxIsExplained'
    BY <1>1, <1>5 DEF IInv, OkInv, TimeoutIsNamed, SandboxIsExplained
  <1>10. BlameInv' /\ TraceCutIsDeclared'
    BY <1>1, <1>5, NoResultTells DEF BlameInv, TraceCutIsDeclared
  <1> QED BY <1>6, <1>7, <1>8, <1>9, <1>10 DEF IInv

\* What the logs' variables leave alone.
LEMMA LogsStay ==
    ASSUME IInv, UNCHANGED logs
    PROVE  /\ {printed, events}' \subseteq Seq(LineSet)
           /\ {printCut, eventsDropped}' \subseteq BOOLEAN
           /\ LogInv'
  BY DEF IInv, TypeOK, LogInv, logs

LEMMA OPAKeeps == IInv /\ (CallBuiltin \/ BuiltinFails \/ Interrupt \/ Answer) => IInv'
  <1> SUFFICES ASSUME IInv, CallBuiltin \/ BuiltinFails \/ Interrupt \/ Answer PROVE IInv'
    OBVIOUS
  <1>1. /\ pc = "eval"
        /\ UNCHANGED <<allow, input, ctxErr, cancelled, logs, rendered, result>>
    BY DEF CallBuiltin, BuiltinFails, Interrupt, Answer
  <1>2. /\ result = NoResult /\ result.status = "none" /\ result.why = ""
        /\ input \in Inputs /\ Compiles(input) /\ cause = ""
    BY <1>1, EvalKnows DEF IInv, CauseInv
  <1>3. \/ pc' = "eval" /\ cause' = "" /\ called' \subseteq called \cup input.policy.uses /\ rs' = rs
        \/ pc' = "failed" /\ cause' = "builtin" /\ called' = called /\ rs' = rs
        \/ pc' = "failed" /\ cause' = "interrupt" /\ ctxErr # "" /\ called' = called /\ rs' = rs
        \/ pc' = "format" /\ cause' = "" /\ called' = called /\ rs' \in ResultSets
    BY <1>1, <1>2 DEF CallBuiltin, BuiltinFails, Interrupt, Answer
  <1>4. input.policy.uses \subseteq capabilities /\ capabilities \subseteq Builtins
    BY <1>2 DEF Compiles, capabilities
  <1>5. called' \subseteq capabilities
    BY <1>3, <1>4 DEF IInv, CompiledInv
  <1>6. TypeOK' /\ LogInv'
    <2>1. called' \subseteq Builtins /\ rs' \in ResultSets \cup {NoSet}
      BY <1>3, <1>4, <1>5 DEF IInv, TypeOK
    <2> QED BY <1>1, <1>3, <2>1, LogsStay DEF IInv, TypeOK
  <1>7. CompiledInv'
    BY <1>1, <1>2, <1>5 DEF CompiledInv, capabilities, Compiles
  <1>8. CauseInv' /\ StageInv'
    BY <1>1, <1>2, <1>3 DEF IInv, CauseInv, StageInv
  <1>9. OkInv' /\ TimeoutIsNamed' /\ SandboxIsExplained' /\ BlameInv' /\ TraceCutIsDeclared'
    BY <1>1, <1>2, <1>3
    DEF OkInv, TimeoutIsNamed, SandboxIsExplained, BlameInv, TraceCutIsDeclared
  <1> QED BY <1>6, <1>7, <1>8, <1>9 DEF IInv

LEMMA ContextKeeps == IInv /\ (Deadline \/ Cancel) => IInv'
  <1> SUFFICES ASSUME IInv, Deadline \/ Cancel PROVE IInv'
    OBVIOUS
  <1>1. /\ pc \in {"compile", "eval", "failed", "format"}
        /\ UNCHANGED <<allow, pc, input, called, cause, logs, rs, rendered, result>>
    BY DEF Deadline, Cancel, Running
  <1>2. \/ ctxErr = "" /\ ctxErr' = "deadline" /\ cancelled' = cancelled
        \/ cancelled' = TRUE /\ ctxErr' = IF ctxErr = "" THEN "canceled" ELSE ctxErr
    BY DEF Deadline, Cancel
  <1>3. result = NoResult /\ result.status = "none" /\ result.why = ""
    BY <1>1, NoResultTells DEF IInv, StageInv
  <1>4. TypeOK' /\ LogInv'
    <2>1. cancelled' \in BOOLEAN /\ ctxErr' \in {"", "deadline", "canceled"}
          /\ (cancelled' => ctxErr' # "")
      BY <1>2 DEF IInv, TypeOK
    <2> QED BY <1>1, <2>1, LogsStay DEF IInv, TypeOK
  <1>5. CompiledInv'
    BY <1>1 DEF IInv, CompiledInv, capabilities, Compiles
  <1>6. CauseInv' /\ StageInv'
    BY <1>1, <1>2 DEF IInv, TypeOK, CauseInv, StageInv
  <1>7. OkInv' /\ TimeoutIsNamed' /\ SandboxIsExplained' /\ BlameInv' /\ TraceCutIsDeclared'
    BY <1>1, <1>3
    DEF OkInv, TimeoutIsNamed, SandboxIsExplained, BlameInv, TraceCutIsDeclared
  <1> QED BY <1>4, <1>5, <1>6, <1>7 DEF IInv

LEMMA ReportKeeps == IInv /\ ReportError => IInv'
  <1> SUFFICES ASSUME IInv, ReportError PROVE IInv'
    OBVIOUS
  <1>1. /\ pc = "failed"
        /\ UNCHANGED <<allow, input, ctxErr, cancelled, called, cause, logs, rs, rendered>>
    BY DEF ReportError
  <1>2. /\ pc' = "done" /\ result'.status = "error" /\ result'.hint = ""
        /\ result'.why = IF ctxErr = "deadline" /\ ~cancelled THEN "timeout" ELSE "eval"
    BY FailSets DEF ReportError, Why
  <1>3. cause # "" /\ input \in Inputs /\ Compiles(input)
    BY <1>1, EvalKnows DEF IInv, CauseInv
  <1>4. TypeOK' /\ LogInv'
    BY <1>1, <1>2, LogsStay DEF IInv, TypeOK
  <1>5. CompiledInv'
    BY <1>1, <1>2 DEF IInv, CompiledInv, capabilities
  <1>6. CauseInv' /\ StageInv'
    BY <1>1, <1>2, <1>3 DEF IInv, CauseInv, StageInv
  <1>7. TimeoutIsNamed'
    BY <1>1, <1>2 DEF IInv, CauseInv, TypeOK, TimeoutIsNamed
  <1>8. OkInv' /\ SandboxIsExplained' /\ BlameInv' /\ TraceCutIsDeclared'
    BY <1>2 DEF OkInv, SandboxIsExplained, BlameInv, TraceCutIsDeclared
  <1> QED BY <1>4, <1>5, <1>6, <1>7, <1>8 DEF IInv

\* A trace is cut to its bound, and says so if it or one of its lines was.
LEMMA CutTraceTells ==
    ASSUME NEW l \in Rendered(Len(events)), events \in Seq(LineSet),
           eventsDropped \in BOOLEAN,
           NEW t, t = SubSeq(l, 1, Shorter(Len(l), TraceLines))
    PROVE  /\ l \in Seq(BOOLEAN) /\ t \in Seq(BOOLEAN) /\ Len(t) <= TraceLines
           /\ TraceCut(l) <=>
                 eventsDropped \/ Len(l) > Len(t) \/ \E i \in 1..Len(t) : t[i]
  <1> DEFINE k == Shorter(Len(l), TraceLines)
  <1>a. TraceLines \in Nat
    BY LimitAssumption
  <1>1. l \in Seq(BOOLEAN)
    <2>1. l = <<>> \/ l \in UNION {[1..i -> BOOLEAN] : i \in 1..(2 * Len(events))}
      BY DEF Rendered
    <2>2. ASSUME NEW i \in 1..(2 * Len(events)), l \in [1..i -> BOOLEAN]
          PROVE  l \in Seq(BOOLEAN)
      <3>1. i \in Nat
        BY <2>2
      <3>2. l \in UNION {[1..n -> BOOLEAN] : n \in Nat}
        BY <2>2, <3>1
      <3>3. Seq(BOOLEAN) = UNION {[1..n -> BOOLEAN] : n \in Nat}
        BY SeqDef
      <3> QED BY <3>2, <3>3, Zenon
    <2>3. <<>> \in Seq(BOOLEAN)
      BY EmptySeq, Zenon
    <2> QED BY <2>1, <2>2, <2>3, Zenon
  <1>2. Len(l) \in Nat /\ k \in 0..Len(l) /\ k <= TraceLines
    BY <1>a, <1>1 DEF Shorter
  <1> HIDE DEF k
  <1>3. t = SubSeq(l, 1, k)
    BY DEF k
  <1>4. t \in Seq(BOOLEAN) /\ Len(t) = k /\ \A i \in 1..k : t[i] = l[i]
    <2>1. k \in Int /\ 1 \in Int /\ k - 1 + 1 = k /\ (k < 1 => k = 0)
      BY <1>2
    <2>2. \A i \in 1..k : i \in 1..Len(l) /\ 1 + i - 1 = i
      BY <1>2
    <2>3. \A i \in 1..k : l[i] \in BOOLEAN
      BY <1>1, <2>2, ElementOfSeq, Zenon
    <2>4. /\ SubSeq(l, 1, k) \in Seq(BOOLEAN)
          /\ Len(SubSeq(l, 1, k)) = IF 1 <= k THEN k - 1 + 1 ELSE 0
          /\ \A i \in 1..k - 1 + 1 : SubSeq(l, 1, k)[i] = l[1 + i - 1]
      <3>1. k \in Int /\ 1 \in Int
        BY <2>1
      <3> QED BY <3>1, <2>3, SubSeqProperties
    <2>5. Len(SubSeq(l, 1, k)) = k
      BY <2>1, <2>4
    <2>6. \A i \in 1..k : SubSeq(l, 1, k)[i] = l[i]
      BY <2>1, <2>2, <2>4
    <2> QED BY <1>3, <2>4, <2>5, <2>6, Zenon
  <1>5. Len(l) > TraceLines <=> Len(l) > k
    BY <1>a, <1>2 DEF Shorter, k
  <1>6. TraceCut(l) <=> eventsDropped \/ Len(l) > k \/ \E i \in 1..k : l[i]
    BY <1>5, Zenon DEF TraceCut, k
  <1>7. (\E i \in 1..k : l[i]) <=> (\E i \in 1..k : t[i])
    BY <1>4, Zenon
  <1>8. TraceCut(l) <=> eventsDropped \/ Len(l) > Len(t) \/ \E i \in 1..Len(t) : t[i]
    BY <1>4, <1>6, <1>7, Zenon
  <1> QED BY <1>1, <1>2, <1>4, <1>8

LEMMA FormatMakesOk ==
    ASSUME Format
    PROVE  result'.status = "ok" /\ result'.why = "" /\ result'.hint = ""
  <1>1. PICK d, v, set, o, p, pt, t, tt :
          result' = [status |-> "ok", why |-> "", hint |-> "", defined |-> d, value |-> v,
                     resultSet |-> set, omitted |-> o, printed |-> p,
                     printedTruncated |-> pt, trace |-> t, traceTruncated |-> tt]
    BY Zenon DEF Format
  <1> QED BY <1>1

LEMMA FormatKeeps == IInv /\ Format => IInv'
  <1> SUFFICES ASSUME IInv, Format PROVE IInv'
    OBVIOUS
  <1>1. /\ pc = "format" /\ pc' = "done"
        /\ UNCHANGED <<allow, input, ctxErr, cancelled, called, cause, logs, rs>>
    BY DEF Format
  <1>2. cause = "" /\ rs \in ResultSets /\ input \in Inputs /\ Compiles(input)
    BY <1>1, EvalKnows DEF IInv, CauseInv, StageInv
  <1>3. PICK l \in Rendered(Len(events)), p \in {AnswerPart(rs)} :
          /\ rendered' = l
          /\ result' = [status |-> "ok", why |-> "", hint |-> "", defined |-> p.defined,
                        value |-> p.value, resultSet |-> p.resultSet, omitted |-> p.omitted,
                        printed |-> printed, printedTruncated |-> printCut,
                        trace |-> SubSeq(l, 1, Shorter(Len(l), TraceLines)),
                        traceTruncated |-> TraceCut(l)]
    BY DEF Format
  <1> DEFINE shown == SubSeq(l, 1, Shorter(Len(l), TraceLines))
             isCut == TraceCut(l)
  <1> HIDE DEF shown, isCut
  <1>r. result' = [status |-> "ok", why |-> "", hint |-> "", defined |-> p.defined,
                   value |-> p.value, resultSet |-> p.resultSet, omitted |-> p.omitted,
                   printed |-> printed, printedTruncated |-> printCut,
                   trace |-> shown, traceTruncated |-> isCut]
    BY <1>3, Zenon DEF shown, isCut
  <1>f. /\ result'.status = "ok" /\ result'.why = "" /\ result'.hint = ""
        /\ result'.printed = printed
        /\ result'.trace = shown /\ result'.traceTruncated = isCut
        /\ result'.defined = p.defined /\ result'.value = p.value
        /\ result'.resultSet = p.resultSet /\ result'.omitted = p.omitted
    BY <1>r
  <1>4. /\ result'.status = "ok" /\ result'.why = "" /\ result'.hint = ""
        /\ result'.printed = printed
        /\ result'.trace = SubSeq(l, 1, Shorter(Len(l), TraceLines))
        /\ result'.traceTruncated = TraceCut(l)
    BY <1>f, Zenon DEF shown, isCut
  <1>5. /\ result'.defined = AnswerPart(rs).defined /\ result'.value = AnswerPart(rs).value
        /\ result'.resultSet = AnswerPart(rs).resultSet
        /\ result'.omitted = AnswerPart(rs).omitted
    <2>1. p = AnswerPart(rs)
      OBVIOUS
    <2> QED BY <1>f, <2>1, Zenon
  <1>6. /\ l \in Seq(BOOLEAN)
        /\ result'.trace \in Seq(BOOLEAN) /\ Len(result'.trace) <= TraceLines
        /\ TraceCut(l) <=> \/ eventsDropped \/ Len(l) > Len(result'.trace)
                           \/ \E i \in 1..Len(result'.trace) : result'.trace[i]
    BY <1>4, CutTraceTells DEF IInv, TypeOK
  <1>7. TypeOK' /\ LogInv'
    <2>1. rendered' = l
      BY <1>3
    <2> QED BY <1>1, <1>4, <1>6, <2>1, LogsStay DEF IInv, TypeOK
  <1>8. CompiledInv'
    BY <1>1, <1>2 DEF IInv, CompiledInv, capabilities, Compiles
  <1>9. CauseInv' /\ StageInv'
    BY <1>1, <1>2, <1>4 DEF IInv, CauseInv, StageInv
  <1>10. OkInv'
    <2>1. AnswerPart(rs)' = AnswerPart(rs) /\ rs' = rs /\ printed' = printed
          /\ eventsDropped' = eventsDropped
      BY <1>1 DEF AnswerPart, encodesWithin, logs
    <2> QED BY <1>2, <1>4, <1>5, <1>6, <2>1 DEF OkInv
  <1>11. TimeoutIsNamed' /\ SandboxIsExplained' /\ BlameInv'
    BY <1>1, <1>2, <1>4 DEF TimeoutIsNamed, SandboxIsExplained, BlameInv
  <1>12. TraceCutIsDeclared'
    <2>1. rendered' = l /\ eventsDropped' = eventsDropped
      BY <1>1, <1>3 DEF logs
    <2>2. result'.traceTruncated <=> TraceCut(l)
      BY <1>4, Zenon
    <2> QED BY <1>6, <2>1, <2>2, Zenon DEF TraceCutIsDeclared
  <1> QED BY <1>7, <1>8, <1>9, <1>10, <1>11, <1>12 DEF IInv

\* Every step keeps the bookkeeping.
LEMMA StepKeeps == IInv /\ [Next]_vars => IInv'
  <1> SUFFICES ASSUME IInv, [Next]_vars PROVE IInv'
    OBVIOUS
  <1>1. CASE UNCHANGED vars
    <2>1. /\ UNCHANGED <<allow, pc, input, ctxErr, cancelled, called, cause, printed>>
          /\ UNCHANGED <<printCut, events, eventsDropped, rs, rendered, result>>
      BY <1>1 DEF vars, logs
    <2>2. TypeOK' /\ LogInv'
      BY <2>1 DEF IInv, TypeOK, LogInv
    <2>3. CompiledInv'
      BY <2>1 DEF IInv, CompiledInv, capabilities, Compiles
    <2>4. CauseInv' /\ StageInv'
      BY <2>1 DEF IInv, CauseInv, StageInv
    <2>5. OkInv'
      BY <2>1 DEF IInv, OkInv, AnswerPart, encodesWithin
    <2>6. TimeoutIsNamed' /\ TraceCutIsDeclared'
      BY <2>1 DEF IInv, TimeoutIsNamed, TraceCutIsDeclared
    <2>7. SandboxIsExplained' /\ BlameInv'
      BY <2>1 DEF IInv, SandboxIsExplained, BlameInv, StoppedBySandbox, capabilities
    <2> QED BY <2>2, <2>3, <2>4, <2>5, <2>6, <2>7 DEF IInv
  <1>2. CASE Next
    BY <1>1, <1>2, ReadKeeps, CompileKeeps, LogsKeep, OPAKeeps, ContextKeeps, ReportKeeps,
       FormatKeeps DEF Next, Evaluate, Done
  <1> QED BY <1>1, <1>2

\* What was compiled, why it ended and what was returned agree in every state.
THEOREM Invariance == Spec => []IInv
  BY InitHolds, StepKeeps, PTL DEF Spec

\* Every variable keeps its type, and evalCtx is done whenever the caller's
\* context is.
THEOREM EvaluationTypes == Spec => []TypeOK
  <1>1. IInv => TypeOK
    BY DEF IInv
  <1> QED BY <1>1, Invariance, PTL

\* An evaluation its deadline stopped says so.
THEOREM TimeoutsAreNamed == Spec => []TimeoutIsNamed
  <1>1. IInv => TimeoutIsNamed
    BY DEF IInv
  <1> QED BY <1>1, Invariance, PTL

\* A policy that the sandbox alone stops is told so with a built-in it really
\* calls, nobody is where the sandbox is off, and a policy that calls functions
\* there are not is told so only for a name that holds a sandboxed one.
THEOREM TheSandboxExplainsItself == Spec => []SandboxIsExplained
  <1>1. IInv => SandboxIsExplained
    BY DEF IInv
  <1> QED BY <1>1, Invariance, PTL

\* The note is there to tell the sandbox from a typo (tool_opa.go:282-284), and
\* does not: a policy that is wrong in nothing but a misspelt name that holds a
\* sandboxed one, "http.sendd", is always told the sandbox stopped it.
MisspeltIsBlamed ==
    /\ result.why = "compile" /\ ~allow
    /\ input.policy.sound /\ VersionOf(input.version) \in input.policy.parses
    /\ input.policy.uses \cap Builtins \subseteq capabilities
    /\ \A f \in input.policy.uses \ Builtins : Within[f] # {}
    => result.hint \in Sandboxed /\ ~StoppedBySandbox(input)

THEOREM TyposAreTakenForTheSandbox == Spec => []MisspeltIsBlamed
  <1>1. IInv => MisspeltIsBlamed
    <2> SUFFICES ASSUME IInv,
                        result.why = "compile" /\ ~allow,
                        input.policy.sound /\ VersionOf(input.version) \in input.policy.parses,
                        input.policy.uses \cap Builtins \subseteq capabilities,
                        \A f \in input.policy.uses \ Builtins : Within[f] # {}
                 PROVE  result.hint \in Sandboxed /\ ~StoppedBySandbox(input)
      BY DEF MisspeltIsBlamed
    <2>1. \A f \in input.policy.uses \ capabilities : Within[f] # {}
      OBVIOUS
    <2>2. result.hint # "" /\ result.hint \in Sandboxed \cup {""}
      BY <2>1 DEF IInv, BlameInv, TypeOK
    <2>3. ~StoppedBySandbox(input)
      BY DEF StoppedBySandbox
    <2> QED BY <2>2, <2>3
  <1> QED BY <1>1, Invariance, PTL

\* No sandboxed built-in runs unless the operator allowed it.
THEOREM NoSandboxedBuiltinRuns == Spec => []SandboxHolds
  <1>1. IInv => SandboxHolds
    BY DEF IInv, CompiledInv, capabilities, SandboxHolds
  <1> QED BY <1>1, Invariance, PTL

\* What a result says of the answer comes down to two sizes and the limit.
LEMMA AnswerComesDownTo ==
    ASSUME IInv, result.status = "ok"
    PROVE  /\ rs.single \in BOOLEAN /\ rs.size \in Nat /\ rs.valueSize \in Nat
           /\ ResultBytes \in Nat
           /\ result.defined <=> rs.results > 0
           /\ result.omitted <=> ~result.resultSet
           /\ result.resultSet <=> rs.size < ResultBytes
           /\ result.value <=> rs.single /\ rs.valueSize < ResultBytes
  <1>1. /\ rs \in ResultSets
        /\ result.defined = (rs.results > 0)
        /\ result.value = (rs.single /\ (encodesWithin(rs.size) \/ encodesWithin(rs.valueSize)))
        /\ result.resultSet = encodesWithin(rs.size)
        /\ result.omitted = ~encodesWithin(rs.size)
    BY DEF IInv, OkInv, AnswerPart
  <1>2. /\ rs.single \in BOOLEAN /\ rs.size \in Nat /\ rs.valueSize \in Nat
        /\ ResultBytes \in Nat /\ (rs.single => rs.valueSize < rs.size)
    BY <1>1, ResultAssumption, LimitAssumption DEF AllResultSets
  <1>3. \A n \in Nat : encodesWithin(n) <=> n < ResultBytes
    BY <1>2 DEF encodesWithin
  <1>4. /\ encodesWithin(rs.size) <=> rs.size < ResultBytes
        /\ encodesWithin(rs.valueSize) <=> rs.valueSize < ResultBytes
    BY <1>2, <1>3
  <1>5. rs.single /\ rs.size < ResultBytes => rs.valueSize < ResultBytes
    BY <1>2
  <1>6. /\ result.defined <=> rs.results > 0
        /\ result.omitted <=> ~result.resultSet
        /\ result.resultSet <=> rs.size < ResultBytes
        /\ result.value <=> rs.single /\ (rs.size < ResultBytes \/ rs.valueSize < ResultBytes)
    BY <1>1, <1>4, Zenon
  <1>7. result.value <=> rs.single /\ rs.valueSize < ResultBytes
    BY <1>5, <1>6, Zenon
  <1> QED BY <1>2, <1>6, <1>7

\* A result says whether the query had an answer, and gives it if it is shorter
\* than the limit.
THEOREM AnswersAreKept == Spec => []AnswerIsKept
  <1>1. IInv => AnswerIsKept
    BY AnswerComesDownTo DEF AnswerIsKept
  <1> QED BY <1>1, Invariance, PTL

\* An answer whose encoding is of exactly the limit is withheld, and so is a single
\* value of that size: the newline json.Encoder writes after it is counted. The
\* comments say otherwise: what "encodes to at most limit bytes" is within it
\* (tool_opa.go:248), the result set is left out only if it "encoded to more than
\* maxResultBytes" (tool_opa.go:56-57), "past 256 KiB encoded" (README.md:94).
AtTheLimit ==
    result.status = "ok" =>
        /\ rs.size = ResultBytes => result.omitted
        /\ rs.single /\ rs.valueSize = ResultBytes => ~result.value

THEOREM ExactlyTheLimitIsWithheld == Spec => []AtTheLimit
  <1>1. IInv => AtTheLimit
    BY AnswerComesDownTo DEF AtTheLimit
  <1> QED BY <1>1, Invariance, PTL

\* What a result holds is within its bounds.
THEOREM ResultsAreBounded == Spec => []ResultIsBounded
  <1>1. IInv => ResultIsBounded
    <2> SUFFICES ASSUME IInv, result.status = "ok" PROVE ResultIsBounded
      BY DEF ResultIsBounded
    <2>1. /\ rs \in ResultSets
          /\ result.value = (rs.single /\ (encodesWithin(rs.size) \/ encodesWithin(rs.valueSize)))
          /\ result.resultSet = encodesWithin(rs.size)
      BY DEF IInv, OkInv, AnswerPart
    <2>2. /\ rs.single \in BOOLEAN /\ rs.size \in Nat /\ rs.valueSize \in Nat
          /\ ResultBytes \in Nat /\ (rs.single => rs.valueSize < rs.size)
      BY <2>1, ResultAssumption, LimitAssumption DEF AllResultSets
    <2>3. \A n \in Nat : encodesWithin(n) => n <= ResultBytes
      BY <2>2 DEF encodesWithin
    <2>4. result.value => rs.single /\ (encodesWithin(rs.size) \/ encodesWithin(rs.valueSize))
      BY <2>1, Zenon
    <2>5. result.value => rs.valueSize <= ResultBytes
      BY <2>2, <2>3, <2>4
    <2>6. result.resultSet => encodesWithin(rs.size)
      BY <2>1, Zenon
    <2>7. Len(result.printed) <= PrintLines /\ Len(result.trace) <= TraceLines
      BY DEF IInv, OkInv, LogInv
    <2> QED BY <2>2, <2>3, <2>5, <2>6, <2>7 DEF ResultIsBounded
  <1> QED BY <1>1, Invariance, PTL

\* A trace that is not whole says so, and only that one: events that were not
\* collected, lines that were not returned, and lines that were cut all count.
THEOREM TraceCutsAreDeclared == Spec => []TraceCutIsDeclared
  <1>1. IInv => TraceCutIsDeclared
    BY DEF IInv
  <1> QED BY <1>1, Invariance, PTL
-----------------------------------------------------------------------------
(* Every outcome is the right one, and stays. *)

\* Each way a call can end is the one its arguments, its policy and OPA call for:
\* there is no answer to a query that was refused, did not compile or was given
\* up, none is withheld from one that was not, and "timeout" is said only of an
\* evaluation that was given up after its deadline (tool_opa.go:129-216).
OutcomeIsRight ==
    pc = "done" =>
        /\ result.why = "arguments" <=> ~Accepts(input)
        /\ result.why = "compile" <=> Accepts(input) /\ ~Compiles(input)
        /\ result.status = "ok" <=> Accepts(input) /\ Compiles(input) /\ cause = ""
        /\ result.why = "timeout" => cause # "" /\ ctxErr = "deadline"

OutcomeInv ==
    /\ OutcomeIsRight
    /\ pc \in {"compile", "eval", "failed", "format"} => Accepts(input)

\* Once a call is done no step changes anything of it.
LEMMA DoneStays == pc = "done" /\ [Next]_vars => UNCHANGED vars
  <1> SUFFICES ASSUME pc = "done", Next PROVE UNCHANGED vars
    OBVIOUS
  <1>1. ~ReadArguments /\ ~Compile /\ ~ReportError /\ ~Format
    BY DEF ReadArguments, Compile, ReportError, Format
  <1>2. ~Evaluate
    BY DEF Evaluate, PrintLine, TraceEvent, CallBuiltin, BuiltinFails, Interrupt, Answer
  <1>3. ~Deadline /\ ~Cancel
    BY DEF Deadline, Cancel, Running
  <1> QED BY <1>1, <1>2, <1>3 DEF Next, Done

\* Between its first and its last step a call keeps its arguments.
LEMMA UnderWay ==
    ASSUME Compile \/ Evaluate \/ Deadline \/ Cancel \/ ReportError \/ Format
    PROVE  /\ pc \in {"compile", "eval", "failed", "format"}
           /\ UNCHANGED <<allow, input>>
  <1>1. CASE Compile \/ ReportError \/ Format
    BY <1>1 DEF Compile, ReportError, Format
  <1>2. CASE Evaluate
    BY <1>2 DEF Evaluate, PrintLine, TraceEvent, CallBuiltin, BuiltinFails, Interrupt, Answer
  <1>3. CASE Deadline \/ Cancel
    BY <1>3 DEF Deadline, Cancel, Running
  <1> QED BY <1>1, <1>2, <1>3

LEMMA OutcomeKeeps == IInv /\ IInv' /\ OutcomeInv /\ [Next]_vars => OutcomeInv'
  <1> SUFFICES ASSUME IInv, IInv', OutcomeInv, [Next]_vars PROVE OutcomeInv'
    OBVIOUS
  <1>1. CASE UNCHANGED vars
    <2>1. UNCHANGED <<allow, pc, input, ctxErr, cause, result>>
      BY <1>1 DEF vars
    <2>2. (Accepts(input))' <=> Accepts(input)
      BY <2>1 DEF Accepts
    <2>3. (Compiles(input))' <=> Compiles(input)
      BY <2>1 DEF Compiles, capabilities
    <2> QED BY <2>1, <2>2, <2>3 DEF OutcomeInv, OutcomeIsRight
  <1>2. CASE ReadArguments
    <2>1. PICK a \in Inputs :
            /\ input' = a
            /\ IF Accepts(a) THEN pc' = "compile" /\ UNCHANGED result ELSE Fail("arguments")
      BY <1>2 DEF ReadArguments
    <2>2. CASE Accepts(a)
      BY <2>1, <2>2 DEF OutcomeInv, OutcomeIsRight, Accepts
    <2>3. CASE ~Accepts(a)
      <3>1. pc' = "done" /\ result'.status = "error" /\ result'.why = "arguments"
        BY <2>1, <2>3, FailSets
      <3>2. ~(Accepts(input))'
        BY <2>1, <2>3 DEF Accepts
      <3> QED BY <3>1, <3>2 DEF OutcomeInv, OutcomeIsRight
    <2> QED BY <2>2, <2>3
  <1>3. CASE Compile \/ Evaluate \/ Deadline \/ Cancel \/ ReportError \/ Format
    <2>1. /\ pc \in {"compile", "eval", "failed", "format"} /\ UNCHANGED <<allow, input>>
      BY <1>3, UnderWay
    <2>2. Accepts(input) /\ (Accepts(input))'
      BY <2>1 DEF OutcomeInv, Accepts
    <2>3. (Compiles(input))' <=> Compiles(input)
      BY <2>1 DEF Compiles, capabilities
    <2>4. CASE Compile
      <3>1. CASE Compiles(input)
        BY <2>2, <2>4, <3>1 DEF Compile, OutcomeInv, OutcomeIsRight
      <3>2. CASE ~Compiles(input)
        <4>1. pc' = "done" /\ result'.status = "error" /\ result'.why = "compile"
          BY <2>4, <3>2 DEF Compile, FailCompile, NoResult
        <4> QED BY <2>2, <2>3, <3>2, <4>1 DEF OutcomeInv, OutcomeIsRight
      <3> QED BY <3>1, <3>2
    <2>5. CASE Evaluate \/ Deadline \/ Cancel
      <3>1. pc' \in {"eval", "failed", "format"} \/ pc' = pc
        <4>1. CASE Evaluate
          BY <4>1 DEF Evaluate, PrintLine, TraceEvent, CallBuiltin, BuiltinFails, Interrupt, Answer
        <4>2. CASE Deadline \/ Cancel
          BY <4>2 DEF Deadline, Cancel
        <4> QED BY <2>5, <4>1, <4>2
      <3>2. pc' # "done"
        BY <2>1, <3>1
      <3> QED BY <2>2, <3>2 DEF OutcomeInv, OutcomeIsRight
    <2>6. CASE ReportError
      <3>1. /\ pc = "failed" /\ pc' = "done" /\ cause' = cause /\ ctxErr' = ctxErr
            /\ result'.status = "error" /\ result'.why = Why
        BY <2>6, FailSets DEF ReportError
      <3>2. cause # "" /\ Compiles(input)
        BY <3>1 DEF IInv, CauseInv, CompiledInv
      <3>3. Why \in {"timeout", "eval"} /\ (Why = "timeout" => ctxErr = "deadline")
        BY DEF Why
      <3> QED BY <2>2, <2>3, <3>1, <3>2, <3>3 DEF OutcomeInv, OutcomeIsRight
    <2>7. CASE Format
      <3>1. /\ pc = "format" /\ pc' = "done" /\ cause' = cause
            /\ result'.status = "ok" /\ result'.why = ""
        BY <2>7, FormatMakesOk DEF Format
      <3>2. cause = "" /\ Compiles(input)
        BY <3>1 DEF IInv, CauseInv, CompiledInv
      <3> QED BY <2>2, <2>3, <3>1, <3>2 DEF OutcomeInv, OutcomeIsRight
    <2> QED BY <1>3, <2>4, <2>5, <2>6, <2>7
  <1> QED BY <1>1, <1>2, <1>3 DEF Next, Done

\* A call ends as it has to, whatever the deadline and its caller do meanwhile.
THEOREM OutcomesAreRight == Spec => []OutcomeIsRight
  <1>1. Init => OutcomeInv
    BY DEF Init, OutcomeInv, OutcomeIsRight
  <1>2. OutcomeInv => OutcomeIsRight
    BY DEF OutcomeInv
  <1> QED BY <1>1, <1>2, OutcomeKeeps, Invariance, PTL DEF Spec

Stage ==
    CASE pc = "read" -> 0 [] pc = "compile" -> 1 [] pc = "eval" -> 2
      [] pc \in {"failed", "format"} -> 3 [] pc = "done" -> 4

\* t is s, or goes on from it.
Continues(t, s) == Len(s) <= Len(t) /\ \A i \in 1..Len(s) : t[i] = s[i]

\* No step takes back what an earlier one did: a call never returns to a stage it
\* left, a context that is done stays done for the same reason, however many
\* reasons follow, what was printed or traced stays where it was, and what the
\* caller was told is final (tool_opa.go:195-242, 366-399).
NothingIsTakenBack ==
    /\ Stage' >= Stage /\ allow' = allow
    /\ pc # "read" => input' = input
    /\ ctxErr # "" => ctxErr' = ctxErr
    /\ called \subseteq called'
    /\ Continues(printed', printed) /\ (printCut => printCut')
    /\ Continues(events', events) /\ (eventsDropped => eventsDropped')
    /\ pc = "done" => UNCHANGED vars

LEMMA LogContinues ==
    ASSUME NEW S, NEW s \in Seq(S), NEW l
    PROVE  Continues(s, s) /\ Continues(Append(s, l), s)
  BY DEF Continues

\* A stage is left for a later one.
LEMMA StagesMoveOn ==
    ASSUME IInv, Next
    PROVE  Stage' >= Stage
  <1>1. \/ pc' = pc
        \/ pc = "read" /\ pc' \in {"compile", "done"}
        \/ pc = "compile" /\ pc' \in {"eval", "done"}
        \/ pc = "eval" /\ pc' \in {"failed", "format"}
        \/ pc \in {"failed", "format"} /\ pc' = "done"
    <2>1. CASE ReadArguments \/ Compile \/ ReportError \/ Format
      BY <2>1 DEF ReadArguments, Compile, ReportError, Format, Fail, FailCompile
    <2>2. CASE Evaluate
      BY <2>2 DEF Evaluate, PrintLine, TraceEvent, CallBuiltin, BuiltinFails, Interrupt, Answer
    <2>3. CASE Deadline \/ Cancel \/ Done
      BY <2>3 DEF Deadline, Cancel, Done, vars
    <2> QED BY <2>1, <2>2, <2>3 DEF Next
  <1>2. pc \in {"read", "compile", "eval", "failed", "format", "done"}
    BY DEF IInv, TypeOK
  <1>3. CASE pc' = pc
    <2>1. Stage' = Stage
      BY <1>3 DEF Stage
    <2>2. Stage \in 0..4
      <3>1. CASE pc = "read"
        BY <3>1 DEF Stage
      <3>2. CASE pc = "compile"
        BY <3>2 DEF Stage
      <3>3. CASE pc = "eval"
        BY <3>3 DEF Stage
      <3>4. CASE pc \in {"failed", "format"}
        BY <3>4 DEF Stage
      <3>5. CASE pc = "done"
        BY <3>5 DEF Stage
      <3> QED BY <1>2, <3>1, <3>2, <3>3, <3>4, <3>5
    <2> QED BY <2>1, <2>2
  <1>4. CASE pc = "read" /\ pc' \in {"compile", "done"}
    BY <1>4 DEF Stage
  <1>5. CASE pc = "compile" /\ pc' \in {"eval", "done"}
    BY <1>5 DEF Stage
  <1>6. CASE pc = "eval" /\ pc' \in {"failed", "format"}
    BY <1>6 DEF Stage
  <1>7. CASE pc \in {"failed", "format"} /\ pc' = "done"
    BY <1>7 DEF Stage
  <1> QED BY <1>1, <1>3, <1>4, <1>5, <1>6, <1>7

\* The logs only grow, and what they lost stays lost.
LEMMA LogsGrow ==
    ASSUME IInv, Next
    PROVE  /\ Continues(printed', printed) /\ (printCut => printCut')
           /\ Continues(events', events) /\ (eventsDropped => eventsDropped')
  <1>1. printed \in Seq(LineSet) /\ events \in Seq(LineSet)
    BY DEF IInv, TypeOK
  <1>2. ASSUME UNCHANGED <<printed, printCut>> \/ Printer!Next
        PROVE  Continues(printed', printed) /\ (printCut => printCut')
    <2> DEFINE Grows == /\ printed' = printed \/ \E l : printed' = Append(printed, l)
                        /\ printCut => printCut'
    <2>a. ASSUME UNCHANGED <<printed, printCut>> PROVE Grows
      BY <2>a
    <2>b. ASSUME Printer!Lose PROVE Grows
      BY <2>b DEF Printer!Lose
    <2>c. ASSUME NEW m \in Message, Printer!Keep(m) PROVE Grows
      <3>1. /\ printed' = Append(printed, Printer!Line(m))
            /\ printCut' = (printCut \/ Printer!Line(m).cut)
        BY <2>c, Zenon DEF Printer!Keep
      <3>2. printCut => printCut'
        BY <3>1, Zenon
      <3> QED BY <3>1, <3>2, Zenon
    <2>1. Grows
      BY <1>2, <2>a, <2>b, <2>c, Zenon DEF Printer!Next
    <2> QED BY <1>1, <2>1, LogContinues
  <1>3. ASSUME UNCHANGED <<events, eventsDropped>> \/ Tracer!Next
        PROVE  Continues(events', events) /\ (eventsDropped => eventsDropped')
    <2> DEFINE Grows == /\ events' = events \/ \E l : events' = Append(events, l)
                        /\ eventsDropped => eventsDropped'
    <2>a. ASSUME UNCHANGED <<events, eventsDropped>> PROVE Grows
      BY <2>a
    <2>b. ASSUME Tracer!Lose PROVE Grows
      BY <2>b DEF Tracer!Lose
    <2>c. ASSUME NEW m \in Message, Tracer!Keep(m) PROVE Grows
      <3>1. /\ events' = Append(events, Tracer!Line(m))
            /\ eventsDropped' = (eventsDropped \/ Tracer!Line(m).cut)
        BY <2>c, Zenon DEF Tracer!Keep
      <3>2. eventsDropped => eventsDropped'
        BY <3>1, Zenon
      <3> QED BY <3>1, <3>2, Zenon
    <2>1. Grows
      BY <1>3, <2>a, <2>b, <2>c, Zenon DEF Tracer!Next
    <2> QED BY <1>1, <2>1, LogContinues
  <1>4. CASE PrintLine \/ TraceEvent
    BY <1>2, <1>3, <1>4 DEF PrintLine, TraceEvent
  <1>5. CASE UNCHANGED logs
    BY <1>2, <1>3, <1>5 DEF logs
  <1>6. PrintLine \/ TraceEvent \/ UNCHANGED logs
    BY DEF Next, Evaluate, ReadArguments, Compile, CallBuiltin, BuiltinFails, Interrupt, Answer,
           Deadline, Cancel, ReportError, Format, Done, vars
  <1> QED BY <1>4, <1>5, <1>6

\* What a call did, printed and was told stands, to its end and after it.
THEOREM EvaluationsMoveOn == Spec => [][NothingIsTakenBack]_vars
  <1>1. IInv /\ [Next]_vars => [NothingIsTakenBack]_vars
    <2> SUFFICES ASSUME IInv, Next PROVE NothingIsTakenBack
      OBVIOUS
    <2>1. Stage' >= Stage
      BY StagesMoveOn
    <2>2. pc = "done" => UNCHANGED vars
      BY DoneStays
    <2>3. /\ allow' = allow /\ (pc # "read" => input' = input)
      <3>1. CASE ReadArguments
        BY <3>1 DEF ReadArguments
      <3>2. CASE Done
        BY <3>2 DEF Done, vars
      <3> QED BY <3>1, <3>2, UnderWay DEF Next
    <2>4. (ctxErr # "" => ctxErr' = ctxErr) /\ called \subseteq called'
      BY DEF Next, Evaluate, ReadArguments, Compile, PrintLine, TraceEvent, CallBuiltin,
             BuiltinFails, Interrupt, Answer, Deadline, Cancel, ReportError, Format, Done, vars
    <2> QED BY <2>1, <2>2, <2>3, <2>4, LogsGrow DEF NothingIsTakenBack
  <1> QED BY <1>1, Invariance, PTL DEF Spec

-----------------------------------------------------------------------------
(* Refinement: the call accepts, is decided, tells and refuses as PolicyService does. *)

NotYet == pc = "read" \/ result.why = "arguments"

LEMMA OneCall ==
    ASSUME NEW x, NEW y
    PROVE  /\ [c \in {"call"} |-> x]["call"] = x
           /\ [[c \in {"call"} |-> x] EXCEPT !["call"] = y] = [c \in {"call"} |-> y]
  OBVIOUS

\* The arguments are found in order.
LEMMA AcceptMaps ==
    ASSUME NotYet, ~NotYet', Told = "none", Told' = Told, Verdict' = Verdict
    PROVE  Promise!Accept("call")
  BY OneCall DEF NotYet, Promise!Accept

\* The evaluation comes to something.
LEMMA DecideMaps ==
    ASSUME ~NotYet, ~NotYet', Told = "none", Told' = Told, Verdict = "none",
           Verdict' \in {"defined", "undefined", "broken"}
    PROVE  Promise!Decide("call")
  <1>1. Verdict' \in Promise!Answers \cup {"broken"}
    BY DEF Promise!Answers
  <1>2. [c \in {"call"} |-> Verdict'] = [[c \in {"call"} |-> Verdict] EXCEPT !["call"] = Verdict']
    BY OneCall
  <1>3. [c \in {"call"} |-> Verdict]["call"] = "none" /\ [c \in {"call"} |-> Told]["call"] = "none"
    BY OneCall
  <1>4. \E v \in Promise!Answers \cup {"broken"} :
          [c \in {"call"} |-> Verdict'] = [[c \in {"call"} |-> Verdict] EXCEPT !["call"] = v]
    BY <1>1, <1>2
  <1> QED BY <1>3, <1>4 DEF NotYet, Promise!Decide

\* The caller gets the answer.
LEMMA TellMaps ==
    ASSUME (NotYet' <=> NotYet), Told = "none", Verdict' = Verdict,
           Verdict \in {"defined", "undefined"}, Told' = Verdict
    PROVE  Promise!Tell("call")
  <1>1. [c \in {"call"} |-> Told'] =
          [[c \in {"call"} |-> Told] EXCEPT !["call"] = [c \in {"call"} |-> Verdict]["call"]]
    BY OneCall
  <1>2. /\ [c \in {"call"} |-> Told]["call"] = "none"
        /\ [c \in {"call"} |-> Verdict]["call"] \in Promise!Answers
    BY OneCall DEF Promise!Answers
  <1> QED BY <1>1, <1>2 DEF NotYet, Promise!Tell

\* The caller gets an error.
LEMMA RefuseMaps ==
    ASSUME (NotYet' <=> NotYet), Told = "none", Verdict' = Verdict, Told' = "error"
    PROVE  Promise!Refuse("call")
  <1>1. [c \in {"call"} |-> Told'] = [[c \in {"call"} |-> Told] EXCEPT !["call"] = "error"]
    BY OneCall
  <1>2. [c \in {"call"} |-> Told]["call"] = "none"
    BY OneCall
  <1> QED BY <1>1, <1>2 DEF NotYet, Promise!Refuse

\* Nothing of the mapping moves.
LEMMA StutterMaps ==
    ASSUME (NotYet' <=> NotYet), Told' = Told, Verdict' = Verdict
    PROVE  UNCHANGED Promise!vars
  BY DEF NotYet, Promise!vars

\* Before its result a call was told nothing.
LEMMA NothingToldYet ==
    ASSUME IInv, pc # "done"
    PROVE  /\ Told = "none" /\ result.status = "none" /\ result.why = ""
           /\ NotYet <=> pc = "read"
  <1>1. result = NoResult /\ NoResult.status = "none" /\ NoResult.why = ""
    BY DEF IInv, StageInv, NoResult
  <1> QED BY <1>1 DEF Told, NotYet

LEMMA InitSimulates == Init => Promise!Init
  <1> SUFFICES ASSUME Init PROVE Promise!Init
    OBVIOUS
  <1>1. NotYet /\ Told = "none" /\ Verdict = "none"
    BY DEF Init, NoResult, NotYet, Told, Verdict
  <1> QED BY <1>1 DEF NotYet, Promise!Init

LEMMA ReadSimulates == IInv /\ ReadArguments => Promise!Next
  <1> SUFFICES ASSUME IInv, ReadArguments PROVE Promise!Next
    OBVIOUS
  <1>1. /\ pc = "read" /\ cause' = cause /\ rs' = rs
        /\ \/ pc' = "compile" /\ result' = result
           \/ Fail("arguments")
    BY DEF ReadArguments
  <1>2. Told = "none" /\ NotYet /\ Verdict = "none" /\ cause = ""
    BY <1>1, NothingToldYet DEF IInv, CauseInv, Verdict
  <1>3. CASE pc' = "compile" /\ result' = result
    <2>1. ~NotYet' /\ Told' = Told /\ Verdict' = Verdict
      BY <1>1, <1>2, <1>3, NothingToldYet DEF NotYet, Told, Verdict
    <2> QED BY <1>2, <2>1, AcceptMaps DEF Promise!Next
  <1>4. CASE Fail("arguments")
    <2>1. NotYet' /\ Told' = "error" /\ Verdict' = "none"
      BY <1>1, <1>2, <1>4, FailSets DEF NotYet, Told, Verdict
    <2> QED BY <1>2, <2>1, RefuseMaps DEF Promise!Next
  <1> QED BY <1>1, <1>3, <1>4

LEMMA CompileSimulates == IInv /\ Compile => [Promise!Next]_(Promise!vars)
  <1> SUFFICES ASSUME IInv, Compile PROVE [Promise!Next]_(Promise!vars)
    OBVIOUS
  <1>1. /\ pc = "compile" /\ cause' = cause /\ rs' = rs
        /\ \/ pc' = "eval" /\ result' = result
           \/ pc' = "done" /\ result'.status = "error" /\ result'.why = "compile"
    BY DEF Compile, FailCompile, NoResult
  <1>2. Told = "none" /\ ~NotYet /\ Verdict = "none" /\ cause = "" /\ result.status = "none"
    BY <1>1, NothingToldYet DEF IInv, CauseInv, Verdict
  <1>3. CASE pc' = "eval" /\ result' = result
    <2>1. ~NotYet' /\ Told' = Told /\ Verdict' = Verdict
      BY <1>1, <1>2, <1>3 DEF NotYet, Told, Verdict
    <2> QED BY <1>2, <2>1, StutterMaps
  <1>4. CASE pc' = "done" /\ result'.status = "error" /\ result'.why = "compile"
    <2>1. ~NotYet' /\ Told' = "error" /\ Verdict' = "none"
      BY <1>1, <1>2, <1>4 DEF NotYet, Told, Verdict
    <2> QED BY <1>2, <2>1, RefuseMaps DEF Promise!Next
  <1> QED BY <1>1, <1>3, <1>4

\* What OPA does is a decision, or nothing the caller will see.
LEMMA OPASimulates ==
    IInv /\ (BuiltinFails \/ Interrupt \/ Answer) => [Promise!Next]_(Promise!vars)
  <1> SUFFICES ASSUME IInv, BuiltinFails \/ Interrupt \/ Answer
               PROVE  [Promise!Next]_(Promise!vars)
    OBVIOUS
  <1>1. pc = "eval" /\ pc' \in {"failed", "format"} /\ result' = result
    BY DEF BuiltinFails, Interrupt, Answer
  <1>2. /\ Told = "none" /\ ~NotYet /\ Verdict = "none" /\ cause = ""
        /\ result.status = "none" /\ result.why = ""
    BY <1>1, NothingToldYet DEF IInv, CauseInv, Verdict
  <1>3. ~NotYet' /\ Told' = Told
    BY <1>1, <1>2 DEF NotYet, Told
  <1>4. CASE Interrupt
    <2>1. Verdict' = "none"
      BY <1>1, <1>2, <1>4 DEF Interrupt, Verdict
    <2> QED BY <1>2, <1>3, <2>1, StutterMaps
  <1>5. CASE BuiltinFails \/ Answer
    <2>1. Verdict' \in {"defined", "undefined", "broken"}
      BY <1>1, <1>2, <1>5 DEF BuiltinFails, Answer, Verdict
    <2> QED BY <1>2, <1>3, <2>1, DecideMaps DEF Promise!Next
  <1> QED BY <1>4, <1>5

LEMMA ReportSimulates == IInv /\ ReportError => [Promise!Next]_(Promise!vars)
  <1> SUFFICES ASSUME IInv, ReportError PROVE [Promise!Next]_(Promise!vars)
    OBVIOUS
  <1>1. pc = "failed" /\ Fail(Why) /\ Why \in {"timeout", "eval"} /\ cause' = cause /\ rs' = rs
    BY DEF ReportError, Why
  <1>2. /\ Told = "none" /\ ~NotYet /\ result.status = "none"
        /\ Verdict = IF cause = "builtin" THEN "broken" ELSE "none"
    BY <1>1, NothingToldYet DEF IInv, CauseInv, TypeOK, Verdict
  <1>3. ~NotYet' /\ Told' = "error" /\ Verdict' = Verdict
    <2>1. pc' = "done" /\ result'.status = "error" /\ result'.why \in {"timeout", "eval"}
      BY <1>1, FailSets
    <2>2. cause # ""
      BY <1>1 DEF IInv, CauseInv
    <2>3. cause \in {"builtin", "interrupt"}
      BY <2>2 DEF IInv, TypeOK
    <2> QED BY <1>1, <1>2, <2>1, <2>3 DEF NotYet, Told, Verdict
  <1> QED BY <1>2, <1>3, RefuseMaps DEF Promise!Next

LEMMA FormatSimulates == IInv /\ IInv' /\ Format => [Promise!Next]_(Promise!vars)
  <1> SUFFICES ASSUME IInv, IInv', Format PROVE [Promise!Next]_(Promise!vars)
    OBVIOUS
  <1>1. pc = "format" /\ pc' = "done" /\ cause' = cause /\ rs' = rs
    BY DEF Format
  <1>2. /\ Told = "none" /\ ~NotYet /\ cause = ""
        /\ Verdict = IF rs.results > 0 THEN "defined" ELSE "undefined"
    BY <1>1, NothingToldYet DEF IInv, CauseInv, Verdict
  <1>3. result'.status = "ok" /\ result'.why = ""
    BY <1>1, FormatMakesOk
  <1>4. result'.defined = (rs.results > 0)
    BY <1>1, <1>3 DEF IInv, OkInv, AnswerPart
  <1>5. ~NotYet' /\ Verdict' = Verdict /\ Told' = Verdict
    BY <1>1, <1>2, <1>3, <1>4 DEF NotYet, Verdict, Told
  <1>6. Verdict \in {"defined", "undefined"}
    BY <1>2
  <1> QED BY <1>2, <1>5, <1>6, TellMaps DEF Promise!Next

LEMMA StepSimulates == IInv /\ IInv' /\ [Next]_vars => [Promise!Next]_(Promise!vars)
  <1> SUFFICES ASSUME IInv, IInv', [Next]_vars PROVE [Promise!Next]_(Promise!vars)
    OBVIOUS
  <1>1. ASSUME UNCHANGED <<pc, cause, rs, result>> PROVE UNCHANGED Promise!vars
    <2>1. (NotYet' <=> NotYet) /\ Told' = Told /\ Verdict' = Verdict
      BY <1>1 DEF NotYet, Told, Verdict
    <2> QED BY <2>1, StutterMaps
  <1>2. CASE PrintLine \/ TraceEvent \/ CallBuiltin
    <2>1. UNCHANGED <<pc, cause, rs, result>>
      BY <1>2 DEF PrintLine, TraceEvent, CallBuiltin
    <2> QED BY <1>1, <2>1
  <1>3. CASE Deadline \/ Cancel \/ UNCHANGED vars
    <2>1. UNCHANGED <<pc, cause, rs, result>>
      BY <1>3 DEF Deadline, Cancel, vars
    <2> QED BY <1>1, <2>1
  <1> QED BY <1>2, <1>3, ReadSimulates, CompileSimulates, OPASimulates, ReportSimulates,
             FormatSimulates DEF Next, Evaluate, Done

\* Every step of an evaluation is a step of PolicyService or none of its business:
\* what the caller is told is what the query came to, and a policy that broke is
\* an error.
THEOREM ImplementsThePromise == Spec => Promise!Safety
  BY InitSimulates, StepSimulates, Invariance, PTL DEF Spec, Promise!Safety

=============================================================================
