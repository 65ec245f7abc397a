SPECIFICATION Spec
CONSTANTS
    Inputs <- MCInputs
    ResultSets <- MCResultSets
    Functions <- MCFunctions
    Builtins = {"count", "http.send", "opa.runtime"}
    Sandboxed <- MCSandboxed
    Within <- MCWithin
    AllowNetwork = {TRUE, FALSE}
    PrintLines = 2
    TraceLines = 1
    TraceEvents = 2
    LineBytes = 1
    ResultBytes = 3
INVARIANTS
    TypeOK
    SandboxIsExplained
    TimeoutIsNamed
    SandboxHolds
    AnswerIsKept
    ResultIsBounded
    TraceCutIsDeclared
PROPERTIES
    ImplementsPolicyService
