SPECIFICATION Spec
CONSTANTS
    Int64Max = 7
    IntMax = 7
    Default <- MCDefault
    AskCalls = {c1}
    EvalCalls = {c2}
    MaxBatch = 2
    Decision = {"permit", "deny"}
    Starts <- MCStarts
INVARIANTS
    TypeOK
    BoundsInForce
    AuthorizationIsAsMeant
    NoVerdictWithoutDecision
    ExitStatusIsTrue
PROPERTIES
    CallsDoNotEndTheSession
    EveryCallIsReplied
    EndIsReached
