SPECIFICATION Spec
CONSTANTS
    MaxBatch = 2
    Inputs <- MCInputs
INVARIANTS
    TypeOK
    SentConforms
    RefusalNamesTheFault
    SchemaIsEnforced
