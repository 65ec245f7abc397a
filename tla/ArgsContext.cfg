SPECIFICATION Spec
CONSTANTS
    MaxBatch = 2
    Inputs <- ContextInputs
INVARIANTS
    ContextIsChecked
