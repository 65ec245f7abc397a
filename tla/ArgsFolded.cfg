SPECIFICATION Spec
CONSTANTS
    MaxBatch = 2
    Inputs <- FoldedInputs
INVARIANTS
    MembersAreValidated
