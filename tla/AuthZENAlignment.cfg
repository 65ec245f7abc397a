SPECIFICATION Spec
CONSTANTS
    p1 = p1
    p2 = p2
    Calls = {c1}
    PDPs = {p1, p2}
    ConfiguredURL = p1
    RequestIds = {r1}
    MaxBatch = 3
    PDPMaxBytes = 3
    Inputs <- EveryInput
    Faults <- AllFaults
INVARIANTS
    DecisionsAreAligned
