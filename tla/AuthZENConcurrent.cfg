SPECIFICATION Spec
CONSTANTS
    p1 = p1
    p2 = p2
    Calls = {c1, c2}
    PDPs = {p1, p2}
    ConfiguredURL = p1
    RequestIds = {r1, r2}
    MaxBatch = 2
    PDPMaxBytes = 2
    Inputs <- FewInputs
    Faults <- FewFaults
INVARIANTS
    Inv
    RequestsStayAtEndpoint
    IdsCorrelate
PROPERTIES
    EveryCallAnswered
    ImplementsService
