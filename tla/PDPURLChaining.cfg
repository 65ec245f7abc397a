SPECIFICATION Spec
CONSTANTS
    Segments <- MCSegments
    Mounts <- MCMounts
    Configured <- MCConfigured
    Offered <- MCOffered
INVARIANTS
    TypeOK
    RequestsAreValid
    ChainingStaysOnMount
