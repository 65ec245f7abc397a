SPECIFICATION Spec
CONSTANTS
    Segments <- MCSegments
    Mounts <- PlainMounts
    Configured <- EscapedConfigured
    Offered <- NoOffer
INVARIANTS
    PrefixIsKept
