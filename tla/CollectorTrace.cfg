SPECIFICATION TracerSpec
CONSTANTS
    w1 = w1
    w2 = w2
    Writers <- One
    Limit = 800
    LineBytes = 0
    MaxSize = 0
    Quota = 801
INVARIANTS
    TraceHolds4000
