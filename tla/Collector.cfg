SPECIFICATION Spec
CONSTANTS
    w1 = w1
    w2 = w2
    Writers <- Two
    Limit = 2
    LineBytes = 1
    MaxSize = 2
    Quota = 2
INVARIANTS
    TypeOK
    Bounded
    CutIsDeclared
    FirstLinesInOrder
PROPERTIES
    EveryPrintReturns
    IsBoundedLog
