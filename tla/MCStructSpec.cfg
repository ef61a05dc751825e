SPECIFICATION FairSpec
CONSTANTS
    a = a
    b = b
    Name = {a, b}
    t1 = t1
    t2 = t2
    Thread = {t1, t2}
    None = None
    MaxFields = 3
    MaxDepth = 2
    Types <- MCTypes
INVARIANTS
    NamesArePromoted
    CallersShareOne
    
PROPERTY
    CallsEnd
CHECK_DEADLOCK FALSE
