CONSTANTS
    a = a
    b = b
    c = c
    t1 = t1
    t2 = t2
    t3 = t3
    Engines = {a, b, c}
    Threads = {t1, t2, t3}
    NoThread = NoThread
    Addr <- MCAddr
    Program <- MCProgram
SPECIFICATION Spec
INVARIANTS
    LockAccounting
    NoWaitCycle
    NoTornEngine
    WaitsUpward
PROPERTIES
    FieldsWrittenUnderLock
