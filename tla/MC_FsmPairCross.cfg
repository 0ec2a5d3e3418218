CONSTANTS
    a = a
    b = b
    t1 = t1
    t2 = t2
    Engines = {a, b}
    Threads = {t1, t2}
    NoThread = NoThread
    Addr <- MCAddr
    Program <- MCProgram
SPECIFICATION Spec
INVARIANT NoWaitCycle
