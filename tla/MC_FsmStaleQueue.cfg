CONSTANTS
    S = S
    A = A
    e1 = e1
    e2 = e2
    NoId = NoId
    StateIds <- MCStateIds
    Events <- MCEvents
    Parent <- MCParent
    HasAction = {A}
    MayFail = {}
    Rows <- MCRows
    StartIds = {S}
    ErrorIds = {A}
    StopIds = {A}
    StateBatches = {}
    StopBatches = {}
    Symbols = {}
    StartChecks = {TRUE}
    RegisterFirst = TRUE
    BuildWhileRunning = FALSE
    MaxQueue = 2

SPECIFICATION Spec

INVARIANT QueueAccepted
