CONSTANTS
    A = A
    B = B
    C = C
    Z = Z
    e1 = e1
    e2 = e2
    NoId = NoId
    StateIds <- MCStateIds
    Events <- MCEvents
    Parent <- MCParent
    HasAction <- MCHasAction
    MayFail <- MCMayFail
    Rows <- MCRows
    StartIds <- MCStartIds
    ErrorIds <- MCErrorIds
    StopIds <- MCStopIds
    StateBatches <- MCStateBatches
    StopBatches <- MCStopBatches
    Symbols <- MCSymbols
    StartChecks = {TRUE}
    RegisterFirst = TRUE
    BuildWhileRunning = FALSE
    MaxQueue = 1

SPECIFICATION FairSpec

PROPERTY ErrorLeadsToStopped
