SPECIFICATION Spec
CONSTANTS
    Endpoints = {e1, e2}
    Workers = {w1, w2}
    NoEp = NoEp
    NoWorker = NoWorker
    Kinds = {"RECV", "SEND", "ACCEPT", "CONNECT"}
    MaxOps = 2
    MaxOutstanding = 1
    MaxReadyLen = 1
    MaxEvents = 2
    Asserts = TRUE
    Signals = TRUE
    Faults = TRUE
    CanStop = FALSE
SYMMETRY Symmetry
INVARIANTS
    TypeOK
    OnlyRefusalsAssert
    ValidOpsNotRejected
