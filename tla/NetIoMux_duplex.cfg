SPECIFICATION Spec
CONSTANTS
    Endpoints = {e1}
    Workers = {w1}
    NoEp = NoEp
    NoWorker = NoWorker
    Kinds = {"RECV", "SEND"}
    MaxOps = 2
    MaxOutstanding = 2
    MaxReadyLen = 1
    MaxEvents = 2
    Asserts = TRUE
    Signals = FALSE
    Faults = FALSE
    CanStop = FALSE
INVARIANTS
    EpollReportsNonReady
