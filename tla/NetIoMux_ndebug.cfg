SPECIFICATION Spec
CONSTANTS
    Endpoints = {e1}
    Workers = {w1, w2}
    NoEp = NoEp
    NoWorker = NoWorker
    Kinds = {"RECV", "SEND"}
    MaxOps = 2
    MaxOutstanding = 2
    MaxReadyLen = 1
    MaxEvents = 2
    Asserts = FALSE
    Signals = TRUE
    Faults = TRUE
    CanStop = TRUE
SYMMETRY Symmetry
INVARIANTS
    NoLostWakeup
PROPERTIES
    ImplementsAsyncIo
