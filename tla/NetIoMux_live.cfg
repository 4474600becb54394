SPECIFICATION FairSpec
CONSTANTS
    Endpoints = {e1}
    Workers = {w1, w2}
    NoEp = NoEp
    NoWorker = NoWorker
    Kinds = {"RECV", "SEND", "ACCEPT", "CONNECT"}
    MaxOps = 3
    MaxOutstanding = 1
    MaxReadyLen = 1
    MaxEvents = 2
    Asserts = TRUE
    Signals = FALSE
    Faults = FALSE
    CanStop = FALSE
PROPERTIES
    PerformableIsAnswered
