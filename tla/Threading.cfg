SPECIFICATION Spec
CONSTANTS
    t1 = t1
    t2 = t2
    NoThread = NoThread
    None = None
    Threads = {t1, t2}
    MaxDepth = 2
    Careless = {t2}
    Tasks <- MCTasks
    Contexts = {1, 2, 3}
INVARIANTS
    SumIsExact
    JoinedDidItsWork
    NoUseAfterDelete
    CarefulFalseMeansRunning
    OwnerIsHolder
    QuietMeansUnlocked
    CurrentIsRunning
    SlotsAreMemory
PROPERTIES
    StatusGoesForward
    StartedIsJoined
