\* The life of a process of each service, from main to its end, with up to two signals.
SPECIFICATION ProcessSpec
CONSTANTS
    Services = {"agent", "orchestrator", "worker"}
    Requests = {r1, r2}
    MaxSignals = 2
    Environments <- MCEnvironments
    Files <- MCFiles
INVARIANTS
    ProcessTypeOK
    ServesItsDatabase
PROPERTIES
    PoolOutlivesHandlers
    SignalIsHeeded
    StartEnds
CHECK_DEADLOCK FALSE
