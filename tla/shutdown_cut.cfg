\* One signal, to any of the services.
SPECIFICATION Spec
CONSTANTS
    Services = {"agent", "orchestrator", "worker"}
    Requests = {r1}
    MaxSignals = 1
INVARIANTS
    CutOnlyAfterTimeout
CHECK_DEADLOCK FALSE
