\* One signal to the orchestrator, which hands Graceful a server to stop.
SPECIFICATION Spec
CONSTANTS
    Services = {"orchestrator"}
    Requests = {r1}
    MaxSignals = 1
PROPERTIES
    SignalStopsService
CHECK_DEADLOCK FALSE
