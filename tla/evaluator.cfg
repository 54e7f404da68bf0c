\* Every operation, and larger expressions; deadlines pass, connections fail, and the worker may hang.
SPECIFICATION ClientFairSpec
CONSTANTS
    Huge = 8
    Ids = {1, 2, 3, 4, 5, 6, 7}
    Root = 1
    Trees <- MCTrees
    Faults <- FaultKinds
INVARIANTS
    EvaluatorTypeOK
    ValueIsMeaning
    ErrorHasCause
    NaNOnlyOfRoots
    NothingLeftRunning
PROPERTIES
    EvaluateReturns
CHECK_DEADLOCK FALSE
