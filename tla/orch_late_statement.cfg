\* A statement is executed after it was given up: proto/orchestrator.proto:40.
SPECIFICATION Spec
CONSTANTS
    Tasks = {t1}
    Users = {u1}
    Numbers <- MCNumbers
    Exprs <- MCExprs
    Denote <- MCDenote
    Faults <- LateStatements
    Null = Null
INVARIANTS
    ErrorIffFailed
CHECK_DEADLOCK FALSE
