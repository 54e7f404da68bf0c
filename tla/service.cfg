\* One submission from the call to the last UPDATE, while the database answers.
SPECIFICATION ServiceSpec
CONSTANTS
    Tasks = {t1}
    Users = {u1}
    Numbers <- MCNumbers
    Exprs <- MCExprs
    Denote <- MCDenote
    Faults <- SteadyDatabase
    Null = Null
    Huge = 8
    Ids <- NodeIds
    Root = 1
    AstOf <- MCAstOf
    EvalFaults <- EveryEvalFault
INVARIANTS
    DoneIsSettled
    FailureHasCause
PROPERTIES
    ImplementsOrchestrator
    AnswerIsCorrect
CHECK_DEADLOCK FALSE
