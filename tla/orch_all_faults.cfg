\* Whatever the environment does: two submissions, every kind of fault.
SPECIFICATION FairSpec
CONSTANTS
    Tasks = {t1, t2}
    Users = {u1}
    Numbers <- MCNumbers
    Exprs <- MCExprs
    Denote <- MCDenote
    Faults <- AllFaults
    Null = Null
INVARIANTS
    TypeOK
    ResultIffCompleted
    ResultIsValue
    UpdatesFindTheirRow
    AnswersAreTrue
PROPERTIES
    CompletedIsFinal
    GoroutinesEnd
CHECK_DEADLOCK FALSE
