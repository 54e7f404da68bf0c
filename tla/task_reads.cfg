\* Two users look at the tasks of one of them while anything fails.
SPECIFICATION ReadSpec
CONSTANTS
    Tasks = {t1}
    Users = {u1, u2}
    Numbers <- MCNumbers
    Exprs <- MCExprs
    Denote <- MCDenote
    Default = "0"
    Faults <- NothingLate
    Null = Null
SYMMETRY MCSymmetry
INVARIANTS
    ReadTypeOK
    ShownIsTrue
    OwnTaskIsFound
    ErrorIffFailed
PROPERTIES
    TasksNeverGoBack
    SettledIsFinal
    ImplementsLifecycle
CHECK_DEADLOCK FALSE
