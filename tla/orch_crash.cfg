\* The process dies and is started again: README.md:85-86.
SPECIFICATION FairSpec
CONSTANTS
    Tasks = {t1}
    Users = {u1}
    Numbers <- MCNumbers
    Exprs <- MCExprs
    Denote <- MCDenote
    Faults <- CrashOnly
    Null = Null
PROPERTIES
    AcceptedSettles
CHECK_DEADLOCK FALSE
