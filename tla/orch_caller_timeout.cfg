\* A caller gives up.
SPECIFICATION FairSpec
CONSTANTS
    Tasks = {t1}
    Users = {u1}
    Numbers <- MCNumbers
    Exprs <- MCExprs
    Denote <- MCDenote
    Faults <- CallerOnly
    Null = Null
PROPERTIES
    EveryRowSettles
CHECK_DEADLOCK FALSE
