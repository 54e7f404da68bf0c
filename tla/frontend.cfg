\* Two people use the page one after the other.
SPECIFICATION Spec
CONSTANTS
    Users = {u1, u2}
    MaxRequests = 4
    Null = Null
INVARIANTS
    TypeOK
    TokenIsOfLogin
    ShownIsOwn
    ListCatchesUp
PROPERTIES
    LoadingEnds
    MessagePasses
CHECK_DEADLOCK FALSE
