\* Two clients, one login, a TTL of one second and a half.
SPECIFICATION Spec
CONSTANTS
    Clients = {c1, c2}
    Logins = {l1, bad}
    Malformed = {bad}
    plain = plain
    full = full
    short = short
    long = long
    Passwords <- MCPasswords
    Key <- MCKey
    Short = {short}
    Long = {long}
    Second = 2
    TTL = 3
    MaxTime = 4
    Null = Null
INVARIANTS
    TypeOK
    WinnerOwnsLogin
    ConflictMeansTaken
    TokenIsOwners
    TokenLivesItsTTL
CHECK_DEADLOCK FALSE
