------------------------------- MODULE Accounts -------------------------------
(***************************************************************************)
(* Accounts and tokens of the agent: Register and Login of AuthHandler,    *)
(* authService and pgxUserRepository, next to the table users, and the     *)
(* tokens jwtauth.Manager makes and verifies.                              *)
(*                                                                         *)
(* Requests of several clients run concurrently; each client waits for the *)
(* answer to one before it sends the next.  The id that PostgreSQL         *)
(* generates is identified with the login of its row.                      *)
(***************************************************************************)
EXTENDS Integers

CONSTANTS
    Clients,
    Logins,
    Malformed,  \* logins that loginRegex refuses
    Passwords,
    Short,      \* passwords of less than 6 bytes
    Long,       \* passwords of more than 72 bytes
    Key,        \* what bcrypt reads of each password: no more than 72 bytes
    Second,     \* how many ticks of the clock make a second
    TTL,        \* JWT_TOKEN_TTL, in ticks
    MaxTime,    \* bound on the clock
    Null

ASSUME NullAssumption == Null \notin Clients \cup Logins \cup Passwords

ASSUME KeyAssumption == DOMAIN Key = Passwords

ASSUME ClockAssumption == Second \in Nat \ {0} /\ TTL \in Nat /\ MaxTime \in Nat

VARIABLES
    users,      \* [Logins -> the password whose hash is in the row, or Null]
    wire,       \* INSERTs sent and not executed
    session,    \* [Clients -> the request that is being handled, or a token]
    registered, \* [Clients -> what it was told that it has registered]
    refused,    \* [Clients -> the logins it was told are taken]
    clock

vars == <<users, wire, session, registered, refused, clock>>

NoToken == [exp |-> 0, nbf |-> 0, asked |-> 0, issued |-> 0]

\* A session in which login and password were given.
Given(point, l, p) ==
    [at |-> point, login |-> l, password |-> p, hash |-> Null, token |-> NoToken]

Idle == Given("idle", Null, Null)

Init ==
    /\ users = [l \in Logins |-> Null]
    /\ wire = {}
    /\ session = [c \in Clients |-> Idle]
    /\ registered = [c \in Clients |-> {}]
    /\ refused = [c \in Clients |-> {}]
    /\ clock = 0

\* The client sends a request to /register or /login.
Ask(c, route, l, p) ==
    /\ session[c] = Idle
    /\ session' = [session EXCEPT ![c] = Given(route, l, p)]
    /\ UNCHANGED <<users, wire, registered, refused, clock>>

Goto(c, point) == session' = [session EXCEPT ![c].at = point]

\* An error other than 409: the client knows no more than before.
ReplyError(c) ==
    /\ session' = [session EXCEPT ![c] = Idle]
    /\ UNCHANGED <<registered, refused>>

\* 200, to a registration.
ReplyRegistered(c) ==
    /\ session' = [session EXCEPT ![c] = Idle]
    /\ registered' = [registered EXCEPT ![c] =
                        @ \cup {<<session[c].login, session[c].password>>}]
    /\ UNCHANGED refused

\* 409
ReplyConflict(c) ==
    /\ session' = [session EXCEPT ![c] = Idle]
    /\ refused' = [refused EXCEPT ![c] = @ \cup {session[c].login}]
    /\ UNCHANGED registered

-----------------------------------------------------------------------------
\* Register

\* Mutant: the hasher does not look at the length.
HashableAlways(p) == TRUE

Hashable(p) == p \notin Long

\* Login and password have the right format.
WellFormed(l, p) == l \notin Malformed /\ p \notin Short

\* 400 for the format, 500 for the hasher.
RefuseRegistration(c) ==
    /\ session[c].at = "register"
    /\ \/ ~WellFormed(session[c].login, session[c].password)
       \/ ~Hashable(session[c].password)
    /\ ReplyError(c)
    /\ UNCHANGED <<users, wire, clock>>

\* The password is hashed and the INSERT sent.
CreateUser(c) ==
    /\ session[c].at = "register"
    /\ WellFormed(session[c].login, session[c].password)
    /\ Hashable(session[c].password)
    /\ wire' = wire \cup {[client |-> c, login |-> session[c].login,
                           password |-> session[c].password]}
    /\ Goto(c, "insert")
    /\ UNCHANGED <<users, registered, refused, clock>>

\* The UNIQUE index lets the first INSERT of a login through.
Inserted(s) ==
    IF users[s.login] = Null THEN [users EXCEPT ![s.login] = s.password] ELSE users

\* PostgreSQL executes an INSERT, awaited or not.
ExecuteInsert(s) ==
    /\ wire' = wire \ {s}
    /\ users' = Inserted(s)
    /\ IF s.client = Null THEN UNCHANGED session
       ELSE Goto(s.client, IF users[s.login] = Null THEN "inserted" ELSE "duplicate")
    /\ UNCHANGED <<registered, refused, clock>>

RegisterSucceeds(c) ==
    /\ session[c].at = "inserted"
    /\ ReplyRegistered(c)
    /\ UNCHANGED <<users, wire, clock>>

\* Mutant: the conflict is not told from success.
ConflictIgnored(c) ==
    /\ session[c].at = "duplicate"
    /\ ReplyRegistered(c)
    /\ UNCHANGED <<users, wire, clock>>

\* SQLSTATE 23505 of a constraint on login: ErrLoginAlreadyExists.
LoginAlreadyExists(c) ==
    /\ session[c].at = "duplicate"
    /\ ReplyConflict(c)
    /\ UNCHANGED <<users, wire, clock>>

\* What is left of c's INSERT when c gives it up: nothing, or, if it was not
\* executed yet, a statement that nobody waits for.
Leftovers(c) ==
    LET sent == {s \in wire : s.client = c}
    IN  {wire \ sent, (wire \ sent) \cup {[s EXCEPT !.client = Null] : s \in sent}}

\* Mutant: every error of the INSERT is taken for a conflict.
InsertFailsAsConflict(c) ==
    /\ session[c].at \in {"insert", "inserted", "duplicate"}
    /\ wire' \in Leftovers(c)
    /\ ReplyConflict(c)
    /\ UNCHANGED <<users, clock>>

\* The connection breaks, or the client's does and ends the context, before or
\* after the INSERT was executed: 500.
InsertFails(c) ==
    /\ session[c].at \in {"insert", "inserted", "duplicate"}
    /\ wire' \in Leftovers(c)
    /\ ReplyError(c)
    /\ UNCHANGED <<users, clock>>

-----------------------------------------------------------------------------
\* Login

\* The SELECT of GetUserByLogin finds the row.
FindUser(c) ==
    /\ session[c].at = "login"
    /\ users[session[c].login] # Null
    /\ session' = [session EXCEPT ![c].at = "compare",
                                  ![c].hash = users[session[c].login]]
    /\ UNCHANGED <<users, wire, registered, refused, clock>>

\* It finds none, or fails: 401 or 500.
NoUser(c) ==
    /\ session[c].at = "login"
    /\ ReplyError(c)
    /\ UNCHANGED <<users, wire, clock>>

\* Mutant: a login that exists is enough.
MatchesAny(hash, p) == TRUE

\* Unlike the hasher, Compare takes a password of any length.
Matches(hash, p) == Key[hash] = Key[p]

\* 401
WrongPassword(c) ==
    /\ session[c].at = "compare"
    /\ ~Matches(session[c].hash, session[c].password)
    /\ ReplyError(c)
    /\ UNCHANGED <<users, wire, clock>>

\* Generate reads the clock for the expiry ...
RightPassword(c) ==
    /\ session[c].at = "compare"
    /\ Matches(session[c].hash, session[c].password)
    /\ session' = [session EXCEPT ![c].at = "sign", ![c].token.asked = clock]
    /\ UNCHANGED <<users, wire, registered, refused, clock>>

\* Mutant: NumericDate rounds up.
RoundedUp(t) == ((t + Second - 1) \div Second) * Second

\* jwt.NewNumericDate drops the fraction of a second.
Truncated(t) == (t \div Second) * Second

\* ... and a second time for the time of issue.
Generate(c) ==
    /\ session[c].at = "sign"
    /\ session' = [session EXCEPT ![c].at = "holds", ![c].token =
                     [exp    |-> Truncated(session[c].token.asked + TTL),
                      nbf    |-> Truncated(clock),
                      asked  |-> session[c].token.asked,
                      issued |-> clock]]
    /\ UNCHANGED <<users, wire, registered, refused, clock>>

-----------------------------------------------------------------------------
\* Tokens

Verifies(token) == clock < token.exp /\ clock >= token.nbf

\* JWTAuth answers 401 to a request with a token that does not verify; the
\* client has to log in again.
Unauthorized(c) ==
    /\ session[c].at = "holds"
    /\ ~Verifies(session[c].token)
    /\ ReplyError(c)
    /\ UNCHANGED <<users, wire, clock>>

LogOut(c) ==
    /\ session[c].at = "holds"
    /\ session' = [session EXCEPT ![c] = Idle]
    /\ UNCHANGED <<users, wire, registered, refused, clock>>

Tick ==
    /\ clock < MaxTime
    /\ clock' = clock + 1
    /\ UNCHANGED <<users, wire, session, registered, refused>>

Handle(c) ==
    \/ \E l \in Logins, p \in Passwords :
         \/ Ask(c, "register", l, p)
         \/ Ask(c, "login", l, p)
    \/ RefuseRegistration(c)
    \/ CreateUser(c)
    \/ RegisterSucceeds(c)
    \/ LoginAlreadyExists(c)
    \/ InsertFails(c)
    \/ FindUser(c)
    \/ NoUser(c)
    \/ WrongPassword(c)
    \/ RightPassword(c)
    \/ Generate(c)
    \/ Unauthorized(c)
    \/ LogOut(c)

Next ==
    \/ \E c \in Clients : Handle(c)
    \/ \E s \in wire : ExecuteInsert(s)
    \/ Tick

Spec == Init /\ [][Next]_vars

-----------------------------------------------------------------------------

Points == {"idle", "register", "insert", "inserted", "duplicate",
           "login", "compare", "sign", "holds"}

Times == 0..(MaxTime + TTL)

Storable == Passwords \ (Short \cup Long)

TypeOK ==
    /\ users \in [Logins -> Storable \cup {Null}]
    /\ wire \subseteq [client : Clients \cup {Null}, login : Logins, password : Storable]
    /\ session \in [Clients ->
           [at       : Points,
            login    : Logins \cup {Null},
            password : Passwords \cup {Null},
            hash     : Storable \cup {Null},
            token    : [exp : Times, nbf : Times, asked : Times, issued : Times]]]
    /\ registered \in [Clients -> SUBSET (Logins \X Storable)]
    /\ refused \in [Clients -> SUBSET Logins]
    /\ clock \in 0..MaxTime

\* Whoever was told that it registered a login owns it from then on: the row
\* has its password, whatever else was registered at the same time, tried
\* again, or executed late.  So no two passwords win one login.
WinnerOwnsLogin ==
    \A c \in Clients : \A r \in registered[c] : users[r[1]] = r[2]

\* 409 is the answer only when the login is taken, and never to a failure of
\* the database.
ConflictMeansTaken ==
    \A c \in Clients : \A l \in refused[c] : users[l] # Null

\* A token names an account with the password its holder gave, as far as
\* bcrypt reads one: after 72 bytes whatever follows is accepted.
TokenIsOwners ==
    \A c \in Clients :
        session[c].at = "holds" =>
            LET owner == users[session[c].login] IN
            owner # Null /\ Key[owner] = Key[session[c].password]

\* A token is good for its TTL but for the last second, though its times lose
\* their fractions and come from two readings of the clock; never longer.
TokenLivesItsTTL ==
    \A c \in Clients :
        LET t == session[c].token IN
        session[c].at = "holds" =>
            /\ clock + Second <= t.asked + TTL => Verifies(t)
            /\ Verifies(t) => clock < t.issued + TTL
==============================================================================
