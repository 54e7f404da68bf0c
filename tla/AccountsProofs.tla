---------------------------- MODULE AccountsProofs ----------------------------
(***************************************************************************)
(* That an account belongs to whoever was told so, that 409 means a login  *)
(* is taken, and that a token is its owner's: for any clients, logins and  *)
(* passwords, and any clock.  Then what a token's lifetime owes to the two  *)
(* readings of the clock it is made of.                                     *)
(***************************************************************************)
EXTENDS Accounts, TLAPS

Token == [exp : Int, nbf : Int, asked : Int, issued : Int]

Session == [at       : Points,
            login    : Logins \cup {Null},
            password : Passwords \cup {Null},
            hash     : Passwords \cup {Null},
            token    : Token]

Statement == [client : Clients \cup {Null}, login : Logins, password : Passwords]

\* What TypeOK says, without the bounds of the clock.
Typed ==
    /\ users \in [Logins -> Passwords \cup {Null}]
    /\ wire \subseteq Statement
    /\ session \in [Clients -> Session]
    /\ registered \in [Clients -> SUBSET (Logins \X Passwords)]
    /\ refused \in [Clients -> SUBSET Logins]
    /\ clock \in Int

\* An INSERT on the wire is that of a client that waits for it, or nobody's.
WireInv ==
    \A s \in wire :
        s.client # Null =>
            /\ session[s.client].at = "insert"
            /\ session[s.client].login = s.login
            /\ session[s.client].password = s.password

\* What a handler knows of the table when it is at a point.
Known(s) ==
    /\ s.at # "idle" => s.login \in Logins /\ s.password \in Passwords
    /\ s.at = "inserted" => users[s.login] = s.password
    /\ s.at \in {"sign", "holds"} =>
         users[s.login] # Null /\ Key[users[s.login]] = Key[s.password]
    /\ s.at = "duplicate" => users[s.login] # Null
    /\ s.at = "compare" => s.hash # Null /\ users[s.login] = s.hash

PointInv == \A c \in Clients : Known(session[c])

Inv ==
    /\ Typed
    /\ WireInv
    /\ PointInv
    /\ WinnerOwnsLogin
    /\ ConflictMeansTaken

\* An empty table, an empty wire and no client.
LEMMA InitInv == Init => Inv
BY NullAssumption, ClockAssumption DEF Init, Inv, Typed, WireInv, PointInv, Known,
   WinnerOwnsLogin, ConflictMeansTaken, Session, Points, Token, Idle, Given, NoToken

\* The rows of a table that only grows keep what is known of them.
LEMMA GrowingKeeps ==
    ASSUME Inv, Typed', UNCHANGED <<registered, refused>>,
           \A l \in Logins : users[l] # Null => users'[l] = users[l]
    PROVE  WinnerOwnsLogin' /\ ConflictMeansTaken'
<1>1. \A c \in Clients : \A r \in registered[c] :
          r[1] \in Logins /\ r[2] \in Passwords
  BY DEF Inv, Typed
<1>2. \A c \in Clients : \A l \in refused[c] : l \in Logins
  BY DEF Inv, Typed
<1> QED
  BY <1>1, <1>2, NullAssumption DEF Inv, WinnerOwnsLogin, ConflictMeansTaken

\* A step of a handler that leaves the table and the wire alone keeps the
\* invariant, if its client knows afterwards only what is true of the table.
LEMMA HandlerStep ==
    ASSUME Inv, NEW c \in Clients, NEW s \in Session,
           session' = [session EXCEPT ![c] = s],
           session[c].at # "insert",
           s.at # "idle" => s.login \in Logins /\ s.password \in Passwords,
           Known(s),
           UNCHANGED <<users, wire, registered, refused, clock>>
    PROVE  Inv'
<1>1. Typed'
  BY DEF Inv, Typed
<1>2. WireInv'
  <2> SUFFICES ASSUME NEW t \in wire, t.client # Null
               PROVE  /\ session'[t.client].at = "insert"
                      /\ session'[t.client].login = t.login
                      /\ session'[t.client].password = t.password
    BY DEF WireInv
  <2>1. t.client \in Clients
    BY DEF Inv, Typed, Statement
  <2>2. t.client # c
    BY DEF Inv, WireInv
  <2> QED BY <2>1, <2>2 DEF Inv, WireInv, Typed
<1>3. PointInv'
  BY DEF Inv, Typed, PointInv, Known
<1>4. WinnerOwnsLogin' /\ ConflictMeansTaken'
  BY DEF Inv, WinnerOwnsLogin, ConflictMeansTaken
<1> QED BY <1>1, <1>2, <1>3, <1>4 DEF Inv

\* A client without a request or token knows nothing of the table.
LEMMA IdleKnowsNothing == Idle \in Session /\ Known(Idle)
BY DEF Idle, Given, NoToken, Session, Points, Token, Known

\* The handlers of /login, the refusals of /register, and the end of a session.
LEMMA LoginStep ==
    ASSUME Inv, NEW c \in Clients,
           \/ \E route \in {"register", "login"}, l \in Logins, p \in Passwords :
                Ask(c, route, l, p)
           \/ RefuseRegistration(c) \/ FindUser(c) \/ NoUser(c) \/ WrongPassword(c)
           \/ RightPassword(c) \/ Generate(c) \/ Unauthorized(c) \/ LogOut(c)
    PROVE  Inv'
<1> DEFINE now == session[c]
<1>0. session \in [Clients -> Session] /\ now \in Session /\ Known(now)
  BY DEF Inv, Typed, PointInv
<1>1. ASSUME NEW route \in {"register", "login"}, NEW l \in Logins,
             NEW p \in Passwords, Ask(c, route, l, p)
      PROVE  Inv'
  <2>1. Given(route, l, p) \in Session
    BY DEF Given, NoToken, Session, Points, Token
  <2>2. /\ Given(route, l, p).at = route
        /\ Given(route, l, p).login = l
        /\ Given(route, l, p).password = p
    BY DEF Given
  <2>3. Known(Given(route, l, p))
    BY <2>2 DEF Known
  <2>4. session[c].at # "insert"
    BY <1>1 DEF Ask, Idle, Given
  <2> QED BY <1>1, <2>1, <2>2, <2>3, <2>4, HandlerStep DEF Ask
<1>2. CASE RefuseRegistration(c) \/ NoUser(c) \/ WrongPassword(c) \/ Unauthorized(c)
           \/ LogOut(c)
  <2>1. /\ session' = [session EXCEPT ![c] = Idle]
        /\ session[c].at # "insert"
        /\ UNCHANGED <<users, wire, registered, refused, clock>>
    BY <1>2 DEF RefuseRegistration, NoUser, WrongPassword, Unauthorized, LogOut,
       ReplyError
  <2>2. Idle.at = "idle"
    BY DEF Idle, Given
  <2> QED BY <2>1, <2>2, IdleKnowsNothing, HandlerStep
<1>3. CASE FindUser(c)
  <2> DEFINE s == [now EXCEPT !.at = "compare", !.hash = users[now.login]]
  <2>1. now.login \in Logins /\ now.password \in Passwords /\ users[now.login] # Null
    BY <1>0, <1>3 DEF FindUser, Known
  <2>2. users[now.login] \in Passwords
    BY <2>1 DEF Inv, Typed
  <2>3. s \in Session /\ Known(s) /\ s.login = now.login /\ s.password = now.password
    BY <1>0, <2>1, <2>2 DEF Session, Points, Known
  <2>4. session' = [session EXCEPT ![c] = s]
    BY <1>0, <1>3 DEF FindUser
  <2>5. session[c].at # "insert" /\ UNCHANGED <<users, wire, registered, refused, clock>>
    BY <1>3 DEF FindUser
  <2> HIDE DEF s
  <2> QED BY <2>1, <2>3, <2>4, <2>5, HandlerStep
<1>4. CASE RightPassword(c)
  <2> DEFINE s == [now EXCEPT !.at = "sign", !.token.asked = clock]
  <2>1. now.login \in Logins /\ now.password \in Passwords
        /\ users[now.login] # Null /\ Key[users[now.login]] = Key[now.password]
    BY <1>0, <1>4 DEF RightPassword, Known, Matches
  <2>2. s \in Session /\ Known(s) /\ s.login = now.login /\ s.password = now.password
    BY <1>0, <2>1 DEF Session, Token, Points, Known, Inv, Typed
  <2>3. session' = [session EXCEPT ![c] = s]
    BY <1>0, <1>4 DEF RightPassword
  <2>4. session[c].at # "insert" /\ UNCHANGED <<users, wire, registered, refused, clock>>
    BY <1>4 DEF RightPassword
  <2> HIDE DEF s
  <2> QED BY <2>1, <2>2, <2>3, <2>4, HandlerStep
<1>5. CASE Generate(c)
  <2> DEFINE tok == [exp |-> Truncated(now.token.asked + TTL), nbf |-> Truncated(clock),
                     asked |-> now.token.asked, issued |-> clock]
             s == [now EXCEPT !.at = "holds", !.token = tok]
  <2>1. now.login \in Logins /\ now.password \in Passwords
        /\ users[now.login] # Null /\ Key[users[now.login]] = Key[now.password]
    BY <1>0, <1>5 DEF Generate, Known
  <2>2. tok \in Token
    BY <1>0, ClockAssumption DEF Token, Truncated, Session, Inv, Typed
  <2> HIDE DEF tok
  <2>3. s \in Session /\ Known(s) /\ s.login = now.login /\ s.password = now.password
    BY <1>0, <2>1, <2>2 DEF Session, Points, Known
  <2>4. session' = [session EXCEPT ![c] = s]
    BY <1>0, <1>5 DEF Generate, tok
  <2>5. session[c].at # "insert" /\ UNCHANGED <<users, wire, registered, refused, clock>>
    BY <1>5 DEF Generate
  <2> HIDE DEF s
  <2> QED BY <2>1, <2>3, <2>4, <2>5, HandlerStep
<1> QED BY <1>1, <1>2, <1>3, <1>4, <1>5

\* The INSERT is sent for what the client asked, and nothing else is on the
\* wire for this client.
LEMMA CreateStep ==
    ASSUME Inv, NEW c \in Clients, CreateUser(c)
    PROVE  Inv'
<1> DEFINE s == [client |-> c, login |-> session[c].login,
                 password |-> session[c].password]
<1>1. session[c].login \in Logins /\ session[c].password \in Passwords
  BY DEF Inv, PointInv, Known, CreateUser
<1>2. s \in Statement
  BY <1>1 DEF Statement
<1>3. /\ wire' = wire \cup {s}
      /\ session' = [session EXCEPT ![c].at = "insert"]
      /\ UNCHANGED <<users, registered, refused, clock>>
  BY DEF CreateUser, Goto
<1>4. Typed'
  BY <1>2, <1>3 DEF Inv, Typed, Session, Points
<1>5. WireInv'
  BY <1>3 DEF Inv, Typed, Session, WireInv, Statement
<1>6. PointInv'
  BY <1>1, <1>3 DEF Inv, Typed, Session, PointInv, Known
<1>7. WinnerOwnsLogin' /\ ConflictMeansTaken'
  BY <1>3 DEF Inv, WinnerOwnsLogin, ConflictMeansTaken
<1> QED BY <1>4, <1>5, <1>6, <1>7 DEF Inv

\* The answers to a registration: what the handler knows at the point it is at
\* is what the client is told.
LEMMA AnswerStep ==
    ASSUME Inv, NEW c \in Clients,
           RegisterSucceeds(c) \/ LoginAlreadyExists(c) \/ InsertFails(c)
    PROVE  Inv'
<1> DEFINE l == session[c].login
           p == session[c].password
<1>1. l \in Logins /\ p \in Passwords
  BY DEF Inv, PointInv, Known, RegisterSucceeds, LoginAlreadyExists, InsertFails
<1>2. /\ session' = [session EXCEPT ![c] = Idle]
      /\ UNCHANGED <<users, clock>>
  BY DEF RegisterSucceeds, LoginAlreadyExists, InsertFails, ReplyRegistered,
     ReplyConflict, ReplyError
<1>3. \A s \in wire' : /\ s \in Statement
                       /\ s.client # Null => s \in wire /\ s.client # c
  <2>1. CASE RegisterSucceeds(c) \/ LoginAlreadyExists(c)
    BY <2>1 DEF RegisterSucceeds, LoginAlreadyExists, Inv, Typed, WireInv
  <2>2. CASE InsertFails(c)
    BY <2>2 DEF InsertFails, Leftovers, Inv, Typed, Statement
  <2> QED BY <2>1, <2>2
<1>4. Typed'
  <2>1. registered' \in [Clients -> SUBSET (Logins \X Passwords)]
    BY <1>1 DEF RegisterSucceeds, LoginAlreadyExists, InsertFails, ReplyRegistered,
       ReplyConflict, ReplyError, Inv, Typed
  <2>2. refused' \in [Clients -> SUBSET Logins]
    BY <1>1 DEF RegisterSucceeds, LoginAlreadyExists, InsertFails, ReplyRegistered,
       ReplyConflict, ReplyError, Inv, Typed
  <2> QED BY <1>2, <1>3, <2>1, <2>2, IdleKnowsNothing DEF Inv, Typed
<1>5. WireInv'
  BY <1>2, <1>3 DEF Inv, Typed, WireInv, Statement
<1>6. PointInv'
  BY <1>2, IdleKnowsNothing DEF Inv, Typed, PointInv, Known
<1>7. WinnerOwnsLogin'
  <2>1. CASE RegisterSucceeds(c)
    <3>1. users[l] = p
      BY <2>1 DEF RegisterSucceeds, Inv, PointInv, Known
    <3>2. registered' = [registered EXCEPT ![c] = @ \cup {<<l, p>>}]
      BY <2>1 DEF RegisterSucceeds, ReplyRegistered
    <3> QED BY <1>2, <3>1, <3>2 DEF Inv, Typed, WinnerOwnsLogin
  <2>2. CASE LoginAlreadyExists(c) \/ InsertFails(c)
    BY <1>2, <2>2 DEF LoginAlreadyExists, InsertFails, ReplyConflict, ReplyError, Inv,
       WinnerOwnsLogin
  <2> QED BY <2>1, <2>2
<1>8. ConflictMeansTaken'
  <2>1. CASE LoginAlreadyExists(c)
    <3>1. users[l] # Null
      BY <2>1 DEF LoginAlreadyExists, Inv, PointInv, Known
    <3>2. refused' = [refused EXCEPT ![c] = @ \cup {l}]
      BY <2>1 DEF LoginAlreadyExists, ReplyConflict
    <3> QED BY <1>2, <3>1, <3>2 DEF Inv, Typed, ConflictMeansTaken
  <2>2. CASE RegisterSucceeds(c) \/ InsertFails(c)
    BY <1>2, <2>2 DEF RegisterSucceeds, InsertFails, ReplyRegistered, ReplyError, Inv,
       ConflictMeansTaken
  <2> QED BY <2>1, <2>2
<1> QED BY <1>4, <1>5, <1>6, <1>7, <1>8 DEF Inv

\* PostgreSQL executes an INSERT: the table grows by a row or stays, and the
\* client that waits, if there is one, learns which.
LEMMA ExecuteStep ==
    ASSUME Inv, NEW s \in wire, ExecuteInsert(s)
    PROVE  Inv'
<1> DEFINE c == s.client
           l == s.login
           point == IF users[l] = Null THEN "inserted" ELSE "duplicate"
<1>1. /\ c \in Clients \cup {Null}
      /\ l \in Logins
      /\ s.password \in Passwords
      /\ Null \notin Clients
      /\ s.password # Null
  BY NullAssumption DEF Inv, Typed, Statement
<1>2. /\ wire' = wire \ {s}
      /\ users' = IF users[l] = Null THEN [users EXCEPT ![l] = s.password] ELSE users
      /\ session' = IF c = Null THEN session ELSE [session EXCEPT ![c].at = point]
      /\ UNCHANGED <<registered, refused, clock>>
  BY DEF ExecuteInsert, Inserted, Goto
<1>3. Typed'
  <2>1. users' \in [Logins -> Passwords \cup {Null}]
    BY <1>1, <1>2 DEF Inv, Typed
  <2>2. session' \in [Clients -> Session]
    BY <1>1, <1>2 DEF Inv, Typed, Session, Points
  <2> QED BY <1>2, <2>1, <2>2 DEF Inv, Typed
<1>4. \A k \in Logins : users[k] # Null => users'[k] = users[k]
  BY <1>1, <1>2 DEF Inv, Typed
<1>5. users'[l] # Null /\ (users[l] = Null => users'[l] = s.password)
  BY <1>1, <1>2 DEF Inv, Typed
<1>6. WireInv'
  <2> SUFFICES ASSUME NEW t \in wire', t.client # Null
               PROVE  /\ session'[t.client].at = "insert"
                      /\ session'[t.client].login = t.login
                      /\ session'[t.client].password = t.password
    BY DEF WireInv
  <2>1. t \in wire /\ t # s /\ t \in Statement /\ s \in Statement
    BY <1>2 DEF Inv, Typed
  <2>2. t.client # c
    BY <2>1 DEF Inv, WireInv, Statement
  <2> QED BY <1>1, <1>2, <2>1, <2>2 DEF Inv, WireInv, Typed
<1>7. PointInv'
  <2> SUFFICES ASSUME NEW d \in Clients
               PROVE  Known(session[d])' 
    BY DEF PointInv
  <2>1. Known(session[d]) /\ session[d] \in Session
    BY DEF Inv, PointInv, Typed
  <2>2. CASE d # c
    <3>1. session'[d] = session[d]
      BY <1>1, <1>2, <2>2 DEF Inv, Typed
    <3> QED BY <1>4, <2>1, <3>1, NullAssumption DEF Known, Session
  <2>3. CASE d = c
    <3>1. /\ session[d].login = l
          /\ session[d].password = s.password
      BY <1>1, <2>3 DEF Inv, WireInv
    <3>2. session'[d] = [session[d] EXCEPT !.at = point]
      BY <1>1, <1>2, <2>3 DEF Inv, Typed
    <3>3. /\ session'[d].at = point
          /\ session'[d].login = l
          /\ session'[d].password = s.password
      BY <2>1, <3>1, <3>2 DEF Session
    <3> QED BY <1>1, <1>5, <3>3 DEF Known
  <2> QED BY <2>2, <2>3
<1>8. WinnerOwnsLogin' /\ ConflictMeansTaken'
  BY <1>2, <1>3, <1>4, GrowingKeeps
<1> QED BY <1>3, <1>6, <1>7, <1>8 DEF Inv

\* The invariant does not speak of the clock.
LEMMA TickStep ==
    ASSUME Inv, Tick
    PROVE  Inv'
BY ClockAssumption DEF Tick, Inv, Typed, WireInv, PointInv, Known, WinnerOwnsLogin,
   ConflictMeansTaken

\* Every step keeps the invariant.
LEMMA NextInv == Inv /\ [Next]_vars => Inv'
<1> SUFFICES ASSUME Inv, [Next]_vars PROVE Inv'
  OBVIOUS
<1>1. ASSUME NEW c \in Clients, Handle(c) PROVE Inv'
  BY <1>1, LoginStep, CreateStep, AnswerStep DEF Handle
<1>2. ASSUME NEW s \in wire, ExecuteInsert(s) PROVE Inv'
  BY <1>2, ExecuteStep
<1>3. CASE Tick
  BY <1>3, TickStep
<1>4. CASE UNCHANGED vars
  BY <1>4 DEF vars, Inv, Typed, WireInv, PointInv, Known, WinnerOwnsLogin,
     ConflictMeansTaken
<1> QED BY <1>1, <1>2, <1>3, <1>4 DEF Next

\* The invariant: what is on the wire is what a client waits for or what
\* nobody waits for, and what a handler has learned of a row stays true.
THEOREM AccountsInvariance == Spec => []Inv
BY InitInv, NextInv, PTL DEF Spec

\* Whoever was told that it registered a login owns it from then on.
THEOREM WinnerTheorem == Spec => []WinnerOwnsLogin
<1>1. Inv => WinnerOwnsLogin
  BY DEF Inv
<1> QED BY <1>1, AccountsInvariance, PTL

\* 409 is answered only of a login that is taken.
THEOREM ConflictTheorem == Spec => []ConflictMeansTaken
<1>1. Inv => ConflictMeansTaken
  BY DEF Inv
<1> QED BY <1>1, AccountsInvariance, PTL

\* A token names an account with the password its holder gave, as far as
\* bcrypt reads one, whatever it reads.
THEOREM TokenTheorem == Spec => []TokenIsOwners
<1>1. Inv => TokenIsOwners
  BY DEF Inv, PointInv, Known, TokenIsOwners
<1> QED BY <1>1, AccountsInvariance, PTL

-----------------------------------------------------------------------------
\* Types and times.  The invariant above leaves out the bounds of the clock and
\* which passwords can be stored; what follows adds them to it.

\* NumericDate loses less than a second, and never adds to a time.
LEMMA TruncatedLoses ==
    ASSUME NEW t \in Nat
    PROVE  /\ Truncated(t) \in Nat
           /\ Truncated(t) <= t
           /\ t < Truncated(t) + Second
<1>1. /\ t \div Second \in Nat
      /\ (t \div Second) * Second <= t
      /\ t < (t \div Second) * Second + Second
  BY ClockAssumption
<1> QED BY <1>1, ClockAssumption DEF Truncated

TimedToken == [exp : Times, nbf : Times, asked : Times, issued : Times]

TimedSession == [at       : Points,
                 login    : Logins \cup {Null},
                 password : Passwords \cup {Null},
                 hash     : Storable \cup {Null},
                 token    : TimedToken]

\* What a session's token owes to the two readings of the clock, and whose
\* password the hasher has accepted.
Timed(s) ==
    /\ s.at \in {"insert", "inserted"} => s.password \in Storable
    /\ s.at = "sign" => s.token.asked <= clock
    /\ s.at = "holds" =>
         /\ s.token.asked <= s.token.issued
         /\ s.token.issued <= clock
         /\ s.token.exp = Truncated(s.token.asked + TTL)
         /\ s.token.nbf = Truncated(s.token.issued)

TimedInv ==
    /\ TypeOK
    /\ \A c \in Clients : Timed(session[c])

\* No token and no request.
LEMMA IdleIsTimed == Idle \in TimedSession /\ Idle.at = "idle"
BY ClockAssumption DEF Idle, Given, NoToken, TimedSession, TimedToken, Points, Times

\* The types, with the session named as above.
LEMMA TypeOKSessions == TypeOK => session \in [Clients -> TimedSession] /\ clock \in Times
BY ClockAssumption DEF TypeOK, TimedSession, TimedToken, Times

\* The initial state.
LEMMA InitTimed == Init => TimedInv
<1> SUFFICES ASSUME Init PROVE TimedInv
  OBVIOUS
<1>1. TypeOK
  BY IdleIsTimed, ClockAssumption DEF Init, TypeOK, TimedSession, TimedToken
<1>2. \A c \in Clients : Timed(session[c])
  BY IdleIsTimed DEF Init, Timed
<1> QED BY <1>1, <1>2 DEF TimedInv

\* A step of a handler after which its session is s.
LEMMA TimedStep ==
    ASSUME TimedInv, NEW c \in Clients, NEW s \in TimedSession, Timed(s),
           session' = [session EXCEPT ![c] = s],
           users' \in [Logins -> Storable \cup {Null}],
           wire' \subseteq [client : Clients \cup {Null}, login : Logins,
                            password : Storable],
           registered' \in [Clients -> SUBSET (Logins \X Storable)],
           refused' \in [Clients -> SUBSET Logins],
           UNCHANGED clock
    PROVE  TimedInv'
<1>1. session \in [Clients -> TimedSession]
  BY TypeOKSessions DEF TimedInv
<1>2. session' \in [Clients -> TimedSession]
  BY <1>1
<1>3. TypeOK'
  BY <1>2 DEF TimedInv, TypeOK, TimedSession, TimedToken
<1>4. \A d \in Clients : Timed(session[d])'
  BY <1>1 DEF TimedInv, Timed
<1> QED BY <1>3, <1>4 DEF TimedInv

\* Requests, logins and ends of sessions: only the session changes.
LEMMA TimedLogin ==
    ASSUME Inv, TimedInv, NEW c \in Clients,
           \/ \E route \in {"register", "login"}, l \in Logins, p \in Passwords :
                Ask(c, route, l, p)
           \/ RefuseRegistration(c) \/ FindUser(c) \/ NoUser(c) \/ WrongPassword(c)
           \/ RightPassword(c) \/ Generate(c) \/ Unauthorized(c) \/ LogOut(c)
    PROVE  TimedInv'
<1> DEFINE now == session[c]
<1>0. /\ session \in [Clients -> TimedSession] /\ now \in TimedSession
      /\ Timed(now) /\ Known(now) /\ clock \in 0..MaxTime /\ clock \in Times
      /\ users \in [Logins -> Storable \cup {Null}]
      /\ wire \subseteq [client : Clients \cup {Null}, login : Logins,
                         password : Storable]
      /\ registered \in [Clients -> SUBSET (Logins \X Storable)]
      /\ refused \in [Clients -> SUBSET Logins]
  BY TypeOKSessions DEF TimedInv, TypeOK, Inv, PointInv
<1>1. ASSUME NEW s \in TimedSession, Timed(s), session' = [session EXCEPT ![c] = s],
             UNCHANGED <<users, wire, registered, refused, clock>>
      PROVE  TimedInv'
  BY <1>0, <1>1, TimedStep
<1>2. ASSUME NEW route \in {"register", "login"}, NEW l \in Logins,
             NEW p \in Passwords, Ask(c, route, l, p)
      PROVE  TimedInv'
  <2>1. Given(route, l, p) \in TimedSession
    BY ClockAssumption DEF Given, NoToken, TimedSession, Points, TimedToken, Times
  <2>2. Timed(Given(route, l, p))
    BY DEF Given, Timed
  <2> QED BY <1>1, <1>2, <2>1, <2>2 DEF Ask
<1>3. CASE RefuseRegistration(c) \/ NoUser(c) \/ WrongPassword(c) \/ Unauthorized(c)
           \/ LogOut(c)
  <2>1. Timed(Idle)
    BY IdleIsTimed DEF Timed
  <2> QED BY <1>1, <1>3, <2>1, IdleIsTimed DEF RefuseRegistration, NoUser,
             WrongPassword, Unauthorized, LogOut, ReplyError
<1>4. CASE FindUser(c)
  <2> DEFINE s == [now EXCEPT !.at = "compare", !.hash = users[now.login]]
  <2>1. users[now.login] \in Storable \cup {Null}
    BY <1>0, <1>4 DEF FindUser, Known
  <2>2. s \in TimedSession /\ Timed(s)
    BY <1>0, <2>1 DEF TimedSession, Points, Timed
  <2>3. session' = [session EXCEPT ![c] = s]
    BY <1>0, <1>4 DEF FindUser
  <2> HIDE DEF s
  <2> QED BY <1>1, <1>4, <2>2, <2>3 DEF FindUser
<1>5. CASE RightPassword(c)
  <2> DEFINE s == [now EXCEPT !.at = "sign", !.token.asked = clock]
  <2>1. now.token \in TimedToken /\ clock \in Nat
    BY <1>0 DEF TimedSession
  <2>2. s \in TimedSession /\ s.at = "sign" /\ s.token.asked = clock
    BY <1>0, <2>1 DEF TimedSession, TimedToken, Points
  <2>3. session' = [session EXCEPT ![c] = s]
    BY <1>0, <1>5 DEF RightPassword
  <2> HIDE DEF s
  <2>4. Timed(s)
    BY <2>1, <2>2 DEF Timed
  <2> QED BY <1>1, <1>5, <2>2, <2>3, <2>4 DEF RightPassword
<1>6. CASE Generate(c)
  <2> DEFINE tok == [exp |-> Truncated(now.token.asked + TTL), nbf |-> Truncated(clock),
                     asked |-> now.token.asked, issued |-> clock]
             s == [now EXCEPT !.at = "holds", !.token = tok]
  <2>1. now.token.asked \in Nat /\ now.token.asked <= clock
    BY <1>0, <1>6 DEF Generate, Timed, TimedSession, TimedToken, Times
  <2>2. clock \in Nat /\ clock <= MaxTime /\ now.token.asked + TTL \in Nat
    BY <1>0, <2>1, ClockAssumption
  <2>3. /\ Truncated(clock) \in Times
        /\ Truncated(now.token.asked + TTL) \in Times
        /\ now.token.asked \in Times
    BY <2>1, <2>2, TruncatedLoses, ClockAssumption DEF Times
  <2>4. tok \in TimedToken
    BY <1>0, <2>3 DEF TimedToken
  <2>5. s \in TimedSession /\ s.at = "holds" /\ s.token = tok
    BY <1>0, <2>4 DEF TimedSession, Points
  <2>6. Timed(s)
    BY <1>0, <2>1, <2>2, <2>5 DEF Timed
  <2>7. session' = [session EXCEPT ![c] = s]
    BY <1>0, <1>6 DEF Generate
  <2> HIDE DEF s
  <2> QED BY <1>1, <1>6, <2>5, <2>6, <2>7 DEF Generate
<1> QED BY <1>2, <1>3, <1>4, <1>5, <1>6

\* The steps of a registration: only a password that the hasher takes is sent,
\* stored and reported.
LEMMA TimedRegister ==
    ASSUME Inv, TimedInv, NEW c \in Clients,
           \/ CreateUser(c) \/ RegisterSucceeds(c) \/ LoginAlreadyExists(c)
           \/ InsertFails(c)
    PROVE  TimedInv'
<1> DEFINE now == session[c]
           Sent == [client : Clients \cup {Null}, login : Logins, password : Storable]
<1>0. /\ session \in [Clients -> TimedSession] /\ now \in TimedSession
      /\ Timed(now) /\ Known(now)
      /\ users \in [Logins -> Storable \cup {Null}]
      /\ wire \subseteq Sent
      /\ registered \in [Clients -> SUBSET (Logins \X Storable)]
      /\ refused \in [Clients -> SUBSET Logins]
  BY TypeOKSessions DEF TimedInv, TypeOK, Inv, PointInv
<1>1. Timed(Idle)
  BY IdleIsTimed DEF Timed
<1>2. now.login \in Logins /\ now.password \in Passwords
  BY <1>0 DEF Known, CreateUser, RegisterSucceeds, LoginAlreadyExists, InsertFails
<1>3. CASE CreateUser(c)
  <2> DEFINE s == [now EXCEPT !.at = "insert"]
  <2>1. now.password \in Storable
    BY <1>2, <1>3 DEF CreateUser, WellFormed, Hashable, Storable
  <2>2. wire' \subseteq Sent
    BY <1>0, <1>2, <1>3, <2>1 DEF CreateUser
  <2>3. s \in TimedSession /\ Timed(s)
    BY <1>0, <2>1 DEF TimedSession, Points, Timed
  <2>4. session' = [session EXCEPT ![c] = s]
    BY <1>0, <1>3 DEF CreateUser, Goto
  <2>5. UNCHANGED <<users, registered, refused, clock>>
    BY <1>3 DEF CreateUser
  <2> HIDE DEF s
  <2> QED BY <1>0, <2>2, <2>3, <2>4, <2>5, TimedStep
<1>4. CASE RegisterSucceeds(c)
  <2>1. now.password \in Storable
    BY <1>0, <1>4 DEF RegisterSucceeds, Timed
  <2>2. registered' \in [Clients -> SUBSET (Logins \X Storable)]
    BY <1>0, <1>2, <1>4, <2>1 DEF RegisterSucceeds, ReplyRegistered
  <2> QED BY <1>0, <1>1, <1>4, <2>2, TimedStep, IdleIsTimed
             DEF RegisterSucceeds, ReplyRegistered
<1>5. CASE LoginAlreadyExists(c)
  <2>1. refused' \in [Clients -> SUBSET Logins]
    BY <1>0, <1>2, <1>5 DEF LoginAlreadyExists, ReplyConflict
  <2> QED BY <1>0, <1>1, <1>5, <2>1, TimedStep, IdleIsTimed
             DEF LoginAlreadyExists, ReplyConflict
<1>6. CASE InsertFails(c)
  <2>1. wire' \subseteq Sent
    BY <1>0, <1>6 DEF InsertFails, Leftovers
  <2> QED BY <1>0, <1>1, <1>6, <2>1, TimedStep, IdleIsTimed DEF InsertFails, ReplyError
<1> QED BY <1>3, <1>4, <1>5, <1>6

\* PostgreSQL stores what was sent.
LEMMA TimedExecute ==
    ASSUME Inv, TimedInv, NEW s \in wire, ExecuteInsert(s)
    PROVE  TimedInv'
<1> DEFINE Sent == [client : Clients \cup {Null}, login : Logins, password : Storable]
           c == s.client
           point == IF users[s.login] = Null THEN "inserted" ELSE "duplicate"
<1>0. /\ session \in [Clients -> TimedSession]
      /\ \A d \in Clients : Timed(session[d])
      /\ users \in [Logins -> Storable \cup {Null}]
      /\ wire \subseteq Sent
      /\ registered \in [Clients -> SUBSET (Logins \X Storable)]
      /\ refused \in [Clients -> SUBSET Logins]
  BY TypeOKSessions DEF TimedInv, TypeOK
<1>1. s \in Sent /\ s.login \in Logins /\ s.password \in Storable
      /\ c \in Clients \cup {Null}
  BY <1>0
<1>2. users' \in [Logins -> Storable \cup {Null}] /\ wire' \subseteq Sent
      /\ registered' = registered /\ refused' = refused /\ clock' = clock
  BY <1>0, <1>1 DEF ExecuteInsert, Inserted
<1>3. CASE c = Null
  <2>1. session' = session
    BY <1>3 DEF ExecuteInsert
  <2>2. TypeOK'
    BY <1>2, <2>1 DEF TimedInv, TypeOK
  <2> QED BY <1>2, <2>1, <2>2 DEF TimedInv, Timed
<1>4. CASE c # Null
  <2> DEFINE t == [session[c] EXCEPT !.at = point]
  <2>1. c \in Clients
    BY <1>1, <1>4
  <2>2. session[c].password \in Storable
    BY <1>1, <1>4 DEF Inv, WireInv
  <2>3. t \in TimedSession /\ Timed(t)
    BY <1>0, <2>1, <2>2 DEF TimedSession, Points, Timed
  <2>4. session' = [session EXCEPT ![c] = t]
    BY <1>0, <1>4, <2>1 DEF ExecuteInsert, Goto
  <2> HIDE DEF t
  <2> QED BY <1>0, <1>2, <2>1, <2>3, <2>4, TimedStep
<1> QED BY <1>3, <1>4

\* Time that passes makes no token younger than it is.
LEMMA TimedTick ==
    ASSUME TimedInv, Tick
    PROVE  TimedInv'
<1>1. TypeOK'
  BY ClockAssumption DEF TimedInv, TypeOK, Tick
<1>2. ASSUME NEW c \in Clients PROVE Timed(session[c])'
  <2>1. session[c] \in TimedSession /\ Timed(session[c]) /\ clock \in Nat
    BY TypeOKSessions DEF TimedInv, TypeOK
  <2>2. session[c].token.asked \in Int /\ session[c].token.issued \in Int
    BY <2>1 DEF TimedSession, TimedToken, Times
  <2> QED BY <2>1, <2>2 DEF Tick, Timed
<1> QED BY <1>1, <1>2 DEF TimedInv

\* Every step keeps the types and the times.
LEMMA NextTimed == Inv /\ TimedInv /\ [Next]_vars => TimedInv'
<1> SUFFICES ASSUME Inv, TimedInv, [Next]_vars PROVE TimedInv'
  OBVIOUS
<1>1. ASSUME NEW c \in Clients, Handle(c) PROVE TimedInv'
  BY <1>1, TimedLogin, TimedRegister DEF Handle
<1>2. ASSUME NEW s \in wire, ExecuteInsert(s) PROVE TimedInv'
  BY <1>2, TimedExecute
<1>3. CASE Tick
  BY <1>3, TimedTick
<1>4. CASE UNCHANGED vars
  BY <1>4 DEF vars, TimedInv, TypeOK, Timed
<1> QED BY <1>1, <1>2, <1>3, <1>4 DEF Next

\* The second invariant, which the first one carries.
LEMMA TimedInvariance == Spec => []TimedInv
BY AccountsInvariance, InitTimed, NextTimed, PTL DEF Spec

\* Only passwords that the hasher takes are stored, sent and reported, and no
\* time of a token leaves the clock's range.
THEOREM TypeTheorem == Spec => []TypeOK
<1>1. TimedInv => TypeOK
  BY DEF TimedInv
<1> QED BY <1>1, TimedInvariance, PTL

\* A token is good for its TTL but for the last second, and never longer than
\* its TTL after it was issued.
THEOREM LifetimeTheorem == Spec => []TokenLivesItsTTL
<1>1. ASSUME TimedInv PROVE TokenLivesItsTTL
  <2> SUFFICES ASSUME NEW c \in Clients, session[c].at = "holds"
               PROVE  /\ clock + Second <= session[c].token.asked + TTL
                            => Verifies(session[c].token)
                      /\ Verifies(session[c].token)
                            => clock < session[c].token.issued + TTL
    BY DEF TokenLivesItsTTL
  <2> DEFINE t == session[c].token
  <2>1. session[c] \in TimedSession /\ Timed(session[c]) /\ clock \in Nat
    BY <1>1, TypeOKSessions DEF TimedInv, TypeOK
  <2>2. /\ t.asked \in Nat /\ t.issued \in Nat
        /\ t.asked <= t.issued /\ t.issued <= clock
        /\ t.exp = Truncated(t.asked + TTL)
        /\ t.nbf = Truncated(t.issued)
    BY <2>1 DEF TimedSession, TimedToken, Times, Timed
  <2>3. /\ t.exp \in Nat /\ t.exp <= t.asked + TTL /\ t.asked + TTL < t.exp + Second
        /\ t.nbf \in Nat /\ t.nbf <= t.issued
    BY <2>2, ClockAssumption, TruncatedLoses
  <2> QED BY <2>1, <2>2, <2>3, ClockAssumption DEF Verifies
<1> QED BY <1>1, TimedInvariance, PTL
==============================================================================
