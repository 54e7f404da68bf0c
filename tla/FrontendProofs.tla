---------------------------- MODULE FrontendProofs ----------------------------
(***************************************************************************)
(* That the page sends the token of the login it greets and shows what     *)
(* belongs to it, for any users, any number of requests and any order of   *)
(* their answers.                                                          *)
(***************************************************************************)
EXTENDS Frontend, TLAPS

\* The requests that are sent with a token.
Authorized == {"submit", "list", "details"}

\* The page is greeting nobody without a login, now and after a reload, and
\* what it sends is of the login it greets.
SessionInv ==
    /\ TokenIsOfLogin
    /\ login = Null => token = Null
    /\ stored.login = Null => stored.token = Null

\* What an answer that is under way may be: one of this session is for its
\* token, a login of this session is not answered yet, and what the agent
\* served it served to the user of the token.
CallInv(c) ==
    /\ ~c.crossed /\ c.op \in Authorized => c.as = token
    /\ ~c.crossed /\ c.op = "login" => ~LoggedIn
    /\ c.op \in {"register", "login"} => c.who \in Users
    /\ c.served /\ c.op \in Authorized => c.as \in Users
    /\ c.served /\ c.op = "details" => c.who = c.as

\* What is shown is of the token's user, or was rendered too late.
ViewInv ==
    ~crossed => /\ list.owner \in {Null, token}
                /\ details.owner \in {Null, token}

Inv ==
    /\ TypeOK
    /\ SessionInv
    /\ \A c \in calls : CallInv(c)
    /\ ViewInv

-----------------------------------------------------------------------------
\* Requests

\* What is shown when nothing is.
LEMMA NothingShown ==
    /\ NoList \in [owner : Users \cup {Null}, tasks : Nat, n : Nat]
    /\ NoDetails \in [state : {"hidden", "loading", "task", "error"},
                      owner : Users \cup {Null}]
    /\ NoList.owner = Null /\ NoDetails.owner = Null
BY DEF NoList, NoDetails

\* A request that is sent with the token is a call and has a new number.
LEMMA RequestType ==
    ASSUME sent \in Nat, token' \in Users \cup {Null, Garbage},
           NEW op \in {"register", "login", "submit", "list", "details"},
           NEW who \in Users \cup {Null}
    PROVE  /\ Request(op, who) \in Call
           /\ Request(op, who).n = sent + 1
           /\ [Request(op, who) EXCEPT !.as = Null] \in Call
           /\ [Request(op, who) EXCEPT !.as = Null].n = sent + 1
<1>1. Request(op, who) \in Call /\ Request(op, who).n = sent + 1
  BY DEF Request, Call
<1>2. ASSUME NEW r \in Call
      PROVE  [r EXCEPT !.as = Null] \in Call /\ [r EXCEPT !.as = Null].n = r.n
  BY DEF Call
<1> QED BY <1>1, <1>2

\* Crossing changes nothing but the mark.
LEMMA CrossingKeeps ==
    ASSUME NEW cs, cs \subseteq Call, NEW d \in Crossing(cs)
    PROVE  /\ d \in Call
           /\ d.crossed
           /\ \E c \in cs : /\ d.n = c.n /\ d.op = c.op /\ d.as = c.as
                            /\ d.who = c.who /\ d.served = c.served
<1>1. PICK c \in cs : d = [c EXCEPT !.crossed = TRUE]
  BY DEF Crossing
<1>2. c \in Call
  OBVIOUS
<1> QED BY <1>1, <1>2 DEF Call

\* A call that was served differs from itself in what the agent has put in.
LEMMA ServedKeeps ==
    ASSUME NEW c \in Call, NEW k \in Nat
    PROVE  LET d == [c EXCEPT !.served = TRUE, !.tasks = k]
           IN  /\ d \in Call
               /\ d.served
               /\ d.n = c.n /\ d.op = c.op /\ d.as = c.as
               /\ d.who = c.who /\ d.crossed = c.crossed
BY DEF Call

\* The calls after Fetch are those of rest and at most the one it sends.
LEMMA FetchSends ==
    ASSUME TypeOK, token' \in Users \cup {Null, Garbage},
           NEW op \in Authorized, NEW who \in Users \cup {Null}, NEW rest,
           \A c \in rest : c \in Call /\ c.n <= sent,
           Fetch(op, who, rest)
    PROVE  /\ sent' \in Nat
           /\ sent <= sent'
           /\ \A c \in calls' : c \in Call /\ c.n <= sent'
           /\ \A c \in calls' : \/ c \in rest
                                \/ ~c.served /\ c.op = op /\ c.as = token' /\ c.who = who
<1>1. sent \in Nat
  BY DEF TypeOK
<1>2. CASE token' = Null
  BY <1>1, <1>2 DEF Fetch
<1>3. CASE token' # Null
  <2>1. calls' = rest \cup {Request(op, who)} /\ sent' = sent + 1
    BY <1>3 DEF Fetch
  <2>2. Request(op, who) \in Call /\ Request(op, who).n = sent + 1
    BY <1>1, RequestType DEF Authorized
  <2>3. /\ ~Request(op, who).served /\ Request(op, who).op = op
        /\ Request(op, who).as = token' /\ Request(op, who).who = who
    BY DEF Request
  <2>4. \A c \in rest : c.n \in Nat
    BY DEF Call
  <2> QED BY <1>1, <1>3, <2>1, <2>2, <2>3, <2>4
<1> QED BY <1>2, <1>3

\* After UpdateAuthState: who is logged in keeps the view and asks for the list,
\* and nobody keeps nothing.
LEMMA AuthStateShows ==
    ASSUME TypeOK, token' \in Users \cup {Null, Garbage}, NEW rest,
           \A c \in rest : c \in Call /\ c.n <= sent,
           UpdateAuthState(rest)
    PROVE  /\ sent' \in Nat
           /\ sent <= sent'
           /\ \A c \in calls' : c \in Call /\ c.n <= sent'
           /\ \A c \in calls' : \/ c \in rest
                                \/ ~c.served /\ c.op = "list" /\ c.as = token'
           /\ \/ LoggedIn' /\ UNCHANGED <<list, details>>
              \/ list' = NoList /\ details' = NoDetails
<1>1. CASE token' # Null /\ login' # Null
  <2>1. Fetch("list", Null, rest) /\ UNCHANGED <<list, details>>
    BY <1>1 DEF UpdateAuthState, FetchTasks
  <2>2. "list" \in Authorized /\ Null \in Users \cup {Null}
    BY DEF Authorized
  <2>3. /\ sent' \in Nat
        /\ sent <= sent'
        /\ \A c \in calls' : c \in Call /\ c.n <= sent'
        /\ \A c \in calls' : \/ c \in rest
                             \/ ~c.served /\ c.op = "list" /\ c.as = token'
    <3>1. \A c \in calls' : \/ c \in rest
                            \/ /\ ~c.served /\ c.op = "list" /\ c.as = token'
                               /\ c.who = Null
      BY <2>1, <2>2, FetchSends
    <3>2. /\ sent' \in Nat
          /\ sent <= sent'
          /\ \A c \in calls' : c \in Call /\ c.n <= sent'
      BY <2>1, <2>2, FetchSends
    <3> QED BY <3>1, <3>2
  <2> QED BY <1>1, <2>1, <2>3 DEF LoggedIn
<1>2. CASE ~(token' # Null /\ login' # Null)
  <2>1. calls' = rest /\ sent' = sent /\ list' = NoList /\ details' = NoDetails
    BY <1>2 DEF UpdateAuthState
  <2>2. sent \in Nat
    BY DEF TypeOK
  <2> QED BY <2>1, <2>2
<1> QED BY <1>1, <1>2

\* The calls of the session that ends.
LEMMA CrossedCalls ==
    ASSUME Inv, NEW cs, cs \subseteq calls, NEW d \in Crossing(cs)
    PROVE  /\ d \in Call
           /\ d.n <= sent
           /\ d.crossed
           /\ d.op \in {"register", "login"} => d.who \in Users
           /\ d.served /\ d.op \in Authorized => d.as \in Users
           /\ d.served /\ d.op = "details" => d.who = d.as
<1>1. \A c \in cs : c \in Call /\ c.n <= sent /\ CallInv(c)
  BY DEF Inv, TypeOK
<1> QED BY <1>1, CrossingKeeps DEF CallInv

-----------------------------------------------------------------------------
\* A page starts with nothing.

LEMMA InvInit ==
    ASSUME Init
    PROVE  Inv
<1>1. TypeOK
  <2>1. visible \in BOOLEAN /\ crossed \in BOOLEAN
    BY DEF Init
  <2>2. /\ token = Null /\ login = Null
        /\ stored = [token |-> Null, login |-> Null]
        /\ list = NoList /\ details = NoDetails
        /\ timers = 0 /\ calls = {} /\ sent = 0 /\ lastList = 0
        /\ tasks = [u \in Users |-> 0] /\ known = [u \in Users |-> 0]
    BY DEF Init
  <2> QED BY <2>1, <2>2, NothingShown DEF TypeOK
<1>2. SessionInv /\ ViewInv
  BY NothingShown, UsersAssumption DEF Init, SessionInv, TokenIsOfLogin, ViewInv
<1> QED BY <1>1, <1>2 DEF Init, Inv

-----------------------------------------------------------------------------
\* What the user does

LEMMA SubmitFormKeeps ==
    ASSUME Inv, SubmitForm
    PROVE  Inv'
<1>1. PICK u \in Users, op \in {"register", "login"} :
         calls' = calls \cup {[Request(op, u) EXCEPT !.as = Null]}
  BY DEF SubmitForm
<1> DEFINE r == [Request(op, u) EXCEPT !.as = Null]
<1>2. /\ UNCHANGED <<token, login, stored, list, details, lastList, crossed>>
      /\ UNCHANGED <<visible, timers, tasks, known>>
      /\ sent' = sent + 1
      /\ ~LoggedIn
  BY DEF SubmitForm, session, view, message, server
<1>3. r \in Call /\ r.n = sent + 1
  BY <1>2, RequestType DEF Inv, TypeOK
<1>4. r.op = op /\ r.who = u /\ ~r.served
  BY DEF Request
<1>5. TypeOK'
  <2>1. \A c \in calls : c.n \in Nat
    BY DEF Inv, TypeOK, Call
  <2>2. sent \in Nat /\ lastList \in 0..sent
    BY DEF Inv, TypeOK
  <2>3. sent' \in Nat /\ lastList' \in 0..sent'
    BY <1>2, <2>2
  <2>4. \A c \in calls : c \in Call /\ c.n <= sent
    BY DEF Inv, TypeOK
  <2>5. \A c \in calls' : c \in Call /\ c.n <= sent'
    <3>1. sent <= sent' /\ \A c \in calls : c.n <= sent'
      BY <1>2, <2>1, <2>2, <2>4
    <3>2. r.n <= sent'
      BY <1>2, <1>3, <2>2
    <3>3. calls' = calls \cup {r}
      BY <1>1
    <3> HIDE DEF r
    <3> QED BY <1>3, <2>4, <3>1, <3>2, <3>3
  <2> QED BY <1>2, <2>3, <2>5 DEF Inv, TypeOK
<1>6. SessionInv' /\ ViewInv'
  BY <1>2 DEF Inv, SessionInv, TokenIsOfLogin, ViewInv
<1>7. ASSUME NEW c \in calls' PROVE CallInv(c)'
  <2>1. LoggedIn' = LoggedIn
    BY <1>2 DEF LoggedIn
  <2>2. CASE c \in calls
    BY <1>2, <2>1, <2>2 DEF Inv, CallInv
  <2>3. CASE c = r
    BY <1>2, <1>4, <2>1, <2>3 DEF CallInv, Authorized
  <2> QED BY <1>1, <2>2, <2>3
<1> QED BY <1>5, <1>6, <1>7 DEF Inv

LEMMA LogOutKeeps ==
    ASSUME Inv, LogOut
    PROVE  Inv'
<1> DEFINE rest == Crossing(calls)
<1>1. /\ token' = Null /\ login' = Null
      /\ stored' = [token |-> Null, login |-> Null]
      /\ UpdateAuthState(rest)
      /\ timers' = timers + 1
      /\ UNCHANGED <<lastList, tasks, known>>
  BY DEF LogOut, ShowMessage, server
<1>0. visible' \in BOOLEAN /\ crossed' \in BOOLEAN
  BY DEF LogOut, ShowMessage
<1>2. \A c \in rest : c \in Call /\ c.n <= sent
  BY CrossedCalls
<1>3. calls' = rest /\ sent' = sent /\ list' = NoList /\ details' = NoDetails
  BY <1>1 DEF UpdateAuthState
<1>4. TypeOK'
  BY <1>0, <1>1, <1>2, <1>3, NothingShown DEF Inv, TypeOK
<1>5. SessionInv' /\ ViewInv'
  BY <1>1, <1>3, NothingShown, UsersAssumption DEF SessionInv, TokenIsOfLogin, ViewInv
<1>6. ASSUME NEW c \in calls' PROVE CallInv(c)'
  BY <1>3, CrossedCalls DEF CallInv, Authorized
<1> QED BY <1>4, <1>5, <1>6 DEF Inv

\* expressionForm, refreshTasksButton, and the fetch after a submission: a
\* request is sent with the token, the session and the view stay.
LEMMA FetchKeeps ==
    ASSUME Inv, NEW op \in Authorized, NEW who \in Users \cup {Null},
           NEW rest, rest \subseteq calls, Fetch(op, who, rest),
           UNCHANGED <<token, login, stored, list, lastList, crossed, tasks>>,
           details' \in [state : {"hidden", "loading", "task", "error"},
                         owner : {Null, details.owner}],
           visible' \in BOOLEAN, timers' \in Nat, known' \in [Users -> Nat]
    PROVE  Inv'
<1>1. \A c \in rest : c \in Call /\ c.n <= sent
  BY DEF Inv, TypeOK
<1>2. token' \in Users \cup {Null, Garbage}
  BY DEF Inv, TypeOK
<1>3. /\ sent' \in Nat
      /\ sent <= sent'
      /\ \A c \in calls' : c \in Call /\ c.n <= sent'
      /\ \A c \in calls' : \/ c \in rest
                           \/ ~c.served /\ c.op = op /\ c.as = token' /\ c.who = who
  <2>1. TypeOK
    BY DEF Inv
  <2> QED BY <1>1, <1>2, <2>1, FetchSends
<1>4. TypeOK'
  BY <1>3 DEF Inv, TypeOK
<1>5. SessionInv' /\ ViewInv'
  BY DEF Inv, SessionInv, TokenIsOfLogin, ViewInv
<1>6. ASSUME NEW c \in calls' PROVE CallInv(c)'
  <2>1. LoggedIn' = LoggedIn
    BY DEF LoggedIn
  <2>2. CASE c \in rest
    BY <2>1, <2>2 DEF Inv, CallInv
  <2>3. CASE c \notin rest
    BY <1>3, <2>3 DEF CallInv, Authorized
  <2> QED BY <2>2, <2>3
<1> QED BY <1>4, <1>5, <1>6 DEF Inv

LEMMA AskKeeps ==
    ASSUME Inv, NEW op \in {"submit", "list"}, Ask(op)
    PROVE  Inv'
<1>1. /\ Fetch(op, Null, calls)
      /\ UNCHANGED <<token, login, stored, list, details, lastList, crossed, tasks,
                     known, visible, timers>>
  BY DEF Ask, session, view, message, server
<1>2. details' \in [state : {"hidden", "loading", "task", "error"},
                    owner : {Null, details.owner}]
  BY <1>1 DEF Inv, TypeOK
<1>3. visible' \in BOOLEAN /\ timers' \in Nat /\ known' \in [Users -> Nat]
  BY <1>1 DEF Inv, TypeOK
<1>4. op \in Authorized /\ Null \in Users \cup {Null}
  BY DEF Authorized
<1> QED BY <1>1, <1>2, <1>3, <1>4, FetchKeeps

LEMMA FetchTaskDetailsKeeps ==
    ASSUME Inv, FetchTaskDetails
    PROVE  Inv'
<1>1. /\ Fetch("details", list.owner, calls)
      /\ details' = [state |-> "loading", owner |-> Null]
      /\ UNCHANGED <<token, login, stored, list, lastList, crossed, tasks,
                     known, visible, timers>>
  BY DEF FetchTaskDetails, session, view, message, server
<1>2. list.owner \in Users \cup {Null}
  BY DEF Inv, TypeOK
<1>3. details' \in [state : {"hidden", "loading", "task", "error"},
                    owner : {Null, details.owner}]
  BY <1>1
<1>4. visible' \in BOOLEAN /\ timers' \in Nat /\ known' \in [Users -> Nat]
  BY <1>1 DEF Inv, TypeOK
<1>5. "details" \in Authorized
  BY DEF Authorized
<1> QED BY <1>1, <1>2, <1>3, <1>4, <1>5, FetchKeeps

LEMMA ReloadKeeps ==
    ASSUME Inv, Reload
    PROVE  Inv'
<1>1. /\ token' = stored.token /\ login' = stored.login
      /\ list' = NoList /\ details' = NoDetails
      /\ timers' = 0
      /\ UNCHANGED <<stored, lastList, tasks, known>>
  BY DEF Reload, server
<1>0. visible' \in BOOLEAN /\ crossed' \in BOOLEAN
  BY DEF Reload
<1>2. token' \in Users \cup {Null, Garbage} /\ login' \in Users \cup {Null}
  BY <1>1 DEF Inv, TypeOK
<1>3. /\ sent' \in Nat
      /\ sent <= sent'
      /\ \A c \in calls' : c \in Call /\ c.n <= sent'
      /\ \A c \in calls' : ~c.served /\ c.op = "list" /\ c.as = token'
  <2>1. CASE token' # Null /\ login' # Null
    <3>1. Fetch("list", Null, {})
      BY <2>1 DEF Reload, FetchTasks
    <3>2. TypeOK /\ "list" \in Authorized /\ Null \in Users \cup {Null}
      BY DEF Authorized, Inv
    <3> QED BY <1>2, <3>1, <3>2, FetchSends
  <2>2. CASE ~(token' # Null /\ login' # Null)
    BY <2>2 DEF Reload, Inv, TypeOK
  <2> QED BY <2>1, <2>2
<1>4. TypeOK'
  BY <1>0, <1>1, <1>2, <1>3, NothingShown DEF Inv, TypeOK
<1>5. SessionInv' /\ ViewInv'
  BY <1>1, NothingShown DEF Inv, SessionInv, TokenIsOfLogin, ViewInv
<1>6. ASSUME NEW c \in calls' PROVE CallInv(c)'
  BY <1>3 DEF CallInv, Authorized
<1> QED BY <1>4, <1>5, <1>6 DEF Inv

\* Showing and hiding a message, and sending nothing, concern nothing else.
LEMMA MessageKeeps ==
    ASSUME Inv, TimerFires \/ SwitchForm \/ SubmitNothing
    PROVE  Inv'
<1>1. /\ UNCHANGED <<token, login, stored, list, details, lastList, crossed>>
      /\ UNCHANGED <<calls, sent, tasks, known>>
  BY DEF TimerFires, SwitchForm, SubmitNothing, session, view, server
<1>2. visible' \in BOOLEAN
  BY DEF TimerFires, SwitchForm, SubmitNothing, ShowMessage
<1>3. timers' \in Nat
  BY DEF TimerFires, SwitchForm, SubmitNothing, ShowMessage, Inv, TypeOK
<1>4. TypeOK'
  BY <1>1, <1>2, <1>3 DEF Inv, TypeOK
<1> QED
  BY <1>1, <1>4 DEF Inv, SessionInv, TokenIsOfLogin, ViewInv, CallInv, LoggedIn

-----------------------------------------------------------------------------
\* Answers

\* The agent serves a request for the user of its token, and no other task than
\* its own.
LEMMA ServeKeeps ==
    ASSUME Inv, NEW c \in calls, Serve(c)
    PROVE  Inv'
<1> DEFINE k == IF c.as \in Users THEN tasks'[c.as] ELSE 0
           d == [c EXCEPT !.served = TRUE, !.tasks = k]
<1>1. /\ calls' = (calls \ {c}) \cup {d}
      /\ UNCHANGED <<token, login, stored, list, details, lastList, crossed>>
      /\ UNCHANGED <<visible, timers, sent, known>>
      /\ c.op \notin {"register", "login"} => c.as \in Users
      /\ c.op = "details" => c.who = c.as
  BY DEF Serve, session, view, message
<1>2. c \in Call /\ c.n <= sent /\ CallInv(c)
  BY DEF Inv, TypeOK
<1>3. tasks' \in [Users -> Nat]
  <2>1. CASE c.op = "submit"
    BY <1>1, <2>1 DEF Serve, Inv, TypeOK
  <2>2. CASE c.op # "submit"
    BY <2>2 DEF Serve, Inv, TypeOK
  <2> QED BY <2>1, <2>2
<1>4. k \in Nat
  BY <1>3
<1>5. /\ d \in Call /\ d.served
      /\ d.n = c.n /\ d.op = c.op /\ d.as = c.as /\ d.who = c.who
      /\ d.crossed = c.crossed
  <2> HIDE DEF k
  <2> QED BY <1>2, <1>4, ServedKeeps
<1> HIDE DEF d
<1>6. TypeOK'
  BY <1>1, <1>2, <1>3, <1>5 DEF Inv, TypeOK
<1>7. SessionInv' /\ ViewInv'
  BY <1>1 DEF Inv, SessionInv, TokenIsOfLogin, ViewInv
<1>8. ASSUME NEW e \in calls' PROVE CallInv(e)'
  <2>1. LoggedIn' = LoggedIn
    BY <1>1 DEF LoggedIn
  <2>2. CASE e \in calls
    BY <1>1, <2>1, <2>2 DEF Inv, CallInv
  <2>3. CASE e = d
    BY <1>1, <1>2, <1>5, <2>1, <2>3 DEF CallInv, Authorized
  <2> QED BY <1>1, <2>2, <2>3
<1> QED BY <1>6, <1>7, <1>8 DEF Inv

\* An answer that is not a login's leaves session and other calls alone; what
\* matters is what it puts into the view.
LEMMA AnswerKeeps ==
    ASSUME Inv, NEW c \in calls,
           UNCHANGED <<token, login, stored, sent, tasks, known>>,
           calls' = calls \ {c},
           list' \in [owner : Users \cup {Null}, tasks : Nat, n : Nat],
           details' \in [state : {"hidden", "loading", "task", "error"},
                         owner : Users \cup {Null}],
           visible' \in BOOLEAN, timers' \in Nat, lastList' \in 0..sent,
           crossed' \in BOOLEAN,
           ViewInv'
    PROVE  Inv'
<1>1. TypeOK'
  BY DEF Inv, TypeOK
<1>2. SessionInv'
  BY DEF Inv, SessionInv, TokenIsOfLogin
<1>3. \A d \in calls' : CallInv(d)'
  BY DEF Inv, CallInv, LoggedIn
<1> QED BY <1>1, <1>2, <1>3 DEF Inv

\* The newest request for the list that has ended was sent.
LEMMA NewestIsSent ==
    ASSUME Inv, NEW c \in calls, Newest(c.n) \/ UNCHANGED lastList
    PROVE  lastList' \in 0..sent
<1>1. c \in Call /\ c.n <= sent /\ sent \in Nat /\ lastList \in 0..sent
  BY DEF Inv, TypeOK
<1>2. c.n \in Nat
  BY <1>1 DEF Call
<1> QED BY <1>1, <1>2 DEF Newest

LEMMA ReceiveRegisterKeeps ==
    ASSUME Inv, NEW c \in calls, ReceiveRegister(c)
    PROVE  Inv'
<1>1. /\ UNCHANGED <<token, login, stored, list, details, lastList, crossed>>
      /\ UNCHANGED <<sent, tasks, known>>
      /\ calls' = calls \ {c} /\ timers' = timers + 1
  BY DEF ReceiveRegister, session, view, server
<1>2. visible' \in BOOLEAN
  BY DEF ReceiveRegister
<1>3. ViewInv'
  BY <1>1 DEF Inv, ViewInv
<1>4. /\ list' \in [owner : Users \cup {Null}, tasks : Nat, n : Nat]
      /\ details' \in [state : {"hidden", "loading", "task", "error"},
                       owner : Users \cup {Null}]
      /\ timers' \in Nat /\ lastList' \in 0..sent /\ crossed' \in BOOLEAN
  BY <1>1 DEF Inv, TypeOK
<1> QED BY <1>1, <1>2, <1>3, <1>4, AnswerKeeps

LEMMA ReceiveLoginKeeps ==
    ASSUME Inv, NEW c \in calls, ReceiveLogin(c)
    PROVE  Inv'
<1> DEFINE rest == Crossing(calls \ {c})
<1>1. /\ \/ token' = c.who /\ stored' = [token |-> c.who, login |-> c.who]
         \/ token' = Null /\ stored' = [token |-> Garbage, login |-> c.who]
      /\ login' = c.who
      /\ UpdateAuthState(rest)
      /\ timers' = timers + 1
      /\ UNCHANGED <<lastList, tasks, known>>
  BY DEF ReceiveLogin, ShowMessage, server
<1>2. /\ visible' \in BOOLEAN /\ crossed' \in BOOLEAN
      /\ ~crossed' => ~crossed /\ ~c.crossed
  BY DEF ReceiveLogin, ShowMessage
<1>3. c.op = "login" /\ CallInv(c) /\ c.who \in Users
  BY DEF ReceiveLogin, Arrives, Inv, CallInv
<1>4. \A d \in rest : d \in Call /\ d.n <= sent
  BY CrossedCalls
<1>5. token' \in Users \cup {Null, Garbage}
  BY <1>1, <1>3
<1>6. /\ sent' \in Nat
      /\ sent <= sent'
      /\ \A d \in calls' : d \in Call /\ d.n <= sent'
      /\ \A d \in calls' : \/ d \in rest
                           \/ ~d.served /\ d.op = "list" /\ d.as = token'
      /\ \/ LoggedIn' /\ UNCHANGED <<list, details>>
         \/ list' = NoList /\ details' = NoDetails
  <2>1. TypeOK
    BY DEF Inv
  <2> HIDE DEF rest
  <2> QED BY <1>1, <1>4, <1>5, <2>1, AuthStateShows
<1>7. TypeOK'
  <2>1. /\ list' \in [owner : Users \cup {Null}, tasks : Nat, n : Nat]
        /\ details' \in [state : {"hidden", "loading", "task", "error"},
                         owner : Users \cup {Null}]
    BY <1>6, NothingShown DEF Inv, TypeOK
  <2>2. /\ stored' \in [token : Users \cup {Null, Garbage}, login : Users \cup {Null}]
        /\ login' \in Users \cup {Null}
    BY <1>1, <1>3
  <2>3. lastList' \in 0..sent' /\ timers' \in Nat
    BY <1>1, <1>6 DEF Inv, TypeOK
  <2>4. tasks' \in [Users -> Nat] /\ known' \in [Users -> Nat]
    BY <1>1 DEF Inv, TypeOK
  <2> QED BY <1>2, <1>5, <1>6, <2>1, <2>2, <2>3, <2>4 DEF TypeOK
<1>8. SessionInv'
  BY <1>1, <1>3, UsersAssumption DEF SessionInv, TokenIsOfLogin
<1>9. ViewInv'
  <2>1. ASSUME ~crossed' PROVE list.owner = Null /\ details.owner = Null
    <3>1. ~crossed /\ ~LoggedIn
      BY <1>2, <1>3, <2>1 DEF CallInv
    <3>2. token = Null
      BY <3>1 DEF LoggedIn, Inv, SessionInv
    <3> QED BY <3>1, <3>2 DEF Inv, ViewInv
  <2> QED BY <1>6, <2>1, NothingShown DEF ViewInv
<1>10. ASSUME NEW d \in calls' PROVE CallInv(d)'
  <2>1. CASE d \in rest
    <3>1. calls \ {c} \subseteq calls
      OBVIOUS
    <3> QED BY <2>1, <3>1, CrossedCalls DEF CallInv
  <2>2. CASE d \notin rest
    BY <1>6, <2>2 DEF CallInv, Authorized
  <2> QED BY <2>1, <2>2
<1> QED BY <1>7, <1>8, <1>9, <1>10 DEF Inv

LEMMA ReceiveSubmitKeeps ==
    ASSUME Inv, NEW c \in calls, ReceiveSubmit(c)
    PROVE  Inv'
<1>1. /\ Fetch("list", Null, calls \ {c})
      /\ UNCHANGED <<token, login, stored, list, details, lastList, crossed, tasks>>
      /\ timers' = timers + 1
      /\ known' = [known EXCEPT ![c.as] = IF c.tasks > @ THEN c.tasks ELSE @]
  BY DEF ReceiveSubmit, ShowMessage, FetchTasks, session, view
<1>2. visible' \in BOOLEAN
  BY DEF ReceiveSubmit, ShowMessage
<1>3. known' \in [Users -> Nat]
  <2>1. c \in Call
    BY DEF Inv, TypeOK
  <2>2. c.tasks \in Nat
    BY <2>1 DEF Call
  <2> QED BY <1>1, <2>2 DEF Inv, TypeOK
<1>4. details' \in [state : {"hidden", "loading", "task", "error"},
                    owner : {Null, details.owner}]
  BY <1>1 DEF Inv, TypeOK
<1>5. timers' \in Nat
  BY <1>1 DEF Inv, TypeOK
<1>6. "list" \in Authorized /\ Null \in Users \cup {Null} /\ calls \ {c} \subseteq calls
  BY DEF Authorized
<1> QED BY <1>1, <1>2, <1>3, <1>4, <1>5, <1>6, FetchKeeps

LEMMA ReceiveListKeeps ==
    ASSUME Inv, NEW c \in calls, ReceiveList(c)
    PROVE  Inv'
<1>1. /\ UNCHANGED <<token, login, stored, details, visible, timers, sent, tasks, known>>
      /\ calls' = calls \ {c}
      /\ Newest(c.n)
      /\ \/ list' = [owner |-> c.as, tasks |-> c.tasks, n |-> c.n]
         \/ list' = NoList
      /\ c.served /\ c.op = "list"
  BY DEF ReceiveList, Arrives, session, message, server
<1>2. crossed' \in BOOLEAN /\ (~crossed' => ~crossed /\ ~c.crossed)
  BY DEF ReceiveList
<1>3. CallInv(c) /\ c.tasks \in Nat /\ c.n \in Nat
  BY DEF Inv, TypeOK, Call
<1>4. c.as \in Users
  BY <1>1, <1>3 DEF CallInv, Authorized
<1>5. list' \in [owner : Users \cup {Null}, tasks : Nat, n : Nat]
  BY <1>1, <1>3, <1>4, NothingShown
<1>6. ViewInv'
  <2>1. ASSUME ~crossed' PROVE c.as = token
    BY <1>1, <1>2, <1>3, <2>1 DEF CallInv, Authorized
  <2> QED BY <1>1, <1>2, <2>1, NothingShown DEF Inv, ViewInv
<1>7. lastList' \in 0..sent
  BY <1>1, NewestIsSent
<1>8. /\ details' \in [state : {"hidden", "loading", "task", "error"},
                       owner : Users \cup {Null}]
      /\ timers' \in Nat
  BY <1>1 DEF Inv, TypeOK
<1>9. visible' \in BOOLEAN
  BY <1>1 DEF Inv, TypeOK
<1>10. crossed' \in BOOLEAN
  BY <1>2
<1>11. UNCHANGED <<token, login, stored, sent, tasks, known>> /\ calls' = calls \ {c}
  BY <1>1
<1> QED BY <1>5, <1>6, <1>7, <1>8, <1>9, <1>10, <1>11, AnswerKeeps

LEMMA ReceiveDetailsKeeps ==
    ASSUME Inv, NEW c \in calls, ReceiveDetails(c)
    PROVE  Inv'
<1>1. /\ UNCHANGED <<token, login, stored, list, lastList, visible, timers, sent, tasks,
                     known>>
      /\ calls' = calls \ {c}
      /\ \/ details' = [state |-> "task", owner |-> c.who]
         \/ details' = [details EXCEPT !.state = IF @ = "hidden" THEN @ ELSE "error",
                                       !.owner = Null]
      /\ c.served /\ c.op = "details"
  BY DEF ReceiveDetails, Arrives, session, message, server
<1>2. crossed' \in BOOLEAN /\ (~crossed' => ~crossed /\ ~c.crossed)
  BY DEF ReceiveDetails
<1>3. CallInv(c)
  BY DEF Inv
<1>4. c.as \in Users /\ c.who = c.as
  BY <1>1, <1>3 DEF CallInv, Authorized
<1>5. /\ details' \in [state : {"hidden", "loading", "task", "error"},
                       owner : Users \cup {Null}]
      /\ details'.owner \in {Null, c.as}
  <2>1. CASE details' = [state |-> "task", owner |-> c.who]
    BY <1>4, <2>1
  <2>2. CASE details' # [state |-> "task", owner |-> c.who]
    <3>1. details \in [state : {"hidden", "loading", "task", "error"},
                       owner : Users \cup {Null}]
      BY DEF Inv, TypeOK
    <3>2. details' = [details EXCEPT !.state = IF @ = "hidden" THEN @ ELSE "error",
                                     !.owner = Null]
      BY <1>1, <2>2
    <3> QED BY <3>1, <3>2
  <2> QED BY <2>1, <2>2
<1>6. ViewInv'
  <2>1. ASSUME ~crossed' PROVE c.as = token
    BY <1>1, <1>2, <1>3, <2>1 DEF CallInv, Authorized
  <2> QED BY <1>1, <1>2, <1>5, <2>1 DEF Inv, ViewInv
<1>7. /\ list' \in [owner : Users \cup {Null}, tasks : Nat, n : Nat]
      /\ timers' \in Nat /\ lastList' \in 0..sent
  BY <1>1 DEF Inv, TypeOK
<1>8. visible' \in BOOLEAN
  BY <1>1 DEF Inv, TypeOK
<1>9. crossed' \in BOOLEAN
  BY <1>2
<1>10. UNCHANGED <<token, login, stored, sent, tasks, known>> /\ calls' = calls \ {c}
  BY <1>1
<1> QED BY <1>5, <1>6, <1>7, <1>8, <1>9, <1>10, AnswerKeeps

LEMMA FailKeeps ==
    ASSUME Inv, NEW c \in calls, Fail(c)
    PROVE  Inv'
<1>1. /\ UNCHANGED <<token, login, stored, list, sent, tasks, known>>
      /\ calls' = calls \ {c}
      /\ timers' = timers + 1
      /\ Newest(c.n) \/ UNCHANGED lastList
      /\ details' = details \/ details' = [state |-> "error", owner |-> Null]
  BY DEF Fail, ShowMessage, session, server
<1>2. visible' \in BOOLEAN /\ UNCHANGED crossed
  BY DEF Fail, ShowMessage
<1>3. /\ details' \in [state : {"hidden", "loading", "task", "error"},
                       owner : Users \cup {Null}]
      /\ list' \in [owner : Users \cup {Null}, tasks : Nat, n : Nat]
      /\ timers' \in Nat
  BY <1>1 DEF Inv, TypeOK
<1>4. crossed' \in BOOLEAN
  BY <1>2 DEF Inv, TypeOK
<1>5. ViewInv'
  BY <1>1, <1>2 DEF Inv, ViewInv
<1>6. lastList' \in 0..sent
  BY <1>1, NewestIsSent
<1>7. UNCHANGED <<token, login, stored, sent, tasks, known>> /\ calls' = calls \ {c}
  BY <1>1
<1>8. visible' \in BOOLEAN
  BY <1>2
<1> QED BY <1>3, <1>4, <1>5, <1>6, <1>7, <1>8, AnswerKeeps

-----------------------------------------------------------------------------

\* Every step of the user, the timers and the network keeps Inv.
LEMMA InvStep ==
    ASSUME Inv, [Next]_vars
    PROVE  Inv'
<1>1. CASE User
  <2>1. CASE SwitchForm \/ SubmitNothing
    BY <2>1, MessageKeeps
  <2>2. CASE Ask("submit") \/ Ask("list")
    BY <2>2, AskKeeps
  <2> QED
    BY <1>1, <2>1, <2>2, SubmitFormKeeps, LogOutKeeps, FetchTaskDetailsKeeps,
       ReloadKeeps DEF User
<1>2. CASE TimerFires
  BY <1>2, MessageKeeps
<1>3. CASE Network
  <2>1. PICK c \in calls : Serve(c) \/ Receive(c)
    BY <1>3 DEF Network
  <2> QED
    BY <2>1, ServeKeeps, ReceiveRegisterKeeps, ReceiveLoginKeeps, ReceiveSubmitKeeps,
       ReceiveListKeeps, ReceiveDetailsKeeps, FailKeeps DEF Receive
<1>4. CASE UNCHANGED vars
  BY <1>4 DEF vars, session, view, message, server, Inv, TypeOK, SessionInv,
     TokenIsOfLogin, ViewInv, CallInv, LoggedIn
<1> QED BY <1>1, <1>2, <1>3, <1>4 DEF Next

\* The inductive invariant of the page.
THEOREM Invariance ==
    Spec => []Inv
<1>1. Init => Inv
  BY InvInit
<1>2. Inv /\ [Next]_vars => Inv'
  BY InvStep
<1> QED BY <1>1, <1>2, PTL DEF Spec

\* Every variable of the page keeps its type, in any order of the answers.
THEOREM TypeCorrect ==
    Spec => []TypeOK
<1>1. Inv => TypeOK
  BY DEF Inv
<1> QED BY <1>1, Invariance, PTL

\* The page never sends one user's token while it greets another, and loads no
\* such pair from localStorage.
THEOREM TokenTheorem ==
    Spec => []TokenIsOfLogin
<1>1. Inv => TokenIsOfLogin
  BY DEF Inv, SessionInv
<1> QED BY <1>1, Invariance, PTL

\* What is shown is of the user who is logged in, unless an answer of another
\* session was rendered.
THEOREM ShownTheorem ==
    Spec => []ShownIsOwn
<1>1. ASSUME Inv PROVE ShownIsOwn
  <2>1. SUFFICES ASSUME LoggedIn, ~crossed
                 PROVE  list.owner \in {Null, login} /\ details.owner \in {Null, login}
    BY DEF ShownIsOwn
  <2>2. list.owner \in {Null, token} /\ details.owner \in {Null, token}
    BY <1>1, <2>1 DEF Inv, ViewInv
  <2>3. list.owner \in Users \cup {Null} /\ details.owner \in Users \cup {Null}
    BY <1>1 DEF Inv, TypeOK
  <2>4. token \in Users => login = token
    BY <1>1 DEF Inv, SessionInv, TokenIsOfLogin
  <2> QED BY <2>2, <2>3, <2>4
<1> QED BY <1>1, Invariance, PTL
-----------------------------------------------------------------------------
\* The list

\* The page was told of no more tasks than there are, an answer has no more
\* than there are by now, and the list is that of a request that has ended.
CountInv ==
    /\ \A u \in Users : known[u] <= tasks[u]
    /\ \A c \in calls : c.served /\ c.as \in Users => c.tasks <= tasks[c.as]
    /\ list.n <= lastList

\* From request w on every request for the list is of this session and is
\* answered with every task the page was told of, and w is under way or has
\* ended.
Fresh(w) ==
    /\ w <= lastList \/ \E c \in calls : c.op = "list" /\ c.n = w
    /\ \A c \in calls :
         c.op = "list" /\ w <= c.n =>
           c.as = token /\ (c.served => known[login] <= c.tasks)
    /\ w <= list.n => list.owner = token /\ known[login] <= list.tasks

ListInv ==
    /\ CountInv
    /\ LoggedIn => \E w \in 1..sent : Fresh(w)
\* The numbers these are about.
LEMMA ListNumbers ==
    ASSUME Inv
    PROVE  /\ sent \in Nat /\ lastList \in Nat /\ lastList <= sent
           /\ list.n \in Nat /\ list.tasks \in Nat
           /\ \A u \in Users : known[u] \in Nat /\ tasks[u] \in Nat
           /\ \A c \in calls : c \in Call /\ c.n \in Nat /\ c.n <= sent /\ c.tasks \in Nat
           /\ NoList.n = 0
<1>1. \A c \in calls : c \in Call /\ c.n <= sent
  BY DEF Inv, TypeOK
<1>2. \A c \in Call : c.n \in Nat /\ c.tasks \in Nat
  BY DEF Call
<1>3. /\ sent \in Nat /\ lastList \in Nat /\ lastList <= sent
      /\ list.n \in Nat /\ list.tasks \in Nat
  BY DEF Inv, TypeOK
<1>4. \A u \in Users : known[u] \in Nat /\ tasks[u] \in Nat
  BY DEF Inv, TypeOK
<1> QED BY <1>1, <1>2, <1>3, <1>4 DEF NoList

\* A request for the list that has just been sent begins anew.
LEMMA NewFresh ==
    ASSUME Inv, CountInv, NEW rest, \A c \in rest : c.n \in Nat /\ c.n <= sent,
           Fetch("list", Null, rest), token' # Null,
           UNCHANGED lastList, list' \in {list, NoList}
    PROVE  \E w \in 1..sent' : Fresh(w)'
<1> DEFINE r == Request("list", Null)
<1>0. PICK w : w = sent + 1
  OBVIOUS
<1>1. calls' = rest \cup {r} /\ sent' = w
  BY <1>0 DEF Fetch
<1>2. r.op = "list" /\ r.n = w /\ r.as = token' /\ ~r.served
  BY <1>0 DEF Request
<1> HIDE DEF r
<1>3. sent \in Nat /\ list'.n \in Nat /\ list'.n <= sent
  BY ListNumbers DEF CountInv
<1>4. w \in 1..sent' /\ ~(w <= list'.n) /\ \A c \in rest : ~(w <= c.n)
  BY <1>0, <1>1, <1>3
<1>5. Fresh(w)'
  <2>1. \E c \in calls' : c.op = "list" /\ c.n = w
    BY <1>1, <1>2
  <2>2. \A c \in calls' : c.op = "list" /\ w <= c.n => c.as = token' /\ ~c.served
    BY <1>1, <1>2, <1>4
  <2> QED BY <1>4, <2>1, <2>2 DEF Fresh
<1> QED BY <1>4, <1>5

\* The counts, when nobody has a task more.
LEMMA CountKeeps ==
    ASSUME Inv, CountInv, UNCHANGED tasks,
           \A u \in Users : known'[u] <= tasks[u],
           \A d \in calls' : d.served =>
             \E c \in calls : c.served /\ d.as = c.as /\ d.tasks = c.tasks,
           list'.n <= lastList'
    PROVE  CountInv'
BY DEF CountInv

\* A step of a session that tells the page of no task: request w stays under
\* way or has ended, and what is rendered and sent is of the session.
LEMMA FreshKeeps ==
    ASSUME Inv, Inv', NEW w \in 1..sent, Fresh(w),
           UNCHANGED <<token, login, known>>,
           lastList <= lastList',
           \A c \in calls : c.op = "list" =>
             c.n <= lastList' \/ \E d \in calls' : d.op = "list" /\ d.n = c.n,
           \A d \in calls' : d.op = "list" /\ w <= d.n =>
             d.as = token /\ (d.served => known[login] <= d.tasks),
           w <= list'.n => list'.owner = token /\ known[login] <= list'.tasks
    PROVE  Fresh(w)'
<1>1. w <= lastList' \/ \E d \in calls' : d.op = "list" /\ d.n = w
  <2>1. CASE w <= lastList
    <3>1. lastList \in Nat /\ lastList' \in Nat /\ w \in Nat
      BY DEF Inv, TypeOK
    <3> QED BY <2>1, <3>1
  <2>2. CASE \E c \in calls : c.op = "list" /\ c.n = w
    BY <2>2
  <2> QED BY <2>1, <2>2 DEF Fresh
<1> QED BY <1>1 DEF Fresh

\* Steps that concern neither the session, the list nor a request.
LEMMA ListAlone ==
    ASSUME ListInv,
           UNCHANGED <<token, login, list, calls, sent, tasks, known, lastList>>
    PROVE  ListInv'
BY DEF ListInv, CountInv, Fresh, LoggedIn

\* An answer, or the lack of one, that ends a request and sends none.
LEMMA ListAnswered ==
    ASSUME Inv, Inv', ListInv, NEW c \in calls,
           UNCHANGED <<token, login, sent, tasks, known>>,
           calls' = calls \ {c},
           Newest(c.n) \/ (UNCHANGED lastList /\ c.op # "list"),
           \/ list' = list
           \/ list' = NoList
           \/ /\ list' = [owner |-> c.as, tasks |-> c.tasks, n |-> c.n]
              /\ c.served /\ c.op = "list" /\ Newest(c.n)
    PROVE  ListInv'
<1>1. /\ lastList \in Nat /\ lastList' \in Nat /\ c.n \in Nat
      /\ list.n \in Nat /\ list.n <= lastList /\ NoList.n = 0
  BY ListNumbers DEF Inv, TypeOK, ListInv, CountInv
<1>2. lastList <= lastList' /\ (c.op = "list" => c.n <= lastList')
  BY <1>1 DEF Newest
<1>3. list'.n <= lastList'
  BY <1>1, <1>2
<1>4. CountInv'
  <2>1. \A u \in Users : known'[u] <= tasks[u]
    BY DEF ListInv, CountInv
  <2> QED BY <1>3, <2>1, CountKeeps DEF ListInv
<1>5. ASSUME LoggedIn' PROVE \E w \in 1..sent' : Fresh(w)'
  <2>1. PICK w \in 1..sent : Fresh(w)
    BY <1>5 DEF ListInv, LoggedIn
  <2>2. \A d \in calls : d.op = "list" =>
          d.n <= lastList' \/ \E e \in calls' : e.op = "list" /\ e.n = d.n
    BY <1>2
  <2>3. \A d \in calls' : d.op = "list" /\ w <= d.n =>
          d.as = token /\ (d.served => known[login] <= d.tasks)
    BY <2>1 DEF Fresh
  <2>4. w <= list'.n => list'.owner = token /\ known[login] <= list'.tasks
    <3>1. ~(w <= 0)
      OBVIOUS
    <3> QED BY <1>1, <2>1, <3>1 DEF Fresh
  <2>5. Fresh(w)'
    BY <1>2, <2>1, <2>2, <2>3, <2>4, FreshKeeps
  <2> QED BY <2>5
<1> QED BY <1>4, <1>5 DEF ListInv

\* The expressionForm, the refreshTasksButton and a click on a task: another
\* request of the session.
LEMMA ListAsked ==
    ASSUME Inv, Inv', ListInv, NEW op \in Authorized, NEW who, Fetch(op, who, calls),
           UNCHANGED <<token, login, list, tasks, known, lastList>>
    PROVE  ListInv'
<1> DEFINE r == Request(op, who)
<1>1. /\ calls' = calls \cup {r} \/ calls' = calls
      /\ sent' \in {sent, sent + 1}
  BY DEF Fetch
<1>2. r.as = token /\ ~r.served
  BY DEF Request
<1> HIDE DEF r
<1>3. CountInv'
  <2>1. \A u \in Users : known'[u] <= tasks[u]
    BY DEF ListInv, CountInv
  <2>2. list'.n <= lastList'
    BY DEF ListInv, CountInv
  <2> QED BY <1>1, <1>2, <2>1, <2>2, CountKeeps DEF ListInv
<1>4. ASSUME LoggedIn' PROVE \E w \in 1..sent' : Fresh(w)'
  <2>1. PICK w \in 1..sent : Fresh(w)
    BY <1>4 DEF ListInv, LoggedIn
  <2>2. \A d \in calls : d.op = "list" =>
          d.n <= lastList' \/ \E e \in calls' : e.op = "list" /\ e.n = d.n
    BY <1>1
  <2>3. \A d \in calls' : d.op = "list" /\ w <= d.n =>
          d.as = token /\ (d.served => known[login] <= d.tasks)
    BY <1>1, <1>2, <2>1 DEF Fresh
  <2>4. w <= list'.n => list'.owner = token /\ known[login] <= list'.tasks
    BY <2>1 DEF Fresh
  <2>5. lastList <= lastList'
    BY ListNumbers
  <2>6. Fresh(w)'
    BY <2>1, <2>2, <2>3, <2>4, <2>5, FreshKeeps
  <2>7. w \in 1..sent'
    BY <1>1, ListNumbers
  <2> QED BY <2>6, <2>7
<1> QED BY <1>3, <1>4 DEF ListInv

\* The forms of nobody logged in.
LEMMA ListFormSubmitted ==
    ASSUME Inv, ListInv, SubmitForm
    PROVE  ListInv'
<1>1. PICK u \in Users, op \in {"register", "login"} :
         calls' = calls \cup {[Request(op, u) EXCEPT !.as = Null]}
  BY DEF SubmitForm
<1> DEFINE r == [Request(op, u) EXCEPT !.as = Null]
<1>2. ~r.served
  BY DEF Request
<1> HIDE DEF r
<1>3. UNCHANGED <<token, login, list, tasks, known, lastList>> /\ ~LoggedIn'
  BY DEF SubmitForm, session, view, server, LoggedIn
<1>4. CountInv'
  <2>1. \A v \in Users : known'[v] <= tasks[v]
    BY <1>3 DEF ListInv, CountInv
  <2>2. list'.n <= lastList'
    BY <1>3 DEF ListInv, CountInv
  <2>3. \A d \in calls' : d.served =>
          \E c \in calls : c.served /\ d.as = c.as /\ d.tasks = c.tasks
    BY <1>1, <1>2 DEF r
  <2> QED BY <1>3, <2>1, <2>2, <2>3, CountKeeps DEF ListInv
<1> QED BY <1>3, <1>4 DEF ListInv

\* Crossing leaves the tasks of an answer as they are.
LEMMA CrossingCounts ==
    ASSUME NEW cs, cs \subseteq Call, NEW d \in Crossing(cs), d.served
    PROVE  \E c \in cs : c.served /\ d.as = c.as /\ d.tasks = c.tasks
<1>1. PICK c \in cs : d = [c EXCEPT !.crossed = TRUE]
  BY DEF Crossing
<1>2. c \in Call
  OBVIOUS
<1> QED BY <1>1, <1>2 DEF Call

\* A logout leaves no list.
LEMMA ListLoggedOut ==
    ASSUME Inv, ListInv, LogOut
    PROVE  ListInv'
<1>1. /\ token' = Null /\ UpdateAuthState(Crossing(calls))
      /\ UNCHANGED <<lastList, tasks, known>>
  BY DEF LogOut, server
<1>2. calls' = Crossing(calls) /\ list' = NoList
  BY <1>1 DEF UpdateAuthState
<1>3. CountInv'
  <2>1. \A u \in Users : known'[u] <= tasks[u]
    BY <1>1 DEF ListInv, CountInv
  <2>2. list'.n <= lastList'
    BY <1>1, <1>2, ListNumbers
  <2>3. calls \subseteq Call
    BY ListNumbers
  <2>4. \A d \in calls' : d.served =>
          \E c \in calls : c.served /\ d.as = c.as /\ d.tasks = c.tasks
    BY <1>2, <2>3, CrossingCounts
  <2> QED BY <1>1, <2>1, <2>2, <2>4, CountKeeps DEF ListInv
<1> QED BY <1>1, <1>3 DEF ListInv, LoggedIn

\* A login asks for the list, and what is under way was asked before.
LEMMA ListLoggedIn ==
    ASSUME Inv, Inv', ListInv, NEW c \in calls, ReceiveLogin(c)
    PROVE  ListInv'
<1> DEFINE rest == Crossing(calls \ {c})
<1>1. UpdateAuthState(rest) /\ UNCHANGED <<lastList, tasks, known>>
  BY DEF ReceiveLogin, server
<1>2. calls \ {c} \subseteq Call /\ calls \ {c} \subseteq calls
  BY ListNumbers
<1>3. \A d \in rest : d \in Call /\ d.n \in Nat /\ d.n <= sent
  <2>1. \A d \in Call : d.n \in Nat
    BY DEF Call
  <2> QED BY <1>2, <2>1, CrossedCalls
<1>4. /\ list' \in {list, NoList}
      /\ \A d \in calls' : d \in rest \/ ~d.served
  <2>1. CASE token' # Null /\ login' # Null
    BY <1>1, <2>1 DEF UpdateAuthState, FetchTasks, Fetch, Request
  <2>2. CASE ~(token' # Null /\ login' # Null)
    BY <1>1, <2>2 DEF UpdateAuthState
  <2> QED BY <2>1, <2>2
<1>5. CountInv'
  <2>1. \A u \in Users : known'[u] <= tasks[u]
    BY <1>1 DEF ListInv, CountInv
  <2>2. list'.n <= lastList'
    BY <1>1, <1>4, ListNumbers DEF ListInv, CountInv
  <2>3. \A d \in calls' : d.served =>
          \E e \in calls : e.served /\ d.as = e.as /\ d.tasks = e.tasks
    BY <1>2, <1>4, CrossingCounts
  <2> QED BY <1>1, <2>1, <2>2, <2>3, CountKeeps DEF ListInv
<1>6. ASSUME LoggedIn' PROVE \E w \in 1..sent' : Fresh(w)'
  <2>1. token' # Null /\ Fetch("list", Null, rest)
    BY <1>1, <1>6 DEF LoggedIn, UpdateAuthState, FetchTasks
  <2>2. CountInv /\ lastList' = lastList
    BY <1>1 DEF ListInv
  <2> HIDE DEF rest
  <2> QED BY <1>3, <1>4, <2>1, <2>2, NewFresh
<1> QED BY <1>5, <1>6 DEF ListInv

\* So does a page that is loaded again.
LEMMA ListReloaded ==
    ASSUME Inv, ListInv, Reload
    PROVE  ListInv'
<1>1. /\ list' = NoList /\ UNCHANGED <<lastList, tasks, known>>
      /\ IF token' # Null /\ login' # Null
         THEN Fetch("list", Null, {}) ELSE calls' = {}
  BY DEF Reload, FetchTasks, server
<1>2. \A d \in calls' : ~d.served
  BY <1>1 DEF Fetch, Request
<1>3. CountInv'
  <2>1. \A u \in Users : known'[u] <= tasks[u]
    BY <1>1 DEF ListInv, CountInv
  <2>2. list'.n <= lastList'
    BY <1>1, ListNumbers
  <2> QED BY <1>1, <1>2, <2>1, <2>2, CountKeeps DEF ListInv
<1>4. ASSUME LoggedIn' PROVE \E w \in 1..sent' : Fresh(w)'
  <2>1. token' # Null /\ Fetch("list", Null, {})
    BY <1>1, <1>4 DEF LoggedIn
  <2>2. CountInv /\ lastList' = lastList /\ list' \in {list, NoList}
    BY <1>1 DEF ListInv
  <2> QED BY <2>1, <2>2, NewFresh
<1> QED BY <1>3, <1>4 DEF ListInv

\* And the answer to a submission, which tells the page of a task.
LEMMA ListSubmitted ==
    ASSUME Inv, Inv', ListInv, NEW c \in calls, ReceiveSubmit(c)
    PROVE  ListInv'
<1>1. /\ Fetch("list", Null, calls \ {c})
      /\ UNCHANGED <<token, login, list, lastList, tasks>>
      /\ known' = [known EXCEPT ![c.as] = IF c.tasks > @ THEN c.tasks ELSE @]
      /\ c.served /\ c.op = "submit"
  BY DEF ReceiveSubmit, Arrives, FetchTasks, session, view
<1>2. c.as \in Users
  BY <1>1 DEF Inv, CallInv, Authorized
<1>3. \A d \in calls' : d \in calls \/ ~d.served
  BY <1>1 DEF Fetch, Request
<1>4. CountInv'
  <2>1. \A u \in Users : known'[u] <= tasks[u]
    <3> TAKE u \in Users
    <3>1. known[u] <= tasks[u] /\ c.tasks <= tasks[c.as]
      BY <1>1, <1>2 DEF ListInv, CountInv
    <3>2. known \in [Users -> Nat]
      BY DEF Inv, TypeOK
    <3> QED BY <1>1, <3>1, <3>2
  <2>2. list'.n <= lastList'
    BY <1>1 DEF ListInv, CountInv
  <2>3. UNCHANGED tasks
    BY <1>1
  <2> QED BY <1>3, <2>1, <2>2, <2>3, CountKeeps DEF ListInv
<1>5. ASSUME LoggedIn' PROVE \E w \in 1..sent' : Fresh(w)'
  <2>1. \A d \in calls \ {c} : d.n \in Nat /\ d.n <= sent
    BY ListNumbers
  <2>2. token' # Null /\ list' \in {list, NoList} /\ CountInv /\ lastList' = lastList
    BY <1>1, <1>5 DEF LoggedIn, ListInv
  <2> QED BY <1>1, <2>1, <2>2, NewFresh
<1> QED BY <1>4, <1>5 DEF ListInv

\* The agent answers with all tasks there are.
LEMMA ListServed ==
    ASSUME Inv, Inv', ListInv, NEW c \in calls, Serve(c)
    PROVE  ListInv'
<1> DEFINE k == IF c.as \in Users THEN tasks'[c.as] ELSE 0
           d == [c EXCEPT !.served = TRUE, !.tasks = k]
<1>1. /\ calls' = (calls \ {c}) \cup {d}
      /\ UNCHANGED <<token, login, list, lastList, sent, known>>
      /\ c.op \notin {"register", "login"} => c.as \in Users
      /\ tasks' = IF c.op = "submit" THEN [tasks EXCEPT ![c.as] = @ + 1] ELSE tasks
  BY DEF Serve, session, view
<1>2. c \in Call /\ c.n \in Nat
  BY ListNumbers
<1>3. \A u \in Users : tasks[u] \in Nat /\ tasks'[u] \in Nat /\ tasks[u] <= tasks'[u]
  <2>1. tasks \in [Users -> Nat]
    BY DEF Inv, TypeOK
  <2> QED BY <1>1, <2>1
<1>4. /\ d.n = c.n /\ d.op = c.op /\ d.as = c.as /\ d.tasks = k
  BY <1>2 DEF Call
<1>5. k \in Nat
  BY <1>3
<1> HIDE DEF d
<1>6. CountInv'
  <2>1. \A u \in Users : known'[u] <= tasks'[u]
    BY <1>1, <1>3, ListNumbers DEF ListInv, CountInv
  <2>2. \A e \in calls' : e.served /\ e.as \in Users => e.tasks <= tasks'[e.as]
    <3> SUFFICES ASSUME NEW e \in calls', e.served, e.as \in Users
                 PROVE  e.tasks <= tasks'[e.as]
      OBVIOUS
    <3>1. CASE e \in calls
      <4>1. e.tasks <= tasks[e.as] /\ e.tasks \in Nat
        BY <3>1, ListNumbers DEF ListInv, CountInv
      <4> QED BY <1>3, <4>1
    <3>2. CASE e = d
      BY <1>3, <1>4, <3>2
    <3> QED BY <1>1, <3>1, <3>2
  <2> QED BY <1>1, <2>1, <2>2 DEF ListInv, CountInv
<1>7. ASSUME LoggedIn' PROVE \E w \in 1..sent' : Fresh(w)'
  <2>1. PICK w \in 1..sent : Fresh(w)
    BY <1>1, <1>7 DEF ListInv, LoggedIn
  <2>2. \A e \in calls : e.op = "list" =>
          e.n <= lastList' \/ \E f \in calls' : f.op = "list" /\ f.n = e.n
    BY <1>1, <1>4
  <2>3. ASSUME NEW e \in calls', e.op = "list", w <= e.n
        PROVE  e.as = token /\ (e.served => known[login] <= e.tasks)
    <3>1. CASE e \in calls
      BY <2>1, <2>3, <3>1 DEF Fresh
    <3>2. CASE e = d
      <4>1. c.as = token /\ token \in Users
        BY <1>1, <1>4, <2>1, <2>3, <3>2 DEF Fresh
      <4>2. login = token
        BY <4>1 DEF Inv, SessionInv, TokenIsOfLogin
      <4>3. known'[token] <= tasks'[token]
        BY <1>6, <4>1 DEF CountInv
      <4> QED BY <1>1, <1>4, <3>2, <4>1, <4>2, <4>3
    <3> QED BY <1>1, <3>1, <3>2
  <2>4. w <= list'.n => list'.owner = token /\ known[login] <= list'.tasks
    BY <1>1, <2>1 DEF Fresh
  <2>5. lastList <= lastList' /\ UNCHANGED <<token, login, known>>
    BY <1>1, ListNumbers
  <2>6. Fresh(w)'
    BY <2>1, <2>2, <2>3, <2>4, <2>5, FreshKeeps
  <2> QED BY <1>1, <2>6
<1> QED BY <1>6, <1>7 DEF ListInv

\* Every step keeps ListInv.
LEMMA ListStep ==
    ASSUME Inv, ListInv, [Next]_vars
    PROVE  ListInv'
<1>0. Inv'
  BY InvStep
<1>1. CASE SwitchForm \/ SubmitNothing \/ TimerFires \/ UNCHANGED vars
  <2>1. UNCHANGED <<token, login, list, calls, sent, tasks, known, lastList>>
    BY <1>1 DEF SwitchForm, SubmitNothing, TimerFires, vars, session, view, server
  <2> QED BY <2>1, ListAlone
<1>2. CASE Ask("submit") \/ Ask("list") \/ FetchTaskDetails
  <2>1. UNCHANGED <<token, login, list, tasks, known, lastList>>
    BY <1>2 DEF Ask, FetchTaskDetails, session, view, server
  <2>2. {"submit", "list", "details"} \subseteq Authorized
    BY DEF Authorized
  <2> QED BY <1>0, <1>2, <2>1, <2>2, ListAsked DEF Ask, FetchTaskDetails
<1>3. CASE SubmitForm \/ LogOut \/ Reload
  BY <1>3, ListFormSubmitted, ListLoggedOut, ListReloaded
<1>4. ASSUME NEW c \in calls, Serve(c) \/ Receive(c) PROVE ListInv'
  <2>1. CASE ReceiveRegister(c) \/ ReceiveDetails(c)
    <3>1. /\ UNCHANGED <<token, login, list, lastList, sent, tasks, known>>
          /\ calls' = calls \ {c} /\ c.op # "list"
      BY <2>1 DEF ReceiveRegister, ReceiveDetails, Arrives, session, view, server
    <3> QED BY <1>0, <3>1, ListAnswered
  <2>2. CASE ReceiveList(c)
    <3>1. /\ UNCHANGED <<token, login, sent, tasks, known>>
          /\ calls' = calls \ {c} /\ c.served /\ c.op = "list" /\ Newest(c.n)
          /\ \/ list' = [owner |-> c.as, tasks |-> c.tasks, n |-> c.n]
             \/ list' = NoList
      BY <2>2 DEF ReceiveList, Arrives, session, server
    <3> QED BY <1>0, <3>1, ListAnswered
  <2>3. CASE Fail(c)
    <3>1. /\ UNCHANGED <<token, login, list, sent, tasks, known>>
          /\ calls' = calls \ {c}
          /\ Newest(c.n) \/ (UNCHANGED lastList /\ c.op # "list")
      BY <2>3 DEF Fail, session, server
    <3> QED BY <1>0, <3>1, ListAnswered
  <2> QED BY <1>0, <1>4, <2>1, <2>2, <2>3, ListServed, ListLoggedIn, ListSubmitted DEF Receive
<1> QED BY <1>1, <1>2, <1>3, <1>4 DEF Next, User, Network

\* When no request for the list is under way, the list is the user's own and
\* has every task the page was told of, unless the newest request failed or was
\* overtaken: for any users, any number of requests and any order of answers.
THEOREM ListTheorem ==
    Spec => []ListCatchesUp
<1>1. Init => ListInv
  <2> SUFFICES ASSUME Init PROVE ListInv
    OBVIOUS
  <2>1. CountInv
    BY DEF Init, CountInv, NoList
  <2>2. ~LoggedIn
    BY DEF Init, LoggedIn
  <2> QED BY <2>1, <2>2 DEF ListInv
<1>2. Inv /\ ListInv /\ [Next]_vars => ListInv'
  BY ListStep
<1>3. ASSUME Inv, ListInv PROVE ListCatchesUp
  <2> SUFFICES ASSUME LoggedIn, \A c \in calls : c.op # "list", list.n = lastList
               PROVE  list.owner = login /\ list.tasks >= known[login]
    BY DEF ListCatchesUp
  <2>1. PICK w \in 1..sent : Fresh(w)
    BY <1>3 DEF ListInv
  <2>2. list.owner = token /\ known[login] <= list.tasks
    BY <2>1 DEF Fresh
  <2>3. token \in Users /\ login = token
    <3>1. list.owner \in Users \cup {Null} /\ token # Null
      BY <1>3 DEF Inv, TypeOK, LoggedIn
    <3> QED BY <1>3, <2>2, <3>1 DEF Inv, SessionInv, TokenIsOfLogin
  <2>4. known[login] \in Nat /\ list.tasks \in Nat
    BY <1>3, <2>3, ListNumbers
  <2> QED BY <2>2, <2>3, <2>4
<1> QED BY <1>1, <1>2, <1>3, Invariance, PTL DEF Spec
==============================================================================
