------------------------------ MODULE Frontend ------------------------------
(***************************************************************************)
(* The page: app.js in one tab of a browser that several people use one    *)
(* after the other.  Every handler runs to its next await; the answers of  *)
(* the requests it sent come in any order, also after the session they     *)
(* were sent in, and are rendered by whoever waits for them.  The agent is *)
(* external: it counts the tasks of each user.                             *)
(***************************************************************************)
EXTENDS Naturals

CONSTANTS
    Users,
    MaxRequests,    \* bound on the requests the user causes
    Null            \* null, undefined, or an item that is not stored

\* What localStorage makes of undefined: a string, which is true.
Garbage == "undefined"

\* No account is confused with what stands for the absence of one.
ASSUME UsersAssumption == {Null, Garbage} \cap Users = {}

VARIABLES
    token,      \* jwtToken: whose it is
    login,      \* currentUserLogin
    stored,     \* localStorage: the token and the login
    list,       \* the rendered list: whose, how many tasks, by which request
    details,    \* the view of one task, and whose task it shows
    visible,    \* a message is shown
    timers,     \* the timers that will hide it
    calls,      \* the requests in flight
    sent,       \* how many were sent
    tasks,      \* [Users -> how many tasks the agent has accepted]
    known,      \* [Users -> how many of them the page was told of]
    lastList,   \* history: the newest request for the list that has ended
    crossed     \* history: an answer of another session was rendered in this one

session == <<token, login, stored>>
view == <<list, details, lastList, crossed>>
message == <<visible, timers>>
server == <<tasks, known>>
vars == <<session, view, message, calls, sent, server>>

NoList == [owner |-> Null, tasks |-> 0, n |-> 0]
NoDetails == [state |-> "hidden", owner |-> Null]

LoggedIn == token # Null /\ login # Null

Init ==
    /\ token = Null /\ login = Null
    /\ stored = [token |-> Null, login |-> Null]
    /\ list = NoList /\ details = NoDetails
    /\ visible = FALSE /\ timers = 0
    /\ calls = {} /\ sent = 0
    /\ tasks = [u \in Users |-> 0]
    /\ known = [u \in Users |-> 0]
    /\ lastList = 0 /\ crossed = FALSE

-----------------------------------------------------------------------------
\* showMessage, apiRequest, updateAuthState

\* Mutant: the message is shown and no timer is started.
ShowMessageStaying ==
    /\ visible' = TRUE
    /\ timers' = timers

ShowMessage ==
    /\ visible' = TRUE
    /\ timers' = timers + 1

\* setTimeout: five seconds after a message the area is hidden, whichever
\* message it holds by then.
TimerFires ==
    /\ timers > 0
    /\ timers' = timers - 1
    /\ visible' = FALSE
    /\ UNCHANGED <<session, view, calls, sent, server>>

\* fetch: the token is the one the page has when the request is sent.
Request(op, who) ==
    [n |-> sent + 1, op |-> op, as |-> token', who |-> who, served |-> FALSE,
     tasks |-> 0, crossed |-> FALSE]

\* Sends a request, after those of rest, if there is a token.
Fetch(op, who, rest) ==
    IF token' = Null
    THEN calls' = rest /\ sent' = sent
    ELSE calls' = rest \cup {Request(op, who)} /\ sent' = sent + 1

FetchTasks(rest) == Fetch("list", Null, rest)

\* Mutant: what is shown is not cleared, but hidden with its section.
UpdateAuthStateHiding(rest) ==
    IF token' # Null /\ login' # Null
    THEN FetchTasks(rest) /\ UNCHANGED <<list, details>>
    ELSE calls' = rest /\ UNCHANGED <<sent, list, details>>

\* The list is fetched for whoever is logged in, and list and details are
\* cleared when nobody is.
UpdateAuthState(rest) ==
    IF token' # Null /\ login' # Null
    THEN FetchTasks(rest) /\ UNCHANGED <<list, details>>
    ELSE /\ calls' = rest /\ sent' = sent
         /\ list' = NoList /\ details' = NoDetails

\* The requests in flight when the session changes.
Crossing(cs) == {[c EXCEPT !.crossed = TRUE] : c \in cs}

-----------------------------------------------------------------------------
\* What the user does

\* The forms of the section that nobody logged in sees; what is typed is sent.
SubmitForm ==
    /\ ~LoggedIn
    /\ sent < MaxRequests
    /\ UNCHANGED session
    /\ \E u \in Users, op \in {"register", "login"} :
         calls' = calls \cup {[Request(op, u) EXCEPT !.as = Null]}
    /\ sent' = sent + 1
    /\ UNCHANGED <<view, message, server>>

\* showLoginLink and showRegisterLink.
SwitchForm ==
    /\ ~LoggedIn
    /\ visible
    /\ visible' = FALSE
    /\ UNCHANGED <<session, view, timers, calls, sent, server>>

\* Mutant: setItem with null, which localStorage turns into a string.
LogOutStoringNull ==
    /\ LoggedIn
    /\ token' = Null /\ login' = Null
    /\ stored' = [token |-> "null", login |-> "null"]
    /\ ShowMessage
    /\ UpdateAuthState(Crossing(calls))
    /\ crossed' = FALSE
    /\ UNCHANGED <<lastList, server>>

LogOut ==
    /\ LoggedIn
    /\ token' = Null /\ login' = Null
    /\ stored' = [token |-> Null, login |-> Null]
    /\ ShowMessage
    /\ UpdateAuthState(Crossing(calls))
    /\ crossed' = FALSE
    /\ UNCHANGED <<lastList, server>>

\* An expression that is empty is not sent.
SubmitNothing ==
    /\ LoggedIn
    /\ ~visible
    /\ sent < MaxRequests
    /\ ShowMessage
    /\ UNCHANGED <<session, view, calls, sent, server>>

\* expressionForm and refreshTasksButton.
Ask(op) ==
    /\ LoggedIn
    /\ sent < MaxRequests
    /\ UNCHANGED session
    /\ Fetch(op, Null, calls)
    /\ UNCHANGED <<view, message, server>>

\* A click on a task of the list.
FetchTaskDetails ==
    /\ LoggedIn
    /\ sent < MaxRequests
    /\ list.tasks > 0
    /\ details' = [state |-> "loading", owner |-> Null]
    /\ UNCHANGED session
    /\ Fetch("details", list.owner, calls)
    /\ UNCHANGED <<list, lastList, crossed, message, server>>

\* The page is loaded again: what it waited for is gone, the session is read
\* from localStorage.
Reload ==
    /\ sent < MaxRequests
    /\ token' = stored.token /\ login' = stored.login
    /\ IF token' # Null /\ login' # Null
       THEN FetchTasks({}) ELSE calls' = {} /\ sent' = sent
    /\ list' = NoList /\ details' = NoDetails
    /\ visible' = FALSE /\ timers' = 0
    /\ crossed' = FALSE
    /\ UNCHANGED <<stored, lastList, server>>

-----------------------------------------------------------------------------
\* The agent

\* A request is answered for the user of its token, from one moment.
Serve(c) ==
    /\ c \in calls
    /\ ~c.served
    /\ c.op \notin {"register", "login"} => c.as \in Users
    /\ c.op = "details" => c.who = c.as
    /\ tasks' = IF c.op = "submit" THEN [tasks EXCEPT ![c.as] = @ + 1] ELSE tasks
    /\ calls' = (calls \ {c}) \cup
         {[c EXCEPT !.served = TRUE,
                    !.tasks = IF c.as \in Users THEN tasks'[c.as] ELSE 0]}
    /\ UNCHANGED <<session, view, message, sent, known>>

-----------------------------------------------------------------------------
\* What the page does with an answer.  Its body may be cut short, and is {}
\* then.

Arrives(c, op) == c \in calls /\ c.served /\ c.op = op

Newest(n) == lastList' = IF n > lastList THEN n ELSE lastList

\* The message is hidden by the click on showLoginLink that follows it.
ReceiveRegister(c) ==
    /\ Arrives(c, "register")
    /\ visible' = FALSE
    /\ timers' = timers + 1
    /\ calls' = calls \ {c}
    /\ UNCHANGED <<session, view, sent, server>>

\* Mutant: the login is read from its field when the answer comes.
ReceiveLoginLate(c) ==
    /\ Arrives(c, "login")
    /\ token' = c.who
    /\ login' \in Users
    /\ stored' = [token |-> token', login |-> login']
    /\ ShowMessage
    /\ UpdateAuthState(Crossing(calls \ {c}))
    /\ crossed' = (crossed \/ c.crossed \/ list.owner # Null \/ details.owner # Null)
    /\ UNCHANGED <<lastList, server>>

\* Token and login are set together, for the login that was typed when the
\* request was sent, and even if somebody logged in or out meanwhile.
ReceiveLogin(c) ==
    /\ Arrives(c, "login")
    /\ \/ token' = c.who /\ stored' = [token |-> c.who, login |-> c.who]
       \/ token' = Null /\ stored' = [token |-> Garbage, login |-> c.who]
    /\ login' = c.who
    /\ ShowMessage
    /\ UpdateAuthState(Crossing(calls \ {c}))
    /\ crossed' = (crossed \/ c.crossed)
    /\ UNCHANGED <<lastList, server>>

\* Mutant: the list is not fetched again.
ReceiveSubmitOnly(c) ==
    /\ Arrives(c, "submit")
    /\ known' = [known EXCEPT ![c.as] = IF c.tasks > @ THEN c.tasks ELSE @]
    /\ ShowMessage
    /\ calls' = calls \ {c}
    /\ UNCHANGED <<session, view, sent, tasks>>

ReceiveSubmit(c) ==
    /\ Arrives(c, "submit")
    /\ known' = [known EXCEPT ![c.as] = IF c.tasks > @ THEN c.tasks ELSE @]
    /\ ShowMessage
    /\ UNCHANGED session
    /\ FetchTasks(calls \ {c})
    /\ UNCHANGED <<view, tasks>>

\* renderTasks clears the list first; a body that is no array ends it there.
ReceiveList(c) ==
    /\ Arrives(c, "list")
    /\ \/ list' = [owner |-> c.as, tasks |-> c.tasks, n |-> c.n]
       \/ list' = NoList
    /\ Newest(c.n)
    /\ crossed' = (crossed \/ c.crossed)
    /\ calls' = calls \ {c}
    /\ UNCHANGED <<session, details, message, sent, server>>

\* renderTaskDetails; a body without a status makes it throw, and is an error.
ReceiveDetails(c) ==
    /\ Arrives(c, "details")
    /\ \/ details' = [state |-> "task", owner |-> c.who]
       \/ details' = [details EXCEPT !.state = IF @ = "hidden" THEN @ ELSE "error",
                                     !.owner = Null]
    /\ crossed' = (crossed \/ c.crossed)
    /\ calls' = calls \ {c}
    /\ UNCHANGED <<session, list, lastList, message, sent, server>>

\* Mutant: fetchTaskDetails leaves its error to apiRequest.
FailLeavingDetails(c) ==
    /\ c \in calls
    /\ ShowMessage
    /\ calls' = calls \ {c}
    /\ IF c.op = "list" THEN Newest(c.n) ELSE UNCHANGED lastList
    /\ UNCHANGED <<session, list, details, crossed, sent, server>>

\* The answer is an error, or there is none.  Nobody is logged out by a 401.
\* An error of a task's details is written into a view that may be hidden.
Fail(c) ==
    /\ c \in calls
    /\ ShowMessage
    /\ calls' = calls \ {c}
    /\ IF c.op = "list" THEN Newest(c.n) ELSE UNCHANGED lastList
    /\ details' = IF c.op = "details" /\ details.state # "hidden"
                  THEN [state |-> "error", owner |-> Null] ELSE details
    /\ UNCHANGED <<session, list, crossed, sent, server>>

Receive(c) ==
    \/ ReceiveRegister(c)
    \/ ReceiveLogin(c)
    \/ ReceiveSubmit(c)
    \/ ReceiveList(c)
    \/ ReceiveDetails(c)
    \/ Fail(c)

-----------------------------------------------------------------------------

User ==
    \/ SubmitForm
    \/ SwitchForm
    \/ LogOut
    \/ SubmitNothing
    \/ Ask("submit")
    \/ Ask("list")
    \/ FetchTaskDetails
    \/ Reload

Network == \E c \in calls : Serve(c) \/ Receive(c)

Next == User \/ TimerFires \/ Network

\* Timers fire, and a request ends, if only by an error of the network.
Spec == Init /\ [][Next]_vars /\ WF_vars(TimerFires) /\ WF_vars(Network)

-----------------------------------------------------------------------------

Call == [n : Nat, op : {"register", "login", "submit", "list", "details"},
         as : Users \cup {Null, Garbage}, who : Users \cup {Null},
         served : BOOLEAN, tasks : Nat, crossed : BOOLEAN]

TypeOK ==
    /\ token \in Users \cup {Null, Garbage}
    /\ login \in Users \cup {Null}
    /\ stored \in [token : Users \cup {Null, Garbage}, login : Users \cup {Null}]
    /\ list \in [owner : Users \cup {Null}, tasks : Nat, n : Nat]
    /\ details \in [state : {"hidden", "loading", "task", "error"},
                    owner : Users \cup {Null}]
    /\ visible \in BOOLEAN
    /\ timers \in Nat
    /\ \A c \in calls : c \in Call /\ c.n <= sent
    /\ sent \in Nat
    /\ tasks \in [Users -> Nat]
    /\ known \in [Users -> Nat]
    /\ lastList \in 0..sent
    /\ crossed \in BOOLEAN

\* The token the page sends is that of the login it greets, whichever answers
\* of earlier logins come late, and after a reload in any state.
TokenIsOfLogin ==
    /\ token \in Users => login = token
    /\ stored.token \in Users => stored.login = stored.token

\* List and details are of the user who is logged in, unless an answer was
\* rendered in another session than it was asked for in: nothing that was
\* rendered in time survives a logout, however many requests failed.
ShownIsOwn ==
    LoggedIn /\ ~crossed =>
        /\ list.owner \in {Null, login}
        /\ details.owner \in {Null, login}

\* When no request for the list is under way, the list is of the user who is
\* logged in and has every task the page was told of, unless the newest
\* request for it failed or its answer was overtaken by that of an older one.
ListCatchesUp ==
    LoggedIn /\ (\A c \in calls : c.op # "list") /\ list.n = lastList =>
        /\ list.owner = login
        /\ list.tasks >= known[login]

\* The details of a task do not stay at "loading".
LoadingEnds == details.state = "loading" ~> details.state # "loading"

\* Every message is hidden again.
MessagePasses == visible ~> ~visible
==============================================================================
