# A TLA+ model of the expression calculator

This directory holds TLA+ specifications of the services in this repository,
TLC configurations that model-check them on small instances, and proofs, checked
by TLAPS, of what matters most for instances of every size. Line numbers refer to
the sources beside it (`internal/…`, `docs/…`, `README.md`).

Modules are checked with `tlc -config <run>.cfg <module>`, proofs with
`tlapm` on the modules named `…Proofs`. `PROJECT.json` lists the runs, the source lines each
definition stands for, and the mutants: definitions headed `\* Mutant:` that put a
plausible bug into one definition, each of which makes a run fail.

## 1. The system

| Part | State it keeps | Operations | Talks to |
|---|---|---|---|
| **Frontend** `web/frontend/app.js` | token and login in `localStorage`, rendered list and details | register, login, logout, submit, refresh, open a task | agent, HTTP |
| **Agent** `internal/agent` | nothing but its pool (users) and one gRPC connection | `/register`, `/login`, `/calculate`, `/tasks`, `/tasks/{id}`; JWT middleware | PostgreSQL (`users`), orchestrator, gRPC with a 5 s deadline |
| **Orchestrator** `internal/orchestrator` | the table `tasks`; one goroutine per accepted task, in memory only | `SubmitExpression`, `GetTaskDetails`, `ListUserTasks`; `startEvaluation`, `Evaluate` | PostgreSQL (`tasks`), worker, gRPC with a 5 s deadline per operation |
| **Worker** `internal/worker` | none | `CalculateOperation` | – |
| **Shared** `internal/pkg` | the connection pool | `NewPool`, `Graceful`, JWT, bcrypt, logger | PostgreSQL, operating system |

A submission travels: browser → agent (`SubmitNewTask`, deadline) → orchestrator
(`SubmitExpression`: compile, `INSERT … 'pending'`, `go startEvaluation`, answer the
id). The goroutine, which nobody waits for, sets `processing`, walks the AST with one
worker call per operation, and sets `completed` or `failed`. Users poll with the two
read requests. All that goroutines share is the table, and all they do to it is
single statements; there is no transaction and no lock in the code.

### What is hard

* **Concurrency.** The goroutine runs beside the handler that spawned it; a binary
  node has two goroutines, two value channels and an error channel
  (`evaluator.go:61-104`); the worker's `select` races its delay against the caller.
* **Unknown outcomes.** A statement or call whose deadline passes or whose connection
  breaks may or may not have been executed, and PostgreSQL may still execute it after
  the goroutine sent its next statement on another connection.
* **Crashes.** An evaluation exists only in memory; rows survive it.
* **Nested deadlines.** 5 s of the agent, 1 min for an evaluation, 5 s per operation,
  5 s for the last UPDATE, and none at all for one `SetTaskError`
  (`orchestrator_server.go:115`).
* **Numbers.** Only the root value is checked for infinities and NaN.
* **Start and end.** Settings have three sources and are read twice; the pings of the
  database run before anything listens to signals; `Graceful`, fx's own signal handling
  and the end of `main` race.
* **The page.** Every handler awaits its request and then writes into what the page
  shows by then, whoever is logged in.

### What makes each part correct

* *Handler, goroutine and table*: a row tells the truth about its expression; a final
  status is final; the caller is told the truth; whatever was accepted is settled.
* *Reads*: users see their own tasks, truly, and never see one go back.
* *Evaluator*: a value is the meaning of the expression, an error has a cause, nothing
  is left running, and it returns.
* *Worker*: every request it answers gets its value or the reason why there is none.
* *Accounts*: one account per login, whatever is retried; a token names its user until
  it expires.
* *Start and shutdown*: a process starts, with the settings it was given, or fails; what
  was accepted is finished within the timeout, the pool outlives those who use it, and a
  signal ends the service, whenever it comes.
* *Frontend*: token and login are a pair; what is shown belongs to the user who is logged
  in and catches up with what was submitted; nothing waits or is shown for ever.

`PROJECT.json` names the hazards one by one, with their lines.

## 2. The modules

| Module | Models | Composes |
|---|---|---|
| `TaskLifecycle` | the abstract promise: absent → pending → processing → completed with a number, or failed | |
| `Orchestrator` | `SubmitExpression`, `startEvaluation`, the repository's INSERT and UPDATEs, the caller's deadline, the database, crash and restart | refines `TaskLifecycle` |
| `TaskReads` | `GetTaskDetails`, `ListUserTasks`, and the agent's two functions of the same purpose | extends `Orchestrator` |
| `Floats` | a small float64 | |
| `Worker` | `CalculateOperation`, `Calculate` | extends `Floats` |
| `Evaluator` | `Evaluate`, `callWorker` | extends `Worker` |
| `Service` | a submission through handler, goroutine, evaluator and worker | extends `Orchestrator`, instantiates `Evaluator`; refines `Orchestrator!FairSpec` |
| `Accounts` | `Register` and `Login` of handler, service and repository, the table `users`, tokens | |
| `Shutdown` | `Graceful`, the end of `Run` of the three services, fx's signal channel, the server, its handlers and the pool | |
| `Startup` | the beginning of `Run`: `config.Load`, the logger, `NewPool`, the listener, signals before `Graceful` listens | extends `Shutdown` |
| `Frontend` | the handlers of `app.js`, its requests, `localStorage`, the timers of messages | |
| `MCOrchestrator`, `MCTaskReads`, `MCEvaluator`, `MCService`, `MCAccounts`, `MCStartup`, `Ast` | instances for TLC; `Ast` has the expressions | |
| `OrchestratorProofs`, `TaskReadsProofs`, `EvaluatorProofs`, `ServiceProofs`, `AccountsProofs`, `ShutdownProofs`, `StartupProofs`, `FrontendProofs` | theorems about the modules of these names; `EvaluatorProofs` also about `Worker` and `Floats` | `ServiceProofs` extends `OrchestratorProofs` and instantiates `EvaluatorProofs` |

### Orchestrator

One `t \in Tasks` is one submission together with the row it may create, whose id
PostgreSQL generates. `pc[t]` follows the handler and then the goroutine:

```
idle ─► insert ─► start ─► eval ─► save_result ─► done
  └► closed ◄┘        │        └─► save_error ──► done
                      └► fail_start ────────────► done       (any of them ─► dead)
```

| Code | Action |
|---|---|
| `SubmitExpression` up to the INSERT (43-75) | `RejectExpression`, `CreateTask` |
| … its error and its success (76-95, spawn and first statement 97-108) | `CreateTaskFails`, `SpawnEvaluation` |
| `UpdateTaskStatus` returns (109-120) | `StartFails`, `StartEvaluation` |
| `Evaluate` returns (120-168) | `EvaluationSucceeds`, `EvaluationFails` |
| the last statement returns (115, 149, 162) | `Finish`, `LastWriteFails` |
| the agent's deadline (`service/task.go:65`) | `CallerGivesUp` |
| PostgreSQL | `Execute`, `Lose` |
| the process | `Crash`, `Restart` |

A statement is *sent* (a record in `wire`), *executed* (changes `row`, puts a record
into `replies`) and its reply *received*, in three steps, so that a failure can fall
between any two of them. `Apply` says what each of the four statements does to a
row; no UPDATE looks at the status it overwrites. `Evaluate` is one step here: its
outcome is read from `Denote` (what the expression means), or is an error if
workers and deadlines may fail. That this is what the evaluator does is the
subject of `Service`.

`Faults` selects what the environment may do:

| Fault | Meaning |
|---|---|
| `caller` | the caller's deadline passes or its connection breaks |
| `db` | a statement is lost, or its connection breaks, or its context ends, before or after the database executed it |
| `late` | a statement that was given up is still executed later |
| `eval` | `Evaluate` fails for a reason that is not the expression's |
| `crash` | the process dies (also by `main` returning after a signal, `app.go:173`) |

### TaskReads

Each read is asked, answered from one snapshot of the table (`Select`), and received,
while the rows move. `DetailsAnswer` is the conversion to protobuf, where a NULL
result becomes 0; `Shown` is the agent's, which decides by the status what to
show. A user waits for one answer before it sends the next request.

### Evaluator, Worker, Floats

A node of the AST names its call of `Evaluate`, its channels and its operation id.
`pc[n]` goes `idle → called → operands → call → returned`. `errChan[p]` keeps the
errors of a binary node's operands in the order they were sent. `Worker` is used
action by action: `CallWorker` contains `Receive`, a deadline contains `Leave`.
A tree is what `expr` parses (`IsTree`): no node is an operand twice and operands have
larger numbers than their node, which stands for the tree being finite.
`MeaningOf` says what an AST means, by recursion and without goroutines or deadlines.
`Floats` keeps what the properties tell apart: overflow to infinities, NaN,
division by zero, underflow and the special cases of `math.Pow`, roots of negative
numbers among them. Its finite numbers are the halves up to `Huge`, so that a quotient
can overflow and an exponent need not be whole; other fractions are truncated to these.
Only the sign of zero is left out (`b == 0.0` does not see it).

### Service

The composition. The state is that of `Orchestrator` and of one evaluation: the tree
that `SubmitExpression` hands to the goroutine, the calls of `Evaluate` and the
worker's. `Orchestrator`'s step from `eval` to the last statement is replaced:

| Code | Action |
|---|---|
| `expr.Compile`, `CreateTask` (52-75) | `CompileAndCreate` |
| `UpdateTaskStatus` returned, `Evaluate` is called (108-120) | `BeginEvaluation` |
| `evalCtx` ends (99-100) | `MinutePasses` |
| `Evaluate` and the worker | `EvaluateNode`, `WorkerOrNetwork` |
| it returned a finite value, or not (120-162) | `SaveResult`, `SaveError` |
| the process ends | `CrashWhileEvaluating`: also the calls of `Evaluate` end |

`DenoteIsMeaning`, an assumption that TLC evaluates, says that the `Denote` of the
instance is what `MeaningOf` computes of its ASTs; `AstAssumption` that these are trees and
that a finite value can be stored. There is one evaluation, hence one submission
(`OneSubmission`): goroutines share no evaluation, and `Orchestrator` has any number of them.

### Accounts

`session[c]` follows one request of a client through handler, service and repository
(`register → insert → inserted or duplicate`, `login → compare → sign`), and ends in
`holds` while the client has a token.

| Code | Action |
|---|---|
| `Register`: format, hasher (`service/auth.go:53-65`) | `RefuseRegistration` |
| … the INSERT, its success, its conflict, its failure | `CreateUser`, `RegisterSucceeds`, `LoginAlreadyExists`, `InsertFails` |
| `Login`: the SELECT, the comparison | `FindUser`, `NoUser`, `WrongPassword`, `RightPassword` |
| `Generate`, `Verify` in `JWTAuth` | `Generate`, `Unauthorized` |
| PostgreSQL, the clock, the user | `ExecuteInsert`, `Tick`, `Ask`, `LogOut` |

An INSERT whose request failed may be gone or may be executed later, when nobody
waits for it. `registered` and `refused` remember what each client was told (200, 409);
the other answers tell it nothing about the table. A row holds the password in place
of its hash. `Compare` does what bcrypt does: `Hash` refuses more than 72 bytes, but a
login is not checked for its length, and passwords with the same first 72 bytes (`Key`)
are one to it. `Generate` reads the clock twice (`jwtauth.go:40-41`), so `RightPassword` and
`Generate` are two steps. Time is counted in ticks, `Second` of which make a second.

### Startup, Shutdown

One behaviour is the life of one process of `service`, from `main` on. `Startup` takes it
to the moment at which `fx.New` returns and `Shutdown`, which it extends, from there.

| Code | Action |
|---|---|
| the first `config.Load` and `logger.New` (agent `app.go:48-62`) | `LoadForLogger`, `LoadFails` |
| the second, the agent's check of the secret, `pgxpool.ParseConfig` | `LoadForDI`, `ProvideFails` |
| `NewPool`'s loop (`postgres.go:48-71`) | `PingAnswered`, `PingFails`, `PauseEnds`, `NoPool` |
| gRPC client, listener, `go Graceful` | `Invoke`, `InvokeFails`, `GracefulListens` |
| the operating system, PostgreSQL | `SignalUnheard`, `DatabaseStarts` |

A setting is a member of a class: not set, empty, garbage, zero, positive, given, and for
the JWT secret also short and the constant the code names; `Value` finds it in the
environment, the `.env` file or the defaults, in that order, and an environment of
`APP_ENV=test` has no file. The model forgets the sources after the second `Load`, since
nothing reads them again.
The agent's check of an unset secret (`app.go:86`) names another string than the default
of `config.go:60`, so an agent with nothing set starts: `SecretRefused` is the check as it
stands, and no property restates it.

In `Shutdown`, a signal goes to `quit`, Graceful's channel, and to
`fxDone`, the channel of `fxApp.Done()`, on which `main` waits.

| Code | Action |
|---|---|
| `OnStart`, `fxApp.Start`, `<-fxApp.Done()` (agent `app.go:172-224`, and its like) | `ServerStarts`, `StartReturns` or `StartFails`, `MainReturns` |
| the server ends by itself: `log.Fatal` | `ServerFails` |
| `Graceful`'s first goroutine (`shutdown.go:29-37`) | `SignalCancels` |
| the wait, the stop of the HTTP server, the two cases of the `select`, `dbPool.Close` | `GracefulBegins`, `ServerDrains`, `StopReturns`, `TimeoutPasses`, `GracefulCloses`, `GracefulEnds` |
| `net/http`, gRPC and `pgxpool` | `Arrive`, `Acquire`, `Release`, `AcquireFails`, `Answer` |

No action runs the `OnStop` hooks, since no code calls `fxApp.Stop`, nor the function the
orchestrator registers as `"grpc"`, since `Graceful` looks up `"http"` only. What the end
of a process does to tasks is `Crash` of `Orchestrator`.

### Frontend

One tab in which several people log in one after the other. A handler runs to its next
`await`; a request is a record in `calls` with the token it was sent with. The agent
(`Serve`) answers for the user of that token and counts tasks per user.

| Code (`app.js`) | Action |
|---|---|
| `registerForm`, `loginForm` up to the request (138-167) | `SubmitForm` |
| … their answers (147-176) | `ReceiveRegister`, `ReceiveLogin` |
| `logoutButton`, the links between the forms, loading the page | `LogOut`, `SwitchForm`, `Reload` |
| `expressionForm`, `refreshTasksButton`, a click on a task | `SubmitNothing`, `Ask`, `FetchTaskDetails` |
| … their answers (202-304) | `ReceiveSubmit`, `ReceiveList`, `ReceiveDetails` |
| `apiRequest` throws (85-99), `fetchTaskDetails` catches (272-276) | `Fail` |
| `setTimeout` (65-67) | `TimerFires` |

A body that cannot be read is `{}` (line 87): a login then stores `undefined`, which
`localStorage` makes a string (`Garbage`), a list is left empty, and the details are an
error. Two history variables serve the properties: `crossed` says that an answer was
rendered in another session than it was asked for in, which the code allows, and `lastList`
which request for the list ended last.

## 3. What is checked

| Run | Instance | Shows |
|---|---|---|
| `orch_all_faults` | 2 tasks, all faults, 201,384 states | `TypeOK`; `ResultIffCompleted`, `ResultIsValue`: no failure separates a result from its status or its expression; `UpdatesFindTheirRow`; `AnswersAreTrue`; `CompletedIsFinal`; `GoroutinesEnd` |
| `service` | 1 task, 7 expressions, `caller`, `eval` and `crash`, all faults of the evaluator, 24,610 states | `DoneIsSettled`; `FailureHasCause`: an expression with a finite value fails only for a deadline or a connection; `AnswerIsCorrect`: what was accepted is settled with its value or an error of its own, or the process died; `ImplementsOrchestrator` |
| `task_reads` | 1 task, 2 users, all faults but `late`, 71,729 states | `ShownIsTrue`, `OwnTaskIsFound`, `TasksNeverGoBack`; without late statements also `ErrorIffFailed`, `SettledIsFinal` and the refinement `ImplementsLifecycle` |
| `evaluator` | every operation (`+ - * / ^ **` and an unknown one) on every pair of floats up to 4, halves included, 6 larger expressions, all faults, 146,625 states | `ValueIsMeaning`, `ErrorHasCause`, `NothingLeftRunning`, `EvaluateReturns`; `NaNOnlyOfRoots`: of finite operands the worker makes NaN only where `^` asks for the root of a negative number (`math.Pow(-2, 0.5)`), and never by a division |
| `accounts` | 2 clients, 1 login and one malformed, 4 passwords, 4 ticks, 843,060 states | `WinnerOwnsLogin`, `ConflictMeansTaken`; `TokenIsOwners`: a token is of a registered user, given for a password that is that user's as far as bcrypt reads it; `TokenLivesItsTTL`: a token is good at once and for its TTL but for the last second, and no longer |
| `process` | the 3 services, 2 requests, 2 signals, a setting that differs in each of 3 environments and in the file, 209,156 states | `ServesItsDatabase`; `StartEnds`; `PoolOutlivesHandlers`; `SignalIsHeeded`: a signal ends the process, or, where `Graceful` alone gets it, cancels the context, stops the agent's HTTP server and closes the pool (for the rest, `signal_lost`) |
| `frontend` | 2 users, 4 requests of theirs, 1,279,655 states | `TokenIsOfLogin`, `ShownIsOwn`, `ListCatchesUp`, `LoadingEnds`, `MessagePasses` |

Runs in which the code does something else than its documentation says; TLC finds
the behaviour in each:

| Run | Document | Code |
|---|---|---|
| `orch_crash` (`AcceptedSettles`) | `README.md:85-86`: the result can be asked for later; data survive restarts | nothing resumes a pending or processing task at startup |
| `orch_caller_timeout` (`EveryRowSettles`) | `README.md:85`, `152-184` | the INSERT was executed, the caller gone: a pending row nobody evaluates |
| `orch_late_statement` (`ErrorIffFailed`) | `proto/orchestrator.proto:40` | a late `UpdateTaskStatus` after `SetTaskError`: processing, with an error message |
| `signal_lost` (`SignalStopsService`) | `shutdown.go:69`: all servers are stopped; `README.md:304` | a signal that comes before fx listens reaches only `Graceful`, which looks up `"http"`, while the orchestrator registers `"grpc"`: its pool is closed and its server serves on, until a second signal |
| `shutdown_cut` (`CutOnlyAfterTimeout`) | `.env.example:6`, `README.md:304`: `GRACEFUL_TIMEOUT`, the time to end correctly | `main` returns on the signal and does not wait for `Graceful` (agent `app.go:216`, orchestrator `app.go:173`, worker `app.go:120`): requests being served are cut off at once |

A crash is not the only way to leave a task unsettled: a last UPDATE that fails
(`orchestrator_server.go:149`, `162`) is only logged and never tried again. `DoneIsSettled` is
therefore checked while the database answers; with the fault `db` it does not hold.

`PoolOutlivesHandlers` speaks of the agent. The orchestrator registers no server as
`"http"`, so `Graceful` stops none, and its pool is closed under running handlers
right after the signal. Where the signal reached only `Graceful`, the process does not
even end (`signal_lost`; the worker, which registers nothing, serves on as well).

### Bounds, and why they are enough

* **Tasks.** Submissions interact only if one touches another's row or shares its
  data; two are enough to show it, and the proofs are for any number. `task_reads` has
  one task, since a read concerns the rows one by one, and two users, since what
  matters is owner or not.
* **Expressions.** One per outcome the handler and goroutine tell apart: two distinct
  values, an infinite value, one that the evaluator refuses, and one that does not compile.
* **Statements.** At most two statements of a task are outstanding (an abandoned one and
  its successor), three with a late INSERT after a crash; nothing is capped.
* **Evaluator.** Trees of up to 7 nodes and depth 3: two binary operands that call the
  worker at the same time, two operands that both fail, an operator that does not
  commute at every level, unary operators that are and are not supported, an infinity
  made on the way, one that is hidden again, and one that is folded into the AST. The
  numbers are the halves up to 4, so that `3 ** 3` and `4 / 0.5` overflow and exponents of
  a half take roots; with the infinities and NaN, every case
  of `Floats` and of `Calculate` is reached by an operation of its own.
* **Service.** One task: what two do to each other is `orch_all_faults`. One expression for
  each outcome the goroutine and the evaluator tell apart, among them one whose value is
  0, which protobuf leaves out. Late statements and database failures are left to
  `orch_all_faults`, since the evaluator does not touch the table, and to the theorem
  `RefinementTheorem`, which is for every set of faults.
* **Accounts.** Two clients and two passwords compete for one login; a third client
  would only lose, and the proofs are for any number. The second login is malformed, and
  of the passwords one is too short, one has bcrypt's 72 bytes, and one begins with that one
  and is longer: it cannot be registered, and logs in to the account of the other. A second is two ticks and the TTL
  three, so that the expiry loses a fraction or not by the time of issue; in four
  ticks a token is made in either half of a second, and expires.
* **Process.** Two requests: one that keeps the server from draining while another
  arrives. Two signals: one that Graceful alone gets and one that ends `main`; a third
  would only be one more. The five pings are those of the code. An environment
  has nothing, or everything, or is a test, and one setting in it and one in the file differ from that: every check of the three `Load`s
  is met with each class of value it tells apart.
* **Frontend.** `MaxRequests` is 4 and bounds what the user does; the requests that answers
  cause (the list after a login or a submission) come on top, and so do logouts. Four are
  enough for two logins to cross, for a submission between two of them, and for two lists
  to overtake each other. Two users: the one who is logged in and another.
  The proofs are for any number of both.

Deadlock checking is off in every run: the system stops when all work is done, when a
process has ended, or when the database lost a statement that has no deadline.

### Fairness

* Goroutines are scheduled, and a context with a deadline ends: weak fairness of what
  the code does for each task, which contains the failing of every statement that
  has a deadline (`HasDeadline`) and not of the one that has none.
* The database executes what reaches it: weak fairness of `Database` (a step may also be a
  loss, where the faults allow it).
* A dead process is started again, by whoever runs it: weak fairness of `Restart`. No
  property needs it; it makes the counterexample of `orch_crash` one in which the new
  process runs and does nothing.
* `EvaluateReturns` and `AnswerIsCorrect` assume nothing about the worker: deadlines alone
  end a call. `Service` has the fairness of `Orchestrator`, with every node's call of
  `Evaluate` in place of the one step, and `ImplementsOrchestrator` shows that this implies it.
* `Startup`: `main` is scheduled, the deadlines of pings pass, and pauses end. The database
  need not answer, nor come up.
* `Frontend`: timers fire, and a request ends, if only by an error of the network. No user
  does anything for certain.
* `SignalIsHeeded` and `SignalStopsService` assume that `main` and `Graceful`'s goroutines are scheduled and that
  the timer of the timeout fires, and nothing of handlers: one may keep its connection
  for ever, and then so does `dbPool.Close`.
* No fault, no submission and no read is ever forced.

## 4. What is proved

`OrchestratorProofs.tla`, for any sets of tasks, users and expressions, and any set of
faults:

| Theorem | Statement |
|---|---|
| `TypeCorrect` | `Spec => []TypeOK` |
| `Invariance` | `Spec => []Inv`, the inductive invariant |
| `ResultTheorem`, `ValueTheorem` | `Spec => []ResultIffCompleted`, `Spec => []ResultIsValue` |
| `UpdateTheorem` | `Spec => []UpdatesFindTheirRow` |
| `AnswerTheorem` | `Spec => []AnswersAreTrue` |
| `CompletedTheorem` | `Spec => CompletedIsFinal` |

and, when `"late" \notin Faults`:

| Theorem | Statement |
|---|---|
| `ErrorTheorem` | `Spec => []ErrorIffFailed` |
| `SettledTheorem` | `Spec => SettledIsFinal` |
| `LifecycleTheorem` | `Spec => ImplementsLifecycle` |

They assume of the constants that `Faults` are fault kinds, that `Denote` is a function
into numbers, non-finite values and the two kinds of error, and that these and NULL are
distinct (`FaultsAssumption`, `DenoteAssumption`, `NumbersAssumption`, `NullAssumption`).

**The argument.** None of the invariants is inductive: they speak of rows, and a row is
only as good as the statements that may still reach it. `Inv` therefore bounds the
wire. `MayBeSent(point)` is the set of statements of a submission that may be
outstanding when its code is at a point: in `eval`, none, which is why a result can
later be written with nothing left to overwrite it; in `done`, any UPDATE of a
given-up attempt. `WireInv` adds that every outstanding statement finds its row
without a result (so nothing can reach a completed one), that only an INSERT is
outstanding for a row that is absent, and that a `SetTaskResult` carries the value
of its own expression; `OneEach` that it is outstanding alone; `ReplyInv` that a
reply is the awaited one, so no goroutine mistakes another statement's answer for its
own; `CallInv`, `PointInv`, `RowInv` and `RequestInv` tie the program point to the
caller, the row and the request.

If nothing is late, `QuietInv` says more: the wire holds exactly what the code waits
for, so the status of a row is known at every point, and each `Execute` is one step of
`TaskLifecycle` (`ExecuteStep`), everything else a stutter (`OnlyExecute`).

`TaskReadsProofs.tla`, for any users, tasks and number of reads, and any set of faults:

| Theorem | Statement |
|---|---|
| `ReadInvariance` | `ReadSpec => [](Inv /\ ReadInv)`, with `Inv` of `OrchestratorProofs` |
| `ReadTypeCorrect` | `ReadSpec => []ReadTypeOK` |
| `ShownTheorem` | `ReadSpec => []ShownIsTrue` |
| `FoundTheorem` | `ReadSpec => []OwnTaskIsFound` |
| `NeverBackTheorem` | `ReadSpec => TasksNeverGoBack`, when `"late" \notin Faults` |

A read only reads (`ReadsOnlyRead`), so `Inv` carries over. `ReadInv` says that an answer
was true when it was taken from the table (`DetailsAnswerIsTrue`, `ListAnswerIsTrue`);
because a row stays and with it the submission it came from (`RowsStay`), the answer
is still true when it is received, and what it left with the user afterwards. For the
last theorem `OrderInv` orders three things: what the user knows of a task, what the
answer in flight tells of it, and what a SELECT would tell now. The table moves
forward only (`NowMoves`, from `ExecuteStep`), "may follow" is transitive, and a
read only takes from a later of the three to an earlier one (`ReadInOrder`).

`AccountsProofs.tla`, for any clients, logins and passwords, any TTL and any clock:

| Theorem | Statement |
|---|---|
| `AccountsInvariance` | `Spec => []Inv`, the inductive invariant |
| `WinnerTheorem` | `Spec => []WinnerOwnsLogin` |
| `ConflictTheorem` | `Spec => []ConflictMeansTaken` |
| `TokenTheorem` | `Spec => []TokenIsOwners`, for any `Key`: whatever passwords have in common |
| `TypeTheorem`, `LifetimeTheorem` | `Spec => []TypeOK`, `Spec => []TokenLivesItsTTL` |

What a client was told is as good as what its handler knew, so `PointInv` says for each
point what the handler knows of the table (at `inserted` the row has its password, at
`compare` it has the hash that was read). `WireInv` keeps the statements of others away:
one on the wire either belongs to a handler that waits for it, or to nobody, and
then changes no handler. That rows never change (`GrowingKeeps`) does the rest.

For a token's life, `TimedInv` keeps the two readings of the clock: the expiry is the first
plus the TTL, the beginning is the second, both cut to whole seconds, and neither reading is
ahead of the clock nor the first of the second. What cutting loses is less than a second
(`TruncatedLoses`), for any number of ticks in it.

`ShutdownProofs.tla` and `StartupProofs.tla`, for any requests, any number of signals, any
environments and files:

| Theorem | Statement |
|---|---|
| `DrainTheorem`, `PoolTheorem` | `Spec => []DrainInv`, `Spec => PoolOutlivesHandlers` |
| `ProcessDrainTheorem`, `ProcessPoolTheorem` | the same of `ProcessSpec` |
| `DatabaseTheorem` | `ProcessSpec => []ServesItsDatabase` |
| `ProcessTypeTheorem` | `ProcessSpec => []ProcessTypeOK` |

`DrainInv` carries "no handler is left, or the timeout has passed" from the return of
`http.Server.Shutdown` to the close of the pool: between them no request arrives, because a
server that was stopped does not serve. Of the other services it says only where they are,
since `Graceful` calls no stop there (`OnlyTheAgent`). `ProcessStep` shows that every step
of `Startup` is one of `Shutdown` or leaves server, pool and `Graceful` alone, so that the
invariant carries over. For the database, the invariant `DatabaseInv` follows the start:
after the second `Load` the process has the source its checks allowed, and past the pings
the database has answered.

`FrontendProofs.tla`, for any users and any number of requests:

| Theorem | Statement |
|---|---|
| `Invariance` | `Spec => []Inv`, the inductive invariant |
| `TypeCorrect` | `Spec => []TypeOK` |
| `TokenTheorem` | `Spec => []TokenIsOfLogin` |
| `ShownTheorem` | `Spec => []ShownIsOwn` |
| `ListTheorem` | `Spec => []ListCatchesUp` |

What may be shown depends on the answers under way. `CallInv` says of each: if the session
has not changed since it was sent, it carries the page's token, and it is no login unless
nobody is logged in; what the agent served, it served to the user of the token. A change of
the session marks every call (`Crossing`), a rendered answer with a mark sets `crossed`, and
a logout, which clears the view, takes it back; `ViewInv` is then kept by each handler.
`SessionInv` adds to `TokenIsOfLogin` that a token never comes without a login, in memory or
stored.

`ListCatchesUp` is about a moment when no request for the list is under way; what makes it
true happened earlier. `ListInv` therefore has a witness, a request `w` for the list that is
fresh (`Fresh`): it is under way or has ended, and every answer of `w` or of a
later one is of this session and has every task the page was told of. Each login and each
answered submission sends the request that becomes the next witness (`NewFresh`), `FreshKeeps`
keeps it over what everything else does, and `CountInv` says that the page is told of no
more tasks than there are, so that no answer served later can have fewer.

`EvaluatorProofs.tla`, for any trees, any largest float and any set of faults:

| Theorem | Statement |
|---|---|
| `EvaluatorInvariance` | `Spec => []EvaluatorInv`, the inductive invariant |
| `EvaluatorTypeTheorem` | `Spec => []EvaluatorTypeOK` |
| `ValueTheorem`, `CauseTheorem` | `Spec => []ValueIsMeaning`, `Spec => []ErrorHasCause` |
| `NaNTheorem` | `Spec => []NaNOnlyOfRoots` |
| `NothingLeftTheorem` | `Spec => []NothingLeftRunning` |

They assume that nodes are finitely many and numbered (`IdsAssumption`) and that each
expression is a tree (`TreesAssumption`). Results are compared with `MeaningOf`, a
recursive function on the nodes. That it exists is a theorem here
(`MeaningExists`): functions that satisfy the recursion from node `j` on exist for every `j`,
since there is no least `j` for which one would not (`LeastNumber`: least counterexamples in
place of induction), and operands have larger numbers than their node.
`MeaningEquation` then gives the meaning of a node from that of its
operands, and powers, the other recursive function, are floats by the same device
(`PowersTable`, `PowersAreFloats`), also by halves and for negative exponents (`HalvesType`,
`PowerType`). The invariant has a part for each thing that may
overtake another: `OrderOfCalls` (operands begin after their node asks and have returned
when it goes on), `OrderOfOperations` (the worker works at a node only while its call waits,
or was given up, and at the request that `RequestOf` still describes), `Answered` (an answer
fits the request), `ChannelHolds` (a channel of errors holds those of the failed operands, in
one of two orders) and `Justified` (each outcome is the meaning, or an error with a cause).
That an operand belongs to one node (`Family`) keeps the return of one call from
disturbing any other (`ReturnStep`).

`ServiceProofs.tla`, for any expressions, trees and faults, and one submission:

| Theorem | Statement |
|---|---|
| `ServiceInvariance` | `ServiceSpec => [](Inv /\ EvaluationInv)`, with `Inv` of `OrchestratorProofs` |
| `RefinementTheorem` | `ServiceSpec => Spec`: the safety part of `ImplementsOrchestrator` |
| `StoredValueTheorem` | `ServiceSpec => []ResultIsValue` |
| `ServiceLifecycleTheorem` | `ServiceSpec => ImplementsLifecycle`, when `"late" \notin Faults` |
| `FailureTheorem`, `DoneTheorem` | `ServiceSpec => []FailureHasCause`, `ServiceSpec => []DoneIsSettled`, when `"db" \notin Faults` |

`EvaluationInv` says who owns the evaluation at each point of the goroutine's code: up to
`start` no call has been made (`Unbegun`), so nothing of it can happen (`UnbegunWaits`); from
`eval` on `EvaluatorInv`, taken over from `EvaluatorProofs`, holds of the AST that
belongs to the submission's expression (`HasTree`); after a crash nobody evaluates, and only
worker handlers still move (`OnlyTheWorkerMoves`). `FaultInv` says that until the
goroutine has ended, a context or an operation that ended did so by a fault of the evaluation.
So what the root returns is the value `Denote` gives or an error that it, or a fault,
explains (`RootReturns`), which is what `Orchestrator`'s one step from `eval` says
(`SaveResultRefines`, `SaveErrorRefines`); every other step is one of `Orchestrator` by
definition or leaves its state alone (`StepRefines`). The refinement gives
`Service` every safety theorem of `OrchestratorProofs`, whichever faults are on, those of the
database among them.

The last two theorems exclude only the fault `db`; late statements of a process that died
and crashes at any moment are included. `CauseInv` adds to failed rows the errors that are
still on the wire, and `CausesLast` that a cause outlives a crash; `SteadyInv` that every statement
is the awaited one unless nothing works at its submission any more, and that the reply to a
last statement stands for a settled row.

All proofs assume of the constants only what the modules' `ASSUME`s say, which TLC evaluates
in the runs. Each inductive invariant was checked by TLC on the instance of its run
before it was proved.

**Only model-checked:** the liveness properties (`GoroutinesEnd`, `AnswerIsCorrect`,
`EvaluateReturns`, `StartEnds`, `SignalIsHeeded`, `LoadingEnds`, `MessagePasses`), and of
`ImplementsOrchestrator` the part that says that fairness of the evaluator's calls implies
fairness of the goroutine: liveness and `ENABLED` are out of the prover's reach. That
`Denote` is what `MeaningOf` computes of each expression of an instance is evaluated by TLC
and assumed by `ServiceProofs` (`DenoteIsMeaning`).

## 5. What is not modelled

* **Timing.** Deadlines are events that may come at any moment; that 12 operations of
  5 s do not fit in a minute, or which of two deadlines is first, is not expressed.
* **The pool's limit** of 10 connections: waiting for one looks like a slow statement.
* `created_at`, `updated_at` and the order of the list; the wording of messages.
* The sign of zero, and fractions other than halves.
* What nothing waits for may be merged with its neighbour: the answer of `SubmitExpression` and
  the first statement of its goroutine, which run side by side, are one step
  (`SpawnEvaluation`).
* Parsing and constant folding by `expr`, an external library: an expression is given as
  the AST it produces, or as one that does not compile.
* **Settings** are classes of values: the lengths of the worker's delays, the number of connections and the
  texts of errors are not compared. A file that changes between the two calls of `Load` is left out,
  as are `NewManager`'s checks, which those of `app.go:86` and `config.go:103` make unreachable.
* **The page's** colour theme, and the wording and order of what it lists.
* Signatures of tokens and the format of headers.
* What is written to logs, generated code, routes and Swagger, CSS, deployment.

## 6. Plan

Done, in the order of importance: `TaskLifecycle`, `Orchestrator` with its proofs, `Worker`
and `Evaluator`, `TaskReads`, `Shutdown` and `Accounts` with their proofs, `Frontend` and
`Startup` with theirs, `Service`, and the proofs of `Evaluator` and of the composition.

Every safety property the passing runs check is proved. What is left is to state, and to prove,
what the findings leave standing: that a task whose id the user was given is settled, or being
evaluated, or that its process died or a statement of it failed; that a row nobody was told of
belongs to a caller that gave up; and the type invariant of `Shutdown` by itself.
