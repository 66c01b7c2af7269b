# TrianaCloud in TLA+

TLA+ models of TrianaCloud, the TLC runs that check them on small instances, and
TLAPS proofs of what matters most for every instance. Source references are to
the repository's files; `R` stands for `RPCServer.java`, `C` for
`RPCClient.java`, `W` for `Worker.java`, `D` for `TaskDAO.java`, `V` for
`resultviewer.jsp` and `J` for `jquery-1.7.1.js`.

## 1. The system

A client posts a file to the **broker** (a Java web application) and names a
number of tasks. The broker puts one row per task in a database table and answers
with their UUIDs. **Workers** ask the broker for tasks by remote calls over
RabbitMQ, execute them with a plugin, and return the results by another call. The
client polls the broker over HTTP, or looks at a **page of results** whose script,
on the jQuery that comes with the broker, lets results be shown and hidden.

| Component | State it keeps | Operations | Talks to |
|---|---|---|---|
| RPC server (`R`), one thread of the broker | its connection; the message it works on | `init`, `run` (gettask, rettask), `stopRunning` | RabbitMQ, task table |
| Task table (`D`, `Task.java`) | one row per task: `State` (PENDING, SENT, COMPLETE), `ReturnData`, ... | `create`, `save`, `getNextPending`, `getByUUID`, `list` | database |
| RPC client (`C`) | a private reply queue, the correlation id of the call in progress | `call`, `getTask`, `sendCompleteTask` | RabbitMQ |
| Worker (`W`), a process | where its loop is, the task in hand | `run` | RPC client, executor |
| RabbitMQ (external) | the request queue, the reply queues, what is unacknowledged | deliver, redeliver, drop | both ends |
| Broker servlet (`Broker.java`) | per request: the tasks still to insert, `UUIDList` | `doPost`, `insertTask` | task table |
| Results servlet (`Results.java`) | none | `byid`, `json`, `results`, `file` | task table |
| Sessions (`DAO.java`) | per container thread: a Hibernate session, i.e. the entities it has loaded and whether a transaction is active | `begin`, `commit`, `rollback`, `getSession` | database |
| Receiver (`Receiver.java`) | a private queue nobody in the repository sends to | `init`, `run`, `stopRunning` | RabbitMQ, task table |
| Context listener (`BrokerServletContextListener.java`) | the two threads and their objects | `contextInitialized`, `contextDestroyed` | Receiver, RPC server |
| Plugin loader (`TaskExecutorLoader.java`) | `addons`, `routingKeys` | constructor, `getExecutor` | executors |
| Executors (command line, Triana, Pegasus, example), `StreamToOutput.java` | a child process and its pipes | `setTask`, `executeTask` | the operating system |
| Results page (V, and the markup of `Results.getResults`) | in the browser: the document, `is_visible` | the function that waits for the page (V:32-64), the click handler of its links (V:48-63) | jQuery, Results servlet |
| jQuery (J, vendored), as that page uses it | the list of waiting functions; private data of nodes, the "fx" queues among it; listeners; timers, the interval, the cached time | `ready`, selection and traversal, `append`, `html`, `click`, `hide`, `toggle` | the browser's document, events and timeouts |
| Encodings (`TaskOps`, `MD5`, `Base64`), HTTP and XML formatting, other pages | none | pure | - |

What is hard about it, and what makes each part correct:

- **RPC server, workers, RabbitMQ.** The row is committed, the reply published and
  the request acknowledged in three steps (R:134-141, R:158-165), and the channel
  may close between any two of them; requests are then delivered and answered
  again. `call()` has no timeout (C:87). An exception leaves a message
  unacknowledged, with a prefetch of one (R:80-90, R:171). Correct means: a task is in one
  pair of hands at a time and executed at most once; a stored result is that of the
  one execution, and stands; each fault costs at most one task; calls get the
  replies that are theirs.
- **Servlets and sessions.** Container threads serve requests in any order, each
  with a session of its own that is never closed as long as nothing fails
  (DAO.java:63). An insert or a read may fail between any two others. Correct means: UUIDs named in a
  response are those of rows, answers are true of the table, and polling shows
  completion.
- **Start and stop.** Two threads are started after an `init()` that may have
  failed, and stopped one after the other with an exception in between possible.
  Correct means: after `contextDestroyed` neither runs.
- **Executors.** A child writes to two bounded pipes and its parent reads one, then
  the other. Correct means: an execution ends if its child would.
- **Results page and jQuery.** The browser tells in several ways, and as often,
  that the page is ready (J:424); clicks come at any time of an animation; an
  animation that ends starts the next one from inside the loop that steps all of
  them (J:8799); the time is cached until a timeout clears it (J:8538); and
  browsers differ in what they can look up, how they parse white space and how they
  lay out blocks. Correct means: the script of the page runs once and in turn; each
  result that is text has one link that finds it; each click turns its result over once,
  one turn after the other, and nothing of the animation is left behind; and a link
  says what it will do.
- **Plugin loader.** What is registered can be instantiated, and its key is listed.
- **Encodings.** What is encoded decodes to itself; digests of different contents
  differ as digests do.

`PROJECT.json` lists the hazards at their lines, with the properties that cover
them.

## 2. Modules

| Module | What it is | Status |
|---|---|---|
| `TaskContract` | abstract specification: what becomes of a submitted task | done |
| `TaskDispatch` | workers, RPC client, RPC server, task table, RabbitMQ | done |
| `TaskDispatchProperties` | its properties, and the refinement of `TaskContract` | done |
| `TaskDispatchProofs` | TLAPS proofs about it: custody, results, the refinement | done |
| `TaskDispatchCallsProofs` | the same: calls and their replies, the poison message, what faults cost | done |
| `TaskSessions` | servlets and sessions, composed with `TaskContract` | done |
| `TaskSessionsProperties` | its properties | done |
| `TaskSessionsProofs` | TLAPS proofs about it | done |
| `MCTaskDispatch`, `MCTaskSessions` | symmetry for TLC | done |
| `ExecutorStreams` | an execution, its child process and their pipes, with its properties | done |
| `ExecutorStreamsProofs` | TLAPS proofs about it | done |
| `BrokerContext` | start and stop of the web application's two threads, redeployment | done |
| `BrokerContextProperties` | its properties | done |
| `BrokerContextProofs` | TLAPS proofs about it | done |
| `MCExecutorStreams` | sizes for TLC | done |
| `PluginLoader` | the plugin directory, its jars and their classes, registration, with its properties | done |
| `PluginLoaderProofs` | TLAPS proofs about it | done |
| `MCPluginLoader` | symmetry for TLC | done |
| `Base64`, `MD5` | the encodings as operators, against a reference | done |
| `Base64Proofs` | TLAPS proofs about `Base64`, for data of any length | done |
| `JQueryCore` | the window, sets of nodes, private data | done |
| `JQueryEvents` | binding handlers, what an event is to them | done |
| `JQuerySizzle` | the selector engine, for selectors of one part | done |
| `JQueryDom` | traversal and change of the document, with clones and their handlers | done |
| `JQueryEffects` | queues, animations, timers and the interval | done |
| `JQueryReady` | the browser, and the functions that wait for the page | done |
| `ToggleContract` | abstract specification: what the links of the page promise | done |
| `ResultsPage` | the page, composed of the six above | done |
| `ResultsPageProperties` | its properties, and the refinement of `ToggleContract` | done |
| `ResultsPageProofs` | TLAPS proof about its ready functions | done |
| `MCResultsPage` | browsers, results and scripts for TLC | done |

The composition goes over `TaskContract`: `TaskDispatch` implements it (proved),
and `TaskSessions` uses it (`Dispatcher == INSTANCE TaskContract`) for whatever the
dispatcher does to rows between two requests. `BrokerContext` says when there is one
RPC server at a time, which `TaskDispatch` takes for granted; `ExecutorStreams` says when an
execution ends and when it comes to an empty array, which in `TaskDispatch` are the
fairness of `executeTask` and the fault `ExecutorReturnsNothing`. `ResultsPage` stands by itself:
the page is printed once (where the servlet prints an error instead, say because a task has not
completed, the page has no results).

Definitions marked "Variant:" are not part of any specification: each is what a
plausible bug would make of the definition below it, and shows that a property can fail.

### TaskDispatch

| Model | Code |
|---|---|
| `state`, `returnData` | the columns `State`, `ReturnData` (and the others that are written with it) |
| `rpcQueue` | `trianaloud_rpc_queue`; its head is the unacknowledged delivery when `serverPc` is neither `waiting` nor `down` |
| `replyQueue[w]` | the exclusive queue `queueDeclare()` of C:62, gone with its connection |
| `serverPc`, `reply` | the line the server's thread is at: `waiting` in `nextDelivery()`, `replying` before and `acking` after `basicPublish`; `stuck` with an unacknowledged message after an exception; `down` with the channel closed |
| `workerPc`, `corrId`, `inHand` | the line the worker is at, the id `call()` waits for, the task or the result it holds |
| `executions` | history: the workers whose executor began the task |
| `getTask`, `sendCompleteTask` | both functions up to the wait in `call()` |
| `TaskArrives`, `ReturnAnswered`, `DiscardReply` | the rest of them, and the loop of `call()` that drops other ids |
| `executeTask`, `ExecutorReturnsNothing`, `WorkerError` | the three ways W:118-137 may go: a result, an empty array, an exception |
| `SendTask`, `SendNoTask` | R:128-139 with `getNextPending` |
| `CompleteTask`, `AcceptNoTask`, `RejectReturn` | R:142-163 |
| `HandlerError` | any other exception in R:115-166, before the commit (no change) or after it |
| `Publish`, `Ack` | R:140-141, 147-148, 164-165 |
| `Stop`, `init` | the channel closes; R:73-99 on the next deployment |

A result that is not the encoding of a task is `Undecodable`; the sentinel task with
`NOTASK` set is sent to an idle worker, which sends it back (W:102-105).

What is assumed of RabbitMQ (it is used through amqp-client 2.7.1): a queue has one
consumer here, delivers in order, and a message that is not acknowledged when its
channel closes returns to its old place; a message without a queue to go to is
dropped; an exclusive queue goes with its connection. RabbitMQ and the database do
not themselves crash: the request queue is not durable, and what its loss does is
that of `Crash` for every caller at once.

A restarted worker is another worker: it has another reply queue and no memory.
A worker that loses its connection goes on executing but never gets anything in or
out again (`Crash` lets its execution begin).

### TaskSessions

| Model | Code |
|---|---|
| `pool`, `taken`, `runs`, `stored` | of `TaskContract`; `Row(t)` is the row they stand for |
| `loaded[h][t]` | the entity in the first-level cache of thread `h`'s session |
| `active[h]` | that session's transaction was begun and neither committed nor rolled back |
| `left`, `uuids` | tasks the request has still to insert; `UUIDList` |
| `reported`, `seen` | history: UUIDs named in responses; the last answer to a poll |
| `doPost`, `insertTask`, `InsertFails`, `writeResponse`, `ListAfterPost` | `Broker.doPost`, a step per transaction or response |
| `getJsonByID`, `GetByIDFails`, `getFile`, `getAll` | `Results.doGet` |
| `BeginFails`, `ReadFails`, `WriteFails` | what an exception leaves behind in `DAO` and `TaskDAO` |
| `Dispatch` | any step of the dispatcher, from `TaskContract` |

The dispatcher's thread has a session too; as it is the only thread to change rows
it never has a stale one, which is why `TaskDispatch` has no sessions. Which UUIDs
a request will draw is settled when it starts; that no two are alike is assumed.

### ExecutorStreams

| Model | Code |
|---|---|
| `pc` | the stream being read (`out` before `err`: `StreamToOutput.java`:48-60 on the caller's thread, Command line `Executor.java`:49-56, `RunPegasusPlan.java`:101-108), then `waitFor()`, then the encoding of the task |
| `child`, `output`, `written`, `received` | external: the process, what it has to write, what it has written, what was read; their difference is what the pipe holds |
| `closed` | streams the executor closed; `StreamToOutput` closes in `finally` and goes on after an `IOException` |
| `Caught` | the `catch` blocks: an empty array, or for Pegasus (`PegasusExecutor.java`:52-64) on to the encoding |
| `result` | `task` is what `TaskOps.encodeTask` returns, `nothing` is `new byte[0]` |

A pipe is at its end when the child has exited: no process the child started itself is
assumed to hold it open. Output is counted in portions; what is in a `BufferedReader` counts as
read. The exit status is in `child` and, as in the code, nothing looks at it.

### BrokerContext

| Model | Code (`BrokerServletContextListener.java` unless named) |
|---|---|
| `pc` | the call `contextInitialized` (45-85) or `contextDestroyed` (87-96) is at |
| `channel`, `consumer`, `keepRunning` | the fields of `Receiver` and `RPCServer`, per deployment |
| `init`, `InitFails` | `Receiver.java`:71-94, R:73-99; a consumer that was made but not subscribed is `deaf`: nothing wakes it |
| `start`, `join` | 68-72, 91-92 |
| `stopRunning` | `Receiver.java`:96-103, R:101-108; `close()` on no channel, or on one closed already, throws an exception that is not an `IOException`, and `contextDestroyed` ends |
| `thread` | the loops `Receiver.java`:106-152 and R:111-175 |
| `SelectPending`, `MarkSent`, `basicPublish` | D:117-122, D:127-129, R:140-141 |
| `MissStop` | `keepRunning` is not volatile |

The container is taken to log an exception of a listener and to go on, to deploy again only after
`contextDestroyed` has ended, and not to interrupt the joins. Requests never
run out; what becomes of a request that is not answered is the business of `TaskDispatch`.

### PluginLoader

| Model | Code (`TaskExecutorLoader.java`) |
|---|---|
| `directory`, `jar`, `kind` | what is in the plugin directory, chosen at the beginning: external |
| `pc`, `left`, `reading`, `lines`, `done` | where the constructor is (53-126): the jars still to read, the jar being read, the lines of its `META-INF/config` still to read, its classes that were dealt with |
| `addons`, `routingKeys` | the fields of that name |
| `findJars`, `OpenJar`, `ReadLine`, `Register`, `NoMoreLines`, `NoMoreJars` | the three loops, with their `catch` blocks |
| `BreakDown` | an `Error`, such as a class that does not link: none of the `catch` blocks is for it, and the worker ends |
| `getExecutor` | 128-137; `answer` is what the worker is given |

A routing key is what the executor itself answers; here each class has one of its own. The
worker names its keys in each call, and the server ignores them (R:129-131).

### Base64 and MD5

`encode`, `decode0` and `decode` compute on numbers as `Base64.java` does with shifts and
masks; a character is its place in the alphabet. `OutSize` and `ObufSize` are the arrays they
fill. `AddNoise` is what happens to a text on its way: characters outside the alphabet, which
`decode` skips. `Reference` says bit by bit what Base64 is. In `MD5`, `toHex` is
`MD5.java`:68-78 and the digest comes from the Java library; `written` is what the broker
stores of it.

### ResultsPage and jQuery

JavaScript runs one event to its end, so a function of jQuery is an operator from the
window to the window, and an event is an action of `ResultsPage`. Two things that do call
back are split into steps: the ready list, whose functions are called one by one (`ReadyFunction`),
and `fx.tick`, which walks a list that changes under it (`TickStarts`, `TickSteps`, `TickEnds`). No
event is delivered between such steps (`Idle`), but time passes.

| Model | Code |
|---|---|
| `window.nodes` | the document, from the markup of `Results.java`:266-290: per result a title, what it shows, and an empty `p` |
| `window.cache`, `Data`, `SetData`, `RemoveData` | `jQuery.cache` (J:1654-1850), by node and key |
| `window.listening`, `AddHandler`, `On` | the listeners of the browser, and `jQuery.event.add` |
| `Deliver`, `Dispatch`, `CallHandler`, `Answered` | an event on its way up, `jQuery.event.dispatch`, and what `return false` does (J:3267) |
| `SizzleFind`, `SizzleFilter`, `OldSizzle`, `Sizzle`, `MatchesSelector` | the ways from a selector to nodes; which is taken depends on `support.layout` |
| `Nth`, `Prev`, `NextMatching`, `Parents`, `Unique` | `.prev()`, `.next()`, `.parent()` |
| `Clean`, `BuildFragment`, `Clone`, `CloneCopyEvent`, `DomManip`, `Html` | `.append()` and `.html()`; the last target gets the fragment, the others get clones |
| `window.timers`, `timerId`, `fxNow`, `opt[e]` | `jQuery.timers`, the interval, the cached time, the options of the animation that `e` is in |
| `Enqueue`, `Dequeue`, `DoAnimation`, `FxShow`, `FxHide`, `Custom` | from `toggle('slow')` to the timers |
| `StepTimer`, `LastStep`, `Restore`, `Complete`, `StopInterval` | a step of a timer, its last one, the end of the animation and of the interval |
| `eventModel`, `toplevel`, `readyState`, `arriving`, `scrollCheck` | external: the browser, and what it has still to deliver |
| `readyList`, `Add`, `FireWith`, `Fired` | `jQuery.Callbacks("once memory")` |
| `Ready`, `BindReady`, `EventArrives`, `DoScrollCheck` | J:422-492, 928-961 |
| `PageReady`, `LinkClicked` | V:32-64, V:48-63 |
| `Click`, `TimePasses`, `FxNowCleared` | the user, the clock, the timeout of `createFxNow` |

Styles are told apart as far as jQuery does: none, moving, at the end of an animation. Of the
properties that `genFx` lists, `Props` has one that is measured and one that is not, for the others go
the same ways. A timer carries its age instead of the time it started, so that time needs no
bound. What the result of a `string` task holds is opaque: the page does not look into it. The first
two of the waiting functions are jQuery's own (J:1526, J:6694), the third the page's.
The modules cover the arguments that the page passes, not all that jQuery accepts: a set of nodes,
HTML that begins with text, one handler without a selector, one duration.

## 3. Runs

| Run | Question | Instance |
|---|---|---|
| `dispatch_faults` | do custody, results, losses and calls stay in order, and is the contract implemented, with every kind of fault? | 2 tasks, 2 workers, 3 ids, 3 faults; 510,000 states |
| `dispatch_progress` | do calls return and tasks get handed out through early calls, crashes, worker errors and restarts, and does every task complete if nothing fails? | 2 tasks, 2 workers, 2 ids, 2 faults, fair; 686,000 states |
| `sessions_faults` | are responses and answers sound, and what do failures cost? | 2 tasks, 2 threads, batches of 2, 2 faults; 380,000 states |
| `sessions_fresh` | does polling show completion to a thread that has not loaded the task? | 2 tasks, 2 threads, fair |
| `sessions_polling` | does polling show completion? **No.** | 1 task, 2 threads, fair |
| `executor_streams` | what can block an execution and what cannot, what does it return, what does it leave behind? | 3 executors, pipes of 2, up to 4 portions per stream, 2 faults, fair; 21,000 states |
| `broker_redeploy` | what outlives a deployment, can two servers hand out one row, does `contextDestroyed` return, and do threads end? | 2 deployments, 1 row, 2 faults, fair; 171,000 states |
| `plugin_directory` | is what can be registered registered, and are the keys listed those of executors one gets? | 2 jars, 2 classes, configs of up to 2 lines; 76,000 states |
| `base64_round_trip` | does `encode` meet its definition, and `decode` give back what was encoded? | 5 bytes, up to 5 of them, 2 characters of noise; 423,000 states |
| `md5_represents` | are other digests written otherwise? **No.** | pairs of digests of 3 bytes |
| `results_page` | does the page come up, are its links the right ones, and is each click one change, in every browser? | 3 browsers, up to 2 results, 3 clicks, fair; 83,000 states |
| `link_text` | does a link say what it will do? **No.** | the same |

`link_text` is a disagreement with V:53, "change the link depending on whether the element is shown
or hidden": `is_visible` (V:39) is one variable for the links of all results. After a click on one link
and a click on another, the second says Show in front of a result that has just been shown.
`TextAgreesAlone` shows that the shared variable is the only cause: on a page with one result its link
is right whenever nothing moves, however often it was clicked before.

`md5_represents` is a disagreement with `MD5.java`:65, which calls the text "an 8 byte
representation of the 32 byte MD5 digest": `Integer.toHexString` leaves out a leading zero, so
that digests that differ may be written alike. Only the Receiver's log sets two of them side by side (`Receiver.java`:133-142).

`sessions_polling` is a disagreement with the repository's README, line 15:
"execution status can be polled and monitored via HTTP requests". Once each thread
of the container has an entity of the task from before its completion (from
inserting it, from the `list()` at the end of a `doPost`, from an earlier poll), each
poll is answered from that entity, by an error page, for ever. `sessions_fresh`
shows that the sessions are the only cause: one thread that has not is enough.

`dispatch_faults` also shows what a return that does not decode does
(`PoisonBlocks`): it is never acknowledged, so it is the first message again after
each restart, and from then on no task is handed out and no result stored.

`dispatch_progress` includes the call that is made before the broker has declared the queue. That call
never returns and its worker is lost, which `ServiceGoesOn` leaves out like a dead one; what it shows
is that nothing else is lost with it.

**Bounds.** The safety properties that section 4 lists are proved without any bound; there
the sizes only have to make the cases happen. `MaxFaults`: 3 faults let each kind meet each
other, twice one and once another. Two workers and two tasks are the least for a task to reach
the wrong worker and a request to be answered with another task on redelivery. `CorrIds`:
`CallsAreAnswered`, which is proved for any set of ids, says that at most one id of an earlier
call of a worker is still about, so a third id adds nothing a fresh UUID could do, and a worker
never lacks an id. `MaxBatch`: 2 is the least batch that can fail part of the way. Two
threads are the least that can have different sessions. In `ExecutorStreams` a pipe of 2
is the least that is neither empty nor full after a portion, 4 portions overfill it, and the
second fault is what the Pegasus executor needs to fail altogether. In `BrokerContext`
two deployments are the least that can overlap, and one row is what two servers can hand out twice
(the proofs are about any number); two faults break both parts of one deployment or one part of each. In `PluginLoader` two
jars can offer the same class, and two lines name two classes or one twice, in any order. The bytes of
`Base64` have each bit set and each clear, at the lengths 0 to 5 each remainder comes with and without
a whole triple, and two characters of noise fall anywhere, also within a group. Three bytes of a digest
are enough for two neighbours to be taken for one another. In `ResultsPage` two results of text
make one link a clone and the other the original, and let two animations run against each other; three
clicks make two wait behind one, or one result move while the other is clicked twice. A `Duration` of 2
intervals has a step that is not the last, and a `MaxLag` of 1 lets a timeout or an interval come
too late by the least there is. The browsers are one of today and two versions of Internet
Explorer, which between them take both sides of every test the page depends on.

**Deadlock** is checked in the runs of `TaskSessions`. It is not in those of `TaskDispatch`, as with
all workers dead the system does stop (that it does not otherwise is `EveryTaskCompletes` and
`ServiceGoesOn`), nor for
`ExecutorStreams` and `BrokerContext`: an execution ends, and the last deployment too. `Base64` and
`MD5` come to their end, so does a worker whose loader breaks down, and so does a page that nobody clicks on
any more. The deadlock of an execution is `StuckOnErrorsOnly`.

**Fairness.** `WF(ServerStep)`: the server's thread runs and, a strong assumption, a
web application that stopped is deployed again (the liveness properties with
`Stop` are about what it finds then; nothing restarts it by itself).
`WF(WorkerStep(w))`: processes run, RabbitMQ delivers, executions end. No fault is
fair, and neither is `insertTask`. In `TaskSessions`, requests that began go on
(weak fairness), the dispatcher works, and for each task somebody goes on
polling such that every thread gets to answer when it can (strong fairness: a thread is free
again and again). Strong fairness makes the violation of `PollingShowsCompletion` a statement
about the code, not about a client that gave up. In `ExecutorStreams` the executor's thread and the
child run, and a child that has written everything exits; none need fail. In `BrokerContext`
the listener's thread and the two others run (weak), and a thread does not miss for ever that
`keepRunning` was reset (strong, for each round of its loop goes through the log's
lock); no deployment is obliged to begin or to end. In `ResultsPage` the browser goes on with the page,
JavaScript that runs goes on (`JavaScriptGoesOn`, weak fairness written out), the interval is called
while it is set and time passes (weak), and the timeout of `createFxNow`, which asks for no delay, is not put off for ever by an
interval (strong: each tick disables it for a while). No click is fair.

## 4. Proofs

`TaskDispatchProofs`, for all tasks, workers, ids and numbers of faults:

| Theorem | Statement |
|---|---|
| `TypeCorrect` | `Spec => []TypeOK` |
| `SingleCustodyHolds` | `Spec => []SingleCustody` |
| `AtMostOnceExecutionHolds` | `Spec => []AtMostOnceExecution` |
| `ResultAttributionHolds` | `Spec => []ResultAttribution` |
| `ResultsStandHolds` | `Spec => ResultsStand` |
| `Refinement` | `Spec => Implements`, i.e. `TaskContract` |

`AtMostOnceExecution` also says that a row which is not marked SENT yet has no execution, and
`ResultAttribution` that only a COMPLETE row holds a result. They assume `DispatchAssumption` only: the sentinels differ from each other, from
tasks and from results.

The inductive invariant is `IInv == TypeInv /\ \A t \in Tasks : TaskInv(t)`.
`TypeInv` adds to `TypeOK` what the server has in hand at each point (`ServerHolds`)
and what a worker has (`WorkerHolds`). `SingleCustody` alone is not
inductive: that a return taken from the queue is the only place of its task does
not tell who executed it. So `TaskInv(t)` has three parts. `OnePlace`: the places
where `t` may be, position by position in the queues, exclude each other.
`History`: a task on its way to a worker has no execution, one on its way back has
exactly one, by the sender of that return. `Row`: a row that is not SENT or
COMPLETE has its task nowhere, and a COMPLETE row has the result of the one
execution. Most steps move nothing or shift the positions of a queue by one, which
the lemmas `FewerPlaces` and `NothingMoves` settle once; the redelivery after
`Stop` needs no case of its own, because the row was changed before the reply was
published and the second answer can only be another task. The properties follow
from `IInv`; the step property and the refinement also from `QuietOrEffect`, that a step changes
nothing the contract sees, or is one of four effects, and `CompletedOnce`, that a result saved again
is the one the row has.

`TaskDispatchCallsProofs`, from the same assumption:

| Theorem | Statement |
|---|---|
| `CallsAreAnsweredHolds` | `Spec => []CallsAreAnswered` |
| `PoisonBlocksHolds` | `Spec => PoisonBlocks` |
| `LossBudgetHolds` | `Spec => []LossBudget` |

That a waiting worker has its request or its reply is not inductive: it does not tell that
the request which the server is about to acknowledge is answered, nor that what a redelivered
request is answered with will not be taken for the reply to another call. `CallsInv` adds where
messages of a call may be. A call is one request (`UniqueIds`). A request of an earlier call is at the
head of the queue or nowhere (`OldFirst`), for it was answered, and only a stop before the acknowledgement
brings it back. Once a call is answered, its worker has no other request, and replies behind the first
one are to the same call (`AnsweredLast`). So the next call finds messages of at most one earlier one
(`OneOld`), its replies are of its kind (`Kinds`), and an acknowledgement leaves a reply behind (`Kept`).
A dead worker's calls are left out, for its reply queue is gone.
`PoisonBlocks` follows from `ServerKinds`: the server never comes to reply to
or to acknowledge what it could not decode.

For `LossBudget`: a task is not always lost by the fault itself. A stop after the reply leaves a request in the
queue; when it is delivered again, a task is sent for it to a call that is over or has its reply already,
and is lost without another fault. A crash leaves such requests too. So `LossInv` counts these
requests (`SpareRequests`) together with the tasks that are lost or bound to be, being neither in hand, nor the first
reply to a call in progress, nor in a return (`GoneTasks`): one more fault adds one to the
sum at most, and the handling of a spare request moves one from here to there. `Lost` is part of `GoneTasks`.
Two facts of `CallsInv` make the count come out: a worker has one request, and that of an
answered call is the head of the queue.

`BrokerContextProofs`, for any number of deployments, rows and failures:

| Theorem | Statement |
|---|---|
| `ContextTypeCorrect` | `Spec => []TypeOK` |
| `OneServerHolds` | `Spec => []OneServer` |
| `HandedOutOnceHolds` | `Spec => []HandedOutOnce` |
| `LeftRunningHolds` | `Spec => []LeftRunning` |
| `StoppedAndJoinedHolds` | `Spec => []StoppedAndJoined` |

They assume `ContextAssumption`: that "no row" is no row, and that the bounds are numbers. The
inductive invariant is `Context /\ Rows`. `Context` follows the
listener: nothing exists of deployments to come (`Ahead`), a Receiver that was not
stopped has its channel or has failed (`ReceiverUp`), and behind `stopRunning()` a part is
off, the server unless the Receiver had failed (`ReceiverStopped`, `ServerStopped`). From
it follows that two open servers mean a failed Receiver (`OneOpen`). `Rows` needs just
that: unless a Receiver failed, a server that can publish what it has found is
the only one, and nobody was given its row before (`InHandNotHanded`). That a row is marked before it is
published (`SavedFirst`) closes the circle. `StoppedAndJoined` needs two more parts (`Joins`): that an
exception of `stopRunning()`, which cuts `contextDestroyed` short, means a channel that was lost
(`ServerUp`, next to `ReceiverUp`), and that the second join comes after the first (`ReceiverJoined`).

`TaskSessionsProofs`, for any number of tasks, threads, batches and failures:

| Theorem | Statement |
|---|---|
| `TypeCorrect` | `Spec => []TypeOK` |
| `BatchesAreReportedHolds` | `Spec => []BatchesAreReported` |
| `SessionsLagHolds` | `Spec => []SessionsLag` |
| `AnswersAreSoundHolds` | `Spec => AnswersAreSound` |

They assume `SessionsAssumption`: finitely many tasks, bounds that are numbers, and that "no entity" is
no `State`. The inductive invariant adds `Rows`, what the dispatcher's contract leaves of the table, and
`Requests`: what a request has inserted and has still to insert are two parts of
one batch, and a thread without a request has neither. Without `Requests` nothing bounds the
rows that a failed insert leaves unnamed: it fails with a task left, so that of a batch at most
`MaxBatch - 1` are inserted. `SessionsLag` is inductive given that rows only go forward,
whatever of the contract's actions the dispatcher takes. `AnswersAreSound` is a property of
steps: a session, which is never ahead of the table, answers "200" of a complete row only, and
a UUID that was named has a row to be found.

`ExecutorStreamsProofs`, for any capacity of the pipes, amount of output and number of failing calls:

| Theorem | Statement |
|---|---|
| `TypeCorrect` | `Spec => []TypeOK` |
| `StuckOnErrorsOnlyHolds` | `Spec => []StuckOnErrorsOnly` |
| `WholeUnlessFaultHolds` | `Spec => []WholeUnlessFault` |
| `NoChildLeftBehindHolds` | `Spec => []NoChildLeftBehind` |

They assume `StreamsAssumption`: the known executors, a pipe that holds something, and bounds that are
numbers. The inductive invariant says how the executor comes to where it is: the
streams are closed in the order they are read in (`ClosedInOrder`), without a fault each is left at its end only
(`LeftAtEnd`), a child that succeeds has written everything (`SucceedsWhenWritten`), and
an execution past its child's output with the child still running is that of Pegasus after a
fault (`Blame`). That the executor can be stuck only on standard output with errors pending
then follows from `ClosedInOrder` alone.

`PluginLoaderProofs`, for any jars, classes, configs and orders of reading:

| Theorem | Statement |
|---|---|
| `TypeCorrect` | `Spec => []TypeOK` |
| `OffersAreTakenHolds` | `Spec => []OffersAreTaken` |

They assume `LoaderAssumption`, that `MaxLines` is a number. In the inductive invariant what an opened jar
offers is registered or named by a line still to come (`Offered`), and the keys are exactly
those of the executors registered (`Keys`). The latter includes that a class that was dealt with is
registered if it is an executor, which is what lets a line that names it once more be skipped.

`Base64Proofs`, for data and texts of any length and any noise:

| Theorem | Statement |
|---|---|
| `GroupsComeBack` | for all bytes `a`, `b`, `c`: the group they are encoded to decodes to them |
| `RoundTripHolds` | `Spec => []RoundTrip` |

They assume `Base64Assumption`, that bytes are below 256 and the bounds numbers. A group by itself is
arithmetic: the parts in which the characters cut each byte (`Cuts`), characters and decoded bytes by these
parts (`TripleByParts`, `RestByParts`, `DecodeByParts`), and no more than the uniqueness
of quotient and remainder (`Divisions`). The text then comes in three steps. What `encode` writes is
`Reference`, the definition bit by bit (`EncodeIsReference`, by `SixBitsIs`: twenty-four bits are four
characters of six). A character outside the alphabet, wherever it is put in, leaves what `AllLegal` keeps of the text
as it was (`NoiseIsSkipped`). And a text of which the reference is kept decodes to the data
(`DecodeIsBack`). So the inductive invariant says of a text on its way only that what counts of it is
the reference (`OnItsWay`); it gives besides that the arrays of `OutSize` and `ObufSize` always hold
what is written, so that the step to "failed" is never taken.

`ResultsPageProofs`, for any scripts, results, browsers and numbers of clicks:

| Theorem | Statement |
|---|---|
| `ReadyInOrderHolds` | `Spec => []ReadyInOrder` |

It assumes `ScriptsAssumption`, that the scripts are sequences of names. The order in which functions ran says
nothing of those that wait, so the inductive invariant `ReadyInv` adds the list: until `jQuery.ready` is
told for the first time, the list holds what the scripts that ran have handed over, and nothing has run
(`Waiting`); from then on it holds all functions and its index is one ahead of the history,
until it is emptied and all have run (`Told`). That nobody tells `jQuery.ready` too early is `Loading`: a browser
has no event to deliver before it has parsed the page and so run every script, and a
scroll check tells it only afterwards. `AddAll` is about the loop in which a script hands over its functions.

Texts and lists of any length need induction. The library's theorems of induction are about an
operator, which the provers cannot put in; `SetInduction` speaks of a set of numbers instead, and is proved by
the least number outside of it. `FlattenSeq` and `FoldLeft` are defined by recursive functions, and each
use of them is proved about with a set of lengths for which the recursion has a solution
(`FlattenIs`, `FlattenHasParts`, `AddAll`).

**Only model-checked.** The other invariants of `ResultsPage`: they speak of nodes that `SelectSeq` selects, whose
definition the proof system does not expand, so not even that it gives a sequence can be shown; and the walk over the
document (`Preorder`) is defined by recursion over a tree, for which the shape of the tree would have
to be carried through every change that `.append()` and `.html()` make.
Liveness, which the proof system does not reason about: `EveryTaskCompletes`, `ServiceGoesOn`,
`EveryExecutionEnds`, `StopsEnd`, `FreshSessionShowsCompletion`, `PageComesUp`, and that of
`ToggleContract`. The properties that do not hold (`RepresentsDigest`, `PollingShowsCompletion`,
`LinkTextAgrees`) have nothing to prove.

Worth proving next: `TimersMatchQueues`, once `JQuerySizzle` and `JQueryDom` select by an operator
that can be reasoned about, with one lemma for each step of `JQueryEffects` on what it does to the timers of one
element; and that rows only go forward in `TaskContract`, stated there once and used by both of its clients.

## 5. What is not modelled

- Contents of tasks and results, names, MD5 sums, timestamps: no decision depends on them.
- Parsing of forms and formatting of responses (`TrianaCloudServlet`, `DomPain`,
  `HttpException`); the pages `index.jsp` and `scriptget.jsp`, which have no script.
- `showHide.js`: no page loads it, its tag is commented out (V:26).
- Of jQuery what the page never runs: Ajax, deferreds, attributes and values, delegated and triggered
  events, unbinding, `stop()` and `fx.off`, other animations and easings, selectors of several parts,
  pseudo classes, XML; the opacity of browsers without it, whose hook changes only another style.
- A result page whose results have links or class names of their own in their text.
- What `Receiver` does with a message (`Receiver.java`:108-145): its queue is private, unnamed, and nothing
  in the repository publishes to it, so that the handling is not reached. A model would have to invent
  the sender.
- `TaskDAO.delete`, `TaskDAO.get`, the paged `list`, `DAO.close`: nothing calls them.
- A restart of RabbitMQ or of the database, and the end of the web application in
  the middle of a `doPost`, which leaves rows unreported like a failed insert.
- Routing keys and plugins named in a request: the server ignores them (R:129-131).
- The offset argument of `Base64.encode`, which nothing passes; the MD5 digest itself.
- The collection of files from a SHIWA bundle by the executors; processes a child starts itself.
- A database that cannot be reached when the application is deployed: the constructor of `TaskDAO`
  opens nothing, so each thread meets that in its loop (`HandlerError`).
- `getRoutingKey()` of an executor that throws after it was instantiated (`TaskExecutorLoader.java`).
- An exception that leaves `Receiver.init`, and with it `contextInitialized`: the deployment itself
  fails then (`BrokerContext` has the exceptions that are caught there and in `RPCServer.init`).
- In `TaskSessions`, a read that fails at its commit, and a commit of which the database did
  not say whether it took place.
- Of what an animation moves on the page, the width; the markup around a result (`<pre>`).
