# minkube in TLA+

minkube distributes container tasks from one *manager* process to several
*worker* processes over HTTP.  This directory models the parts of it in which
something can go wrong that a unit test hardly reaches, checks the models with
TLC on small instances, and proves the main safety properties with TLAPS for
every value of the constants.  `PROJECT.json` lists the runs, the lines each
definition models, the hazards and the theorems.

Paths are relative to `src/`; `manager.go` is `internal/manager/manager.go` and
`worker.go` is `internal/worker/service/worker.go`.

## 1. The system

| part | state | operations | what makes it correct |
|---|---|---|---|
| **Manager tables and loops** (`manager.go`, `manager/http/handlers.go`) | `TaskDb`, `SortedTasks`, `PendingTasks`, `EventDb`, `WorkersTaskMap`, `TaskWorkerMap`, pointers to shared `task.Task` objects | `StartTaskHandler`, `StopTaskHandler`, `AddTask`, `SendWork` (one goroutine, every 10 s), `updateTasks` (a goroutine per worker, every 15 s), `CleanUpTasks` (hourly) | the tables agree with each other; the list is sorted and covers `TaskDb`; every queued task gets its turn; what workers run becomes known, also after a crash |
| **Worker health and selection** (`manager.go`) | `WorkerHealth`, `WorkerState`, `WorkerHealthCheckFailures`, `lastWorker` | `HealthCheckWorkers` (every 3 s, without waiting), `MarkWorkerUp`, `MarkWorkerDown`, `SelectWorker` | the health tables agree; a worker that stays up is eligible; candidates are served in turn; a worker that is gone is excluded |
| **Manager mutex** (`manager.go`) | `mu sync.RWMutex` | `Lock`, `RLock` and their counterparts in every operation above | exclusion; whoever waits gets it |
| **Worker task service** (`worker.go`, `worker/http/handlers.go`, `task/task.go`) | `TaskIds`, `Queue`, `mu`, the task objects, Docker's containers | `StartTaskHandler`, `StopTaskHandler`, `RunTasks`/`runTask`, `StartTask`/`Docker.Run`, `StopTask`, `MonitorTasks`, `updateTaskState` | a task is started once and reported Running only if it was started; reports never go back; accepted tasks get reported; exits are noticed |
| **Manager and workers over the network** (all of the above) | requests and answers on their way | `POST /tasks` and `GET /tasks` of a worker, timeouts, retries, crashes | a task is given out again only when an answer was given up; what a worker accepted becomes known; the manager's view never runs ahead |
| **Listing and pagination** (both `http/handlers.go`) | none | `GetTasksHandler`, `parsePaginationParams` | a page is its slice of the list; a client that follows the pages misses nothing |
| **Manager API middlewares** (`manager/http/api.go`) | API keys, limits per endpoint | authentication, permission, rate limit, correlation id | a request is served at most once, and its status tells whether it was |
| **Container logs** (`worker.go`, `task.go`) | a Docker stream | `GetDockerTaskLogsHandler`, `ProcessDockerStream`, `GetDockerContainerLogs` | frames come out complete and in order; the end of the stream is noticed |
| Worker statistics, scheduler interface, node, web UI | - | - | read-only, unused, or static |

**Interaction.**  A client posts a task to the manager; `SendWork` takes it from
`PendingTasks`, asks `SelectWorker` for a worker and posts it there; the worker
gives it a *new* uuid, queues it, and starts a container.  The manager learns
of the worker's tasks by polling `GET /tasks`: a task with an unknown id is
adopted ("orphaned"), a known one has its state, container and times copied.
Within a process, goroutines share memory under one `RWMutex`; the manager's
queue, table and list hold pointers to the same task objects.

**What is hard.**  Goroutines that release the mutex between two halves of an
operation; writes that do not take it (`t.State = task.Scheduled` in
`SendWork`, `Queue.Enqueue` in the worker); answers applied after the state they
describe has changed; overlapping probes; requests that time out and are queued
again; nested locks; crashes of processes that keep everything in memory;
Docker calls that fail half-way.  `PROJECT.json` lists each hazard at its line.

## 2. Modules

| module | models | proofs |
|---|---|---|
| `Manager` | manager tables, send loop, poll loop, cleanup, task handlers, crash | `ManagerProofs` |
| `WorkerSelection` | health checks and `SelectWorker` | `WorkerSelectionProofs` |
| `ManagerLock` | who waits for whom at `Manager.mu` | `ManagerLockProofs` |
| `Worker` | worker goroutines, handlers, Docker, crash | `WorkerProofs` |
| `WorkerReports` | abstract: what a worker promises the manager | refinement proved in `WorkerProofs` |
| `Minkube` | the manager, its workers and the requests between them | `MinkubeProofs` |
| `Delivery` | abstract: how often a request to start a task may be taken | refinement proved in `MinkubeProofs` |
| `Paging` | the index arithmetic of both `GetTasksHandler`s | `ManagerApiProofs` |
| `ManagerApi` | a request's way through the middlewares to a handler, walks over pages | `ManagerApiProofs` |
| `LogStream` | a request for the logs of a task | `LogStreamProofs` |
| `InsertionProofs` | what `InsertAt` returns: `InsertSorted`'s append, copy and assignment | used by `ManagerProofs` and `ManagerApiProofs` |
| `MC*` | the instances for TLC (symmetry sets) | |

**How they fit together.**  `Manager` takes two things from elsewhere: that a
worker's answers behave like `WorkerReports` (its environment steps
`WorkerStarts`, `WorkerEnds`, `WorkerRestarts` are the steps of that module, which
`EnvironmentIsWorkerReports` proves), and that `SelectWorker` returns some worker or fails.  `Worker` is shown to
implement `WorkerReports`; `WorkerSelection` says which worker can be returned.
`Manager` and `WorkerSelection` also take for granted that a goroutine which
waits for `mu` gets it; `ManagerLock` shows under which condition it does.
`Minkube` puts the two processes together: each critical section, and each pass
of a loop between two of its requests, is one step, so that both sides and the
network between them fit into one state space.  `ManagerApi` uses the arithmetic
of `Paging`; what a panic inside a page does to everybody else is in
`ManagerLock` (`Panic`).

### Manager

`heap` is the sequence of task objects ever allocated and a pointer is an index
into it, so that a write through one table is seen through the others, and
replacing an entry (`AddTask`, `m.TaskDb[t.ID] = t`) differs from writing into
it.  A task is its id, state and start time; the other fields are never read by
the manager.  Each critical section is one action, with everything the code does
in it.  The loop that applies a worker's answer is one action per reported
task, with `mu` held in between, because `SendWork` writes `t.State` without the
lock and can hit any point of that loop.  `IsInsertPoint` says of the position
`sort.Search` returns only what bisection guarantees on *any* list (the left
neighbour is not later, the right one is), so that sortedness is a result, not
an assumption.  `StopTask` and `HandlerAddTask` are the two halves of
`StopTaskHandler` around the unlocked gap; `StartTask` stamps the task before
it waits for the lock.  A task list answer is the worker's whole list or
`PageLimit` members of it.

Marshalling and request construction cannot fail for the values the manager
builds; their `AddTask` branches coincide with `SendRequeue`.

### WorkerSelection

`HealthCheckWorkers` adds a probe per worker; a probe ends in `ProbeAnswered` or
`ProbeFailed` and is written later, in any order, by `MarkWorkerUp` or
`MarkWorkerDown`.  `SelectWorker` is three actions, one per time it takes the
lock.  Failure counts above the limit are one value, since the code only
compares with 5.  `listed`, `passed` and `steady` are history variables for the
properties.

### ManagerLock

The lock only: `pc` says where each goroutine is, `announced` is the writer that
keeps new readers out, as in `sync.RWMutex`.  The `ProcessTasks` goroutine walks
through the critical sections of `SendWork` and `SelectWorker`, including one
nested read lock per worker in `GetHealthyWorkers` and `GetReadyWorkers`.  A
goroutine of `Lister` is in `GetTasksHandler` for a page whose offset is no int:
the slice expression panics between `RLock` and the `RUnlock` that is not
deferred, `net/http` ends the goroutine, and its read lock stays.

### Worker and WorkerReports

One object per id; `taskIds` is the domain of `TaskIds`.  `Docker.Run` is
followed call by call (`RunCreates`, `RunStarts`, `RunFails`, `RunSucceeds`),
all under `mu`.  `runTask` dequeues in one critical section and acts in
another.  A stop request makes the runner enter `stopping`: `Worker.StopTask`
locks a mutex its caller holds, and there is no action that leaves that state.
When there is no Docker client to use (`RunnerHasNoDocker`), or `Docker.Run` panics
and `StartTask` recovers (`RunPanics`), `StartTask` returns no task and no error;
`runTask` then panics on the nil task, gives `mu` back, and the process ends
(`ProcessEnds`).  Between the panic and that end the other goroutines may still take steps.
`StartTaskHandler` enqueues without `mu`: `torn` records that two operations on
the queue overlapped, after which elements may disappear (`QueueLoses`); the
queue library's source is not part of the repository, and lost elements (or a
crash) are what overlapping writes of its links and its length can produce for
the tasks in it.  The Docker daemon and the RestartPolicy it applies are
environment actions.

`WorkerReports` is what the manager may rely on: a task enters the answers
once, Running or Failed, keeps its start time, never runs again once it ended,
and disappears only in a restart.

### Minkube and Delivery

All uuids are numbered in the order they are made; `MaxIds`, one per request of a
client and one per request to a worker, is enough for them, which `TypeCorrect`
proves.  A worker does not keep the id
it is sent: `Take` makes a new one, and `origin` (history) remembers which request it
was made for; `Copies(id)` are the containers a client's request ended up as.
`record`, `pending` and `assigned` are `TaskDb`, `PendingTasks` and `TaskWorkerMap`;
`sendAt` follows `SendWork` through its POST, and `late` holds requests whose sender
gave up (after 25 s, or in a crash) and which a worker may still take.  `asks` and
`repeats` (history) list the tasks clients asked for and those `SendWork` gave up on;
`Count` counts a task in them.  `answer` is
what a worker said to `GET /tasks` and the poll has not applied yet.  `blocked` are
the workers whose runner waits for the mutex it holds; they still take requests,
since `AddTask` takes no lock.  A new task whose `Enqueue` overlaps another
operation may be lost (`phase` "gone").

Left out, because the two detailed modules have them: the order of the list,
`WorkersTaskMap` and `EventDb`, the hourly cleanup, the calls to Docker, the halves
of an operation between two locks, what else a torn queue loses, and lists of more
than one page.  `SelectWorker` may return any worker or none.

`Delivery` counts, for each task a client asked for, how often it was *given* to the
workers, how many of these are still *open* and how many were *taken*: each time it is
given it is taken at most once, or lost.  In `Minkube` a task is given once per
request of a client and once more each time `SendWork` gives up on an answer; what is
open is in the queue, in `SendWork`'s hands before the worker has it, or late.

### Paging and ManagerApi

`Paging` has the expressions of both handlers in an int of a few bits (`Wrap`), so
that `(page - 1) * limit` and `start + limit` overflow as they do in 64 bits, and next
to them what a page is: the entries whose number divided by the limit is the
page's.  `ManagerApi` is one client request at a time: `Auth`, `Rate`, `Correlate`, a
handler, and `RateReturned`, which is the part of the rate middleware after its first
`next.ServeHTTP`.  The keys, permissions and limits are those of `loadAPIKeys` and of
the two endpoint maps; `MethodPath` is what the code looks up there, so `DELETE` has no
entry.  A page or limit that is no positive int is 0, and is answered by 400
(`ParamsAreValid`).  `CurrentRate` is never changed by the program.  `ListGrows` inserts tasks
anywhere in the list between two steps.  After a panic (`leaked`) whoever needs `mu`
hangs until its connection times out.  `ApiAssumption` says that the list, with a
page to spare, can be counted by an int: it is in memory, and an int has 64 bits.

### LogStream

A byte is known by its frame and its place in it, so "the header of frame 2" and
"four bytes in the middle of a payload" are different things without any bytes
being spelled out; misaligned reads would take an arbitrary size from what they
believe to be a header.  Where the stream stops, whether it stops in order, and what the
handler's checks find (`Lookup`: the id, the task, its container, Docker's answer, a
writer that can flush) is chosen at the start.  `Upto` is the stream up to the end of a frame; it is a
recursive function, so that it can be proved about.  `strings.ToValidUTF8` takes both halves of a character
that two frames share out of the entries (`cut`).

## 3. Runs

Passing runs.  Symmetry is used only where no liveness property is checked.

| run | question | instance |
|---|---|---|
| `manager_tables` | `TypeOK`, `SortedByStart`, `EveryTaskListed`, `StartTimesAgree`, `IndexesAgree` | 1 worker, 2 ids, 2 times, 1 handler, stop requests and cleanup while the queue and list are short |
| `manager_lives` | `ListIsTaskDb` before any cleanup, `ReportedIsAdopted`, `QueuedIsServed` (fair) | 1 worker that may refuse for ever, 2 ids, a crash |
| `selection_tables` | `TypeOK`, `HealthTablesAgree`, `SteadyIsCandidate`, `RoundRobin`, `GoneIsExcluded` (fair) | 2 workers, 2 overlapping probes each |
| `lock_waits` | `TypeOK`, `Exclusive`, `StuckForGood`, `GrantedUnlessStuck` (fair) | 3 writers, 1 reader that may panic, the sender, 2 workers |
| `worker_tasks` | `TypeOK`, `WaitsOnce`, `RunningWasStarted`, `ReportsAreSound` (refinement of `WorkerReports`), `AcceptedIsReported`, `ExitIsNoticed` (fair) | 2 ids, 2 times, racing handlers, a crash |
| `minkube_tasks` | `TypeOK`, `AssignedWasTaken`, `RecordsLag`, `DeliversAsPromised` (refinement of `Delivery`) | 2 workers, 2 requests of clients, 1 answer given up, 1 crash of the manager |
| `minkube_lives` | `RequestsReachWorkers`, `AcceptedIsAdopted` (fair) | 1 worker, 1 request, 1 answer given up, 1 stop at the worker, a crash of each |
| `api_requests` | `TypeOK`, `StatusTellsTruth`, `HandledOnce`, `WalkSeesAll`, `PagesAreRight`, `WorkerPagesAreRight`, no deadlock | ints of 6 bits, limits up to 4, 4 tasks, every route, key, page and limit, invalid ones too |
| `logs_streamed` | `TypeOK`, `EntriesAreFrames`, `EndIsNoticed`, `LogsEnd` (fair) | headers of 2 bytes, up to 3 payloads of 0, 1 or 3 bytes, cut after any byte |

Why these bounds.  The list and queue properties relate at most two entries or
two accounts of one id, so two ids with two start times give every order and
every overlap.  `IndexesAgree` relates one id to the lists of all workers; the run
has one, and the proof covers any number.  One handler goroutine
is enough for the gap in `StopTaskHandler`, because the send loop, the poll loop
and the cleanup are the ones that get into it.  `MaxPending` stops new stop
requests while the queue is long, `MaxListed` stops the cleanup once stale
entries have piled up, `MaxSends` bounds deliveries of one task to one worker,
`MaxRestarts` crashes (a panic of the runner is one), `MaxQueue` stop requests, `MaxProbes` the probes in
flight (the code has at most two of one worker: a round every 3 s, 5 s each).
What two values cannot show is covered by the proofs, which have no such
bounds.

`Minkube`'s hazards need one request that is given up and taken all the same, a
second one (of a client who asks, or stops the task) while it is late, and a worker
other than the one it was sent to first: `MaxAsks` 2, `MaxTimeouts` 1 and 2 workers.
Liveness is checked on one worker with every bound 1, without symmetry, where a
crash of either side can meet each step of the one task.  In `api_requests` the
largest page times the largest limit is almost twice the range of an int, so that
offsets wrap around to negative and to valid ones; 4 entries on pages of 1 to 4
make every shape of a last page.  Three frames make a first, a middle and a last
one, a payload of no bytes and one longer than a header.

Models of the worker, of the lock and of `Minkube` may stop (`CHECK_DEADLOCK FALSE`)
because the programs do (see `worker_stop` and `lock_answers`) and because bounded
requests run out; `LogStream` is one request, which ends.

Fairness.  The loops are `for { ...; time.Sleep }` and run for ever; every HTTP
request has a timeout; a Go mutex is starvation-free, so a step that waits for
`mu`, which others take again and again, is strongly fair; a handler that has
entered finishes; a panic that nobody recovers ends the process (Go's runtime,
`WF(ProcessEnds)` in `Worker`).  That a worker which keeps being asked eventually answers is
an assumption on the network (`SF(PollAnswer)`), and in `Minkube` also that a
request sent again and again arrives (`SF(TakeRequest)`) and that an answer is in
time again and again (`SF(PollApplies)`).  A read of a log stream returns, since
Docker does not follow the log.  Clients, crashes, the
cleanup, containers and worker failures have no fairness.

Runs that find a disagreement between the code and what the repository says:

| run | says | the code |
|---|---|---|
| `worker_stop` | a Completed task in the queue is stopped | `runTask` deadlocks on its own mutex |
| `lock_answers` | the manager polls and applies updates | a nested read lock and a waiting writer block each other for ever |
| `minkube_updates` | workers execute, the manager polls for updates (`.github/copilot-instructions.md:88`) | the worker files the task under a new id, so the manager's record stays Scheduled and the task comes back as another one |

The modules state further sentences of the repository that the code does not
keep, at their ends.  They are documented here and have no run of their own:

| property | says | the code |
|---|---|---|
| `PendingIsHeld` (`Manager`) | a task in the queue is distributed (`.github/copilot-instructions.md:87`) | `SendWork` drops it when no worker is healthy and ready |
| `CompletedIsTerminal` (`Manager`) | Completed is terminal (`.github/copilot-instructions.md:118`) | a stopped task is set to Scheduled and posted again, or overwritten by an older answer |
| `ListedIsKnown` (`Manager`) | completed tasks are removed (`.github/copilot-instructions.md:90`) | `CleanUpTasks` leaves them in the list `GET /tasks` pages over |
| `ConfirmedAfterThree` (`WorkerSelection`) | three failed checks confirm a worker is unreachable (`manager.go:571`) | `MarkWorkerDown` waits for more than five |
| `TurnsAreTaken` (`WorkerSelection`) | round robin (`README.md:16`) | a worker can be chosen twice in a row when the list of candidates changes: three workers, lists {1, 2} and then {2, 3} |
| `ChosenIsUp` (`WorkerSelection`) | schedules to healthy workers (`manager.go:212`) | chooses from lists it read before a worker was marked down |
| `FailedIsNotRunning` (`Worker`) | workers report actual container states (`.github/copilot-instructions.md:104`) | one failed inspection marks a task Failed for good |
| `RunningHasContainerId` (`Worker`) | no container id means not running (`worker/http/handlers.go:90`) | a failed inspection after the start leaves Running without an id |
| `CompletedIsTerminal` (`Worker`) | Completed is terminal (`.github/copilot-instructions.md:118`) | `updateTaskState` writes Failed over it |
| `DeletedEnds` (`Minkube`) | tasks can be deleted (`README.md:10`) | the manager sends a deleted task to a worker once more, as a new one, and its container runs on |
| `OutOfBoundsIsHandled` (`ManagerApi`) | a page out of bounds is handled (`manager/http/handlers.go:161`) | an offset that wraps around to a negative int panics under the read lock |
| `UnlimitedIsServed` (`ManagerApi`) | an endpoint without an entry has no rate limit (`manager/http/api.go:156`) | the request is served, and then an error for a limit of 0 is written after its answer |
| `PayloadIsWaitedFor` (`LogStream`) | a payload that cannot be read is an error (`worker.go:322`) | a stream that ends right after a header ends without one |

Every property of a passing run has a mutant in `PROJECT.json`: a plausible bug
in one definition (defined beside it, marked `Mutant`) with which TLC finds the
property violated.

## 4. Proofs

All for arbitrary constants, from the named assumptions on them only (that
"no worker" is not a worker, that bounds are naturals, that there is a worker).

**ManagerProofs.**  `TypeCorrect`, `StaysSorted`, `StaysListed`,
`IndexesStayConsistent`, `StartTimesStayAgreed`.  The list stays sorted although
`AddTask` replaces entries in place and `updateTasks` rewrites start times in
place, and the reason is not local: two objects of one task have the same start
time, because a worker's answer about an id repeats what is known of it.
`IInv` therefore adds to the types that every account of a task (heap, what
workers hold, answers in flight) has an issued id (`AccountsIssued`) and that
accounts of one id agree on the start (`StartTimesAgree`); with that, a step that
changes objects without changing starts keeps the order (`Keeps`), an insertion
puts the new entry between neighbours that allow it, and the indexes are kept
action by action.

**WorkerSelectionProofs.**  `TypeCorrect`, `TablesAgree`,
`SteadyWorkersAreCandidates`, `CandidatesTakeTurns`.  `RoundRobin` bounds how
often a candidate was passed over; it is not inductive, and is strengthened by
the distance from `lastWorker` to the candidate's position around the list
(`TakesTurns`).

**WorkerProofs.**  `TypeCorrect`, `WaitingIsHeldOnce`, `RunningHasContainer`,
`KeepsPromise`.  The invariant adds that ids in any place were issued, that a task
waiting to be started is fresh, how the runner's position relates to the state
and the container of its task, and that the monitor only looks at tasks that
are reported.  `KeepsPromise` proves that every step of `Worker` is a step of
`WorkerReports` or leaves the reports alone.

**ManagerProofs, before the first cleanup.**  `ListStaysTaskDb`: until `CleanUpTasks`
runs for the first time (`SpecBeforeCleanUp`, the specification without it) the list
has exactly the objects of `TaskDb`, once each.  Afterwards this is not so:
the cleanup leaves entries behind, and what it removed can be adopted once more.  The
invariant (`BInv`) adds that a task is one object (`OneObject`), and that an object
which `TaskDb` does not have is one a handler still holds, of which no worker has
reported (`ObjectsAreTasks`): so an adoption never makes a second object of a task.

**EnvironmentIsWorkerReports** closes the gap between the manager and `WorkerProofs`: the
manager's environment lets a worker take exactly the steps of `WorkerReports`, which
`KeepsPromise` proves of `Worker`, with the uuids of all processes told apart.

**ManagerLockProofs.**  `TypeCorrect`, `WritersAreAlone`, `NoWayOut`.  `Exclusive` needs that
the announced writer is the only one past `Announce` (`OneAnnounced`); that
`nested` does not run below 0, that `SendWork` reads in the critical sections in which
it looks up workers only (`StageFits`).  `NoWayOut` is the action property
`StuckForGood`: a read lock held by a goroutine that waits, or that has ended, keeps
every writer from `Acquire`, and only a writer's `Release` could wake the one that waits.

**MinkubeProofs.**  `TypeCorrect`, `AssignmentsWereTaken`, `RecordsNeverAhead`,
`DeliveryKept`.  `IInv` says what each id is: ids are made for a request of a client
or for one to a worker, and the requests still to come have ids left (`Budget`); an id
not made is nowhere (`Fresh`); what is queued or sent was asked for
(`SentWasAsked`); a request the worker has taken has a copy at that worker
(`TakenIsThere`); an answer does not run ahead of the worker (`AnswersLag`) nor the
manager's record ahead of it (`RecordsFollow`).  `DeliveryKept` proves that each step is
a step of `Delivery` or leaves its counts alone; the counts are those of a task in
a queue and in the histories, and the lemmas `CountAppend` and `CountTail` say how
they change.

**LogStreamProofs.**  `TypeCorrect`, `PayloadsInOrder`, `NilMeansTheEnd`.  The reader has
only a number of bytes and a header in its hands; the invariant (`InStep`) says that it
is at the end of the frame whose payload it gave to `streamLog` last, or right
after the next header, and `EntriesInOrder` that the entries are the payloads
before that.  That reading from there gives a header, whole, and that its size is that of
the payload, rests on `UptoIsPrefix`, `FrameInStream` and `HeadersDiffer`.
`Upto` and the text of a payload are recursive functions: `RecursiveFunction`
proves that a function defined along the numbers exists, by induction over a set
(`SetInduction`, from the well-foundedness of the numbers).

**ManagerApiProofs.**  `ManagerPages` and `WorkerPages` are about the arithmetic alone: for
an int of any width and every page, limit and number of tasks, a page whose end
is an int is the slice it should be, nothing panics, and `HasNext` tells whether there
is more.  `TypeCorrect`, `StatusesTellTruth`, `NothingIsHandledTwice`, `WalksSeeAll`,
`RequestedPagesAreRight` and `RequestedWorkerPagesAreRight` are about requests.
`StatusTellsTruth` needs what holds at each stage (`Stage`); `WalkSeesAll` that every
entry which was listed when the walk began, and is on a page it has passed, has been
seen (`SeenWhatItPassed`): an insertion moves an entry to later pages only, so it never
moves from a page that is to come to one that has passed.  `Walk` bounds the offsets
of a walk, so that they never wrap around.

**Only model-checked.**  The liveness properties, which need fairness and `ENABLED`:
`ReportedIsAdopted`, `QueuedIsServed`, `GoneIsExcluded`, `GrantedUnlessStuck`,
`AcceptedIsReported`, `ExitIsNoticed`, `RequestsReachWorkers`, `AcceptedIsAdopted`,
`LogsEnd`.  Every safety property of the passing runs is also a theorem; `ListIsTaskDb`
is one of the specification without cleanup, which is what the instance of
`manager_lives` comes to (`MaxListed` 0).  The sentences of the last two tables of
section 3 do not hold, and nothing is proved of them.

## 5. Not modelled, and what comes next

The manager and its tables came first, since every other part serves it; then
selection, the worker and its promise, the mutex; then the composition over the
network, the API with its pages, and the logs; then their proofs.  Left are:

1. the safety half of what the liveness properties rest on: for example that a queued
   task only ever moves forward in `PendingTasks`, and that a request in `SendWork`'s hands
   always has a step to take;
2. that `Minkube`'s worker and manager steps are those of `Worker` and `Manager` with
   the detail left out, as far as that can be stated with a refinement mapping.

Not planned: `stats.go` (reads `/proc`), `scheduler/`, `node/` and `minkube.go` (no
code that runs), the environment variables, signals and profiling of the two
`main`s, the web UI, logging, JSON encoding, Docker's images and ports.
`Worker.GetTasks` (which unlocks a read lock with `Unlock`) and
`Worker.IsTaskRunning` have no caller.  Docker's stop and remove calls in
`Worker.StopTask` are never reached.
