------------------------------- MODULE Manager -------------------------------
(***************************************************************************)
(* The manager process of minkube (src/internal/manager/manager.go and the *)
(* task handlers of src/internal/manager/http/handlers.go): its task       *)
(* tables, the send loop (ProcessTasks), the poll loop (UpdateTasks), the  *)
(* hourly cleanup and the HTTP handler goroutines, all sharing one mutex.  *)
(*                                                                         *)
(* Go keeps *task.Task pointers in the queue, in TaskDb and in             *)
(* SortedTasks, and a write through one is seen through the others.  The   *)
(* model keeps that: heap holds the task objects allocated so far and a    *)
(* pointer is an index into it (Nil is 0).                                 *)
(*                                                                         *)
(* Each critical section under Manager.mu is one step, except the loop     *)
(* that applies a worker's answer: it is one step per reported task with   *)
(* mu held in between, because SendWork writes t.State without the lock.   *)
(*                                                                         *)
(* The workers are the environment here: remote[w] is what worker w would  *)
(* answer to GET /tasks.  A worker invents the ids of its tasks (uuid.New  *)
(* in its StartTaskHandler) and never changes a StartTime it has reported. *)
(***************************************************************************)
EXTENDS Integers, FiniteSets, Sequences, SequencesExt

CONSTANTS
    Worker,       \* the addresses of MINKUBE_WORKERS
    NoWorker,     \* no worker: mu is free, or the task has no assignment
    Id,           \* the uuids that can be issued
    Time,         \* the instants a StartTime can have
    Handler,      \* goroutines serving the manager's HTTP API
    PageLimit,    \* limit=1000 of the manager's GET /tasks to a worker
    MaxPending,   \* bound: no stop request is accepted with a longer queue
    MaxListed,    \* bound: no cleanup runs once the list is this long
    MaxSends,     \* bound: deliveries of one task to one worker
    MaxRestarts   \* bound: crashes of the manager

ASSUME ManagerAssumption ==
    /\ NoWorker \notin Worker
    /\ Time \subseteq Int
    /\ PageLimit \in Nat \ {0}
    /\ MaxPending \in Nat /\ MaxListed \in Nat
    /\ MaxSends \in Nat /\ MaxRestarts \in Nat

State == {"Pending", "Scheduled", "Running", "Completed", "Failed"}
Task == [id : Id, state : State, start : Time]   \* a task.Task, as far as told apart
Nil == 0

VARIABLES
    heap,             \* the task objects; a pointer is an index
    taskDb,           \* TaskDb: id -> pointer
    sortedTasks,      \* SortedTasks: pointers
    pendingTasks,     \* PendingTasks: queue of pointers
    eventDb,          \* ids that have an entry in EventDb
    workersTaskMap,   \* WorkersTaskMap: how often each id is in the worker's list
    taskWorkerMap,    \* TaskWorkerMap: id -> worker
    mu,               \* the worker whose answer is being applied under mu
    sendPc, sendTask, sendTo,   \* SendWork: where it is, its t and its w
    handler,          \* handler goroutine -> the task it is about to AddTask
    pollPc, pollReports,        \* updateTasks: per worker goroutine
    remote,           \* environment: the tasks each worker would report
    used,             \* environment: the uuids issued so far
    restarts          \* crashes so far

tables == <<taskDb, sortedTasks, pendingTasks, eventDb, workersTaskMap, taskWorkerMap>>
sender == <<sendPc, sendTask, sendTo>>
poller == <<pollPc, pollReports>>
env == <<remote, used, restarts>>
vars == <<heap, tables, mu, sender, handler, poller, env>>

TypeOK ==
    /\ heap \in Seq(Task)
    /\ taskDb \in [Id -> 0 .. Len(heap)]
    /\ sortedTasks \in Seq(1 .. Len(heap))
    /\ pendingTasks \in Seq(1 .. Len(heap))
    /\ eventDb \subseteq Id
    /\ workersTaskMap \in [Worker -> [Id -> Nat]]
    /\ taskWorkerMap \in [Id -> Worker \cup {NoWorker}]
    /\ mu \in Worker \cup {NoWorker}
    /\ sendPc \in {"idle", "selecting", "posting"}
    /\ sendTask \in 0 .. Len(heap)
    /\ sendPc # "idle" => sendTask # Nil
    /\ sendTo \in Worker \cup {NoWorker}
    /\ sendPc = "posting" => sendTo # NoWorker
    /\ handler \in [Handler -> 0 .. Len(heap)]
    /\ pollPc \in [Worker -> {"done", "asked", "answered", "applying"}]
    /\ pollReports \in [Worker -> SUBSET Task]
    /\ remote \in [Worker -> SUBSET Task]
    /\ used \subseteq Id
    /\ restarts \in Nat

-----------------------------------------------------------------------------
(* Manager.New: empty tables, idle loops.                                  *)

NoTasks == [id \in Id |-> Nil]
NoAssignments == [id \in Id |-> NoWorker]
NoLists == [w \in Worker |-> [id \in Id |-> 0]]
NoRequests == [h \in Handler |-> Nil]
NoPolls == [w \in Worker |-> "done"]
NoReports == [w \in Worker |-> {}]

Init ==
    /\ heap = <<>>
    /\ taskDb = NoTasks /\ sortedTasks = <<>> /\ pendingTasks = <<>> /\ eventDb = {}
    /\ workersTaskMap = NoLists /\ taskWorkerMap = NoAssignments
    /\ mu = NoWorker
    /\ sendPc = "idle" /\ sendTask = Nil /\ sendTo = NoWorker
    /\ handler = NoRequests
    /\ pollPc = NoPolls /\ pollReports = NoReports
    /\ remote = NoReports
    /\ used = {}
    /\ restarts = 0

-----------------------------------------------------------------------------
(* AddTask and what it is made of.                                         *)

Known(id) == taskDb[id] # Nil
Free == mu = NoWorker

\* Mutant: the comparison of StartTimes the wrong way round.
IsInsertPointNewestFirst(h, i, t) ==
    /\ i > 1 => h[sortedTasks[i - 1]].start >= t.start
    /\ i <= Len(sortedTasks) => h[sortedTasks[i]].start < t.start

(* sort.Search halves an interval whose left neighbour starts no later     *)
(* than the new task and whose right end starts later: what it returns has *)
(* both, whether or not the list is sorted.                                *)
IsInsertPoint(h, i, t) ==
    /\ i > 1 => h[sortedTasks[i - 1]].start <= t.start
    /\ i <= Len(sortedTasks) => h[sortedTasks[i]].start > t.start

InsertSorted(h, p) ==
    \E i \in 1 .. Len(sortedTasks) + 1 :
        /\ IsInsertPoint(h, i, h[p])
        /\ sortedTasks' = InsertAt(sortedTasks, i, p)

\* Mutant: the search stops at the first entry that is not nil.
ListedAtFirst(id, i) == i = 1

\* findTaskInSortedList: the first entry with the id, if there is one.
ListedAt(id, i) ==
    /\ heap[sortedTasks[i]].id = id
    /\ \A j \in 1 .. i - 1 : heap[sortedTasks[j]].id # id

Listed(id) == \E i \in DOMAIN sortedTasks : ListedAt(id, i)

\* Mutant: AddTask does not look for an existing entry.
ListAgain(p) == InsertSorted(heap, p)

List(p) ==
    \/ \E i \in DOMAIN sortedTasks :
        /\ ListedAt(heap[p].id, i)
        /\ sortedTasks' = [sortedTasks EXCEPT ![i] = p]
    \/ /\ ~Listed(heap[p].id)
       /\ InsertSorted(heap, p)

\* Mutants: a nil task is queued; the queue is a stack.
EnqueueNil(p) == pendingTasks' = Append(pendingTasks, Nil)
EnqueueFirst(p) == pendingTasks' = <<p>> \o pendingTasks

Enqueue(p) == pendingTasks' = Append(pendingTasks, p)

AddTask(p) ==
    /\ Free
    /\ Enqueue(p)
    /\ taskDb' = [taskDb EXCEPT ![heap[p].id] = p]
    /\ List(p)
    /\ UNCHANGED <<eventDb, workersTaskMap, taskWorkerMap>>

\* Mutant: the write of a state also stamps the task with the latest time.
SetStateAndStamp(p, s) ==
    heap' = [heap EXCEPT ![p].state = s,
                         ![p].start = CHOOSE t \in Time : \A u \in Time : u <= t]

SetState(p, s) == heap' = [heap EXCEPT ![p].state = s]

-----------------------------------------------------------------------------
(* The HTTP handlers.  The object is built, with its StartTime, before     *)
(* AddTask takes the lock, so requests may be listed out of StartTime      *)
(* order; StopTaskHandler releases the lock between its write and AddTask. *)

StartTask(h) ==
    /\ handler[h] = Nil
    /\ \E id \in Id \ used, s \in Time :
        /\ heap' = Append(heap, [id |-> id, state |-> "Pending", start |-> s])
        /\ used' = used \cup {id}
    /\ handler' = [handler EXCEPT ![h] = Len(heap) + 1]
    /\ UNCHANGED <<tables, mu, sender, poller, remote, restarts>>

StopTask(h) ==
    /\ handler[h] = Nil
    /\ Free
    /\ Len(pendingTasks) < MaxPending
    /\ \E id \in Id :
        /\ Known(id)
        /\ SetState(taskDb[id], "Completed")
        /\ handler' = [handler EXCEPT ![h] = taskDb[id]]
    /\ UNCHANGED <<tables, mu, sender, poller, env>>

HandlerAddTask(h) ==
    /\ handler[h] # Nil
    /\ AddTask(handler[h])
    /\ handler' = [handler EXCEPT ![h] = Nil]
    /\ UNCHANGED <<heap, mu, sender, poller, env>>

-----------------------------------------------------------------------------
(* SendWork, called by the one ProcessTasks goroutine.                     *)

SendIdle == sendPc' = "idle" /\ sendTask' = Nil /\ sendTo' = NoWorker

SendDequeue ==
    /\ sendPc = "idle"
    /\ Free
    /\ pendingTasks # <<>>
    /\ sendPc' = "selecting"
    /\ sendTask' = Head(pendingTasks)
    /\ pendingTasks' = Tail(pendingTasks)
    /\ UNCHANGED <<heap, taskDb, sortedTasks, eventDb, workersTaskMap, taskWorkerMap,
                   mu, sendTo, handler, poller, env>>

\* SelectWorker fails: SendWork returns, and nobody holds the task any more.
SendNoWorker ==
    /\ sendPc = "selecting"
    /\ SendIdle
    /\ UNCHANGED <<heap, tables, mu, handler, poller, env>>

\* SelectWorker chose w (module WorkerSelection); t.State is written without mu.
SendSchedule(w) ==
    /\ sendPc = "selecting"
    /\ SetState(sendTask, "Scheduled")
    /\ sendPc' = "posting"
    /\ sendTo' = w
    /\ UNCHANGED <<tables, mu, sendTask, handler, poller, env>>

\* 201: the assignment is recorded.
SendCreated ==
    LET id == heap[sendTask].id IN
    /\ sendPc = "posting"
    /\ Free
    /\ workersTaskMap[sendTo][id] < MaxSends
    /\ eventDb' = eventDb \cup {id}
    /\ workersTaskMap' = [workersTaskMap EXCEPT ![sendTo][id] = @ + 1]
    /\ taskWorkerMap' = [taskWorkerMap EXCEPT ![id] = sendTo]
    /\ taskDb' = [taskDb EXCEPT ![id] = sendTask]
    /\ SendIdle
    /\ UNCHANGED <<heap, sortedTasks, pendingTasks, mu, handler, poller, env>>

\* The request failed, timed out, or was refused with a readable error body.
SendRequeue ==
    /\ sendPc = "posting"
    /\ AddTask(sendTask)
    /\ SendIdle
    /\ UNCHANGED <<heap, mu, handler, poller, env>>

\* Refused with a body that is not an errResponse: SendWork just returns.
SendUnreadable ==
    /\ sendPc = "posting"
    /\ SendIdle
    /\ UNCHANGED <<heap, tables, mu, handler, poller, env>>

-----------------------------------------------------------------------------
(* updateTasks: one goroutine per worker, joined by wg.Wait before the     *)
(* next round.                                                             *)

PollStart ==
    /\ \A w \in Worker : pollPc[w] = "done"
    /\ pollPc' = [w \in Worker |-> "asked"]
    /\ UNCHANGED <<heap, tables, mu, sender, handler, pollReports, env>>

\* Mutant: the request asks for the second page.
PollAnswerSecondPage(w) ==
    /\ pollPc[w] = "asked"
    /\ \E page \in SUBSET remote[w] :
        /\ Cardinality(page) <= Cardinality(remote[w]) - PageLimit \/ page = {}
        /\ pollReports' = [pollReports EXCEPT ![w] = page]
    /\ pollPc' = [pollPc EXCEPT ![w] = "answered"]
    /\ UNCHANGED <<heap, tables, mu, sender, handler, env>>

\* The worker answers with (a page of) the tasks it has at this moment.
PollAnswer(w) ==
    /\ pollPc[w] = "asked"
    /\ \E page \in SUBSET remote[w] :
        /\ \/ page = remote[w] /\ Cardinality(page) <= PageLimit
           \/ page # remote[w] /\ Cardinality(page) = PageLimit
        /\ pollReports' = [pollReports EXCEPT ![w] = page]
    /\ pollPc' = [pollPc EXCEPT ![w] = "answered"]
    /\ UNCHANGED <<heap, tables, mu, sender, handler, env>>

\* No answer within 25 s, an error status, or an undecodable body.
PollFail(w) ==
    /\ pollPc[w] = "asked"
    /\ pollPc' = [pollPc EXCEPT ![w] = "done"]
    /\ UNCHANGED <<heap, tables, mu, sender, handler, pollReports, env>>

PollLock(w) ==
    /\ pollPc[w] = "answered"
    /\ Free
    /\ mu' = w
    /\ pollPc' = [pollPc EXCEPT ![w] = "applying"]
    /\ UNCHANGED <<heap, tables, sender, handler, pollReports, env>>

Applied(w, r) == pollReports' = [pollReports EXCEPT ![w] = @ \ {r}]

Refreshed(t, r) == [t EXCEPT !.state = r.state, !.start = r.start]

\* The reported task is in TaskDb: copy what changed.
PollUpdate(w) ==
    /\ pollPc[w] = "applying"
    /\ \E r \in pollReports[w] :
        /\ Known(r.id)
        /\ heap' = IF heap[taskDb[r.id]].state # r.state
                   THEN [heap EXCEPT ![taskDb[r.id]] = Refreshed(@, r)]
                   ELSE heap
        /\ Applied(w, r)
    /\ UNCHANGED <<tables, mu, sender, handler, pollPc, env>>

\* The reported task is an orphan: adopt a copy of it.
PollAdopt(w) ==
    /\ pollPc[w] = "applying"
    /\ \E r \in pollReports[w] :
        /\ ~Known(r.id)
        /\ heap' = Append(heap, r)
        /\ taskDb' = [taskDb EXCEPT ![r.id] = Len(heap) + 1]
        /\ taskWorkerMap' = [taskWorkerMap EXCEPT ![r.id] = w]
        /\ InsertSorted(Append(heap, r), Len(heap) + 1)
        /\ workersTaskMap' = IF workersTaskMap[w][r.id] = 0
                             THEN [workersTaskMap EXCEPT ![w][r.id] = 1]
                             ELSE workersTaskMap
        /\ Applied(w, r)
    /\ UNCHANGED <<pendingTasks, eventDb, mu, sender, handler, pollPc, env>>

PollDone(w) ==
    /\ pollPc[w] = "applying"
    /\ pollReports[w] = {}
    /\ mu' = NoWorker
    /\ pollPc' = [pollPc EXCEPT ![w] = "done"]
    /\ UNCHANGED <<heap, tables, sender, handler, pollReports, env>>

-----------------------------------------------------------------------------
(* CleanUpTasks, once an hour, for tasks completed before some cutoff.  It *)
(* does not touch SortedTasks, and it takes one occurrence of the id off   *)
(* the list of the worker TaskWorkerMap names.                             *)

Expired(id, cutoff) ==
    /\ Known(id)
    /\ heap[taskDb[id]].state = "Completed"
    /\ heap[taskDb[id]].start < cutoff

\* Mutant: TaskWorkerMap keeps the assignment of a removed task.
UnassignLists(gone) ==
    /\ workersTaskMap' = [w \in Worker |-> [id \in Id |->
            IF id \in gone /\ taskWorkerMap[id] = w /\ workersTaskMap[w][id] > 0
            THEN workersTaskMap[w][id] - 1 ELSE workersTaskMap[w][id]]]
    /\ UNCHANGED taskWorkerMap

Unassign(gone) ==
    /\ workersTaskMap' = [w \in Worker |-> [id \in Id |->
            IF id \in gone /\ taskWorkerMap[id] = w /\ workersTaskMap[w][id] > 0
            THEN workersTaskMap[w][id] - 1 ELSE workersTaskMap[w][id]]]
    /\ taskWorkerMap' = [id \in Id |-> IF id \in gone THEN NoWorker ELSE taskWorkerMap[id]]

CleanUpTasks ==
    /\ Free
    /\ Len(sortedTasks) < MaxListed
    /\ \E cutoff \in Time :
        LET gone == {id \in Id : Expired(id, cutoff)} IN
        /\ gone # {}
        /\ Unassign(gone)
        /\ eventDb' = eventDb \ gone
        /\ taskDb' = [id \in Id |-> IF id \in gone THEN Nil ELSE taskDb[id]]
    /\ UNCHANGED <<heap, sortedTasks, pendingTasks, mu, sender, handler, poller, env>>

-----------------------------------------------------------------------------
(* The environment.  Everything the manager knows is in memory.            *)

ManagerRestart ==
    /\ restarts < MaxRestarts
    /\ restarts' = restarts + 1
    /\ heap' = <<>>
    /\ taskDb' = NoTasks /\ sortedTasks' = <<>> /\ pendingTasks' = <<>> /\ eventDb' = {}
    /\ workersTaskMap' = NoLists /\ taskWorkerMap' = NoAssignments
    /\ mu' = NoWorker
    /\ SendIdle
    /\ handler' = NoRequests
    /\ pollPc' = NoPolls /\ pollReports' = NoReports
    /\ UNCHANGED <<remote, used>>

\* A worker ran a task it was given, by this manager or by anybody else.
WorkerStarts(w) ==
    \E id \in Id \ used, s \in Time, st \in {"Running", "Failed"} :
        /\ remote' = [remote EXCEPT ![w] = @ \cup {[id |-> id, state |-> st, start |-> s]}]
        /\ used' = used \cup {id}
        /\ UNCHANGED <<heap, tables, mu, sender, handler, poller, restarts>>

\* Its container ended, or a client of the worker's own API stopped the task.
WorkerEnds(w) ==
    \E r \in remote[w], st \in {"Completed", "Failed"} :
        /\ remote' = [remote EXCEPT ![w] = (@ \ {r}) \cup {[r EXCEPT !.state = st]}]
        /\ UNCHANGED <<heap, tables, mu, sender, handler, poller, used, restarts>>

\* A restarted worker has an empty TaskIds.
WorkerRestarts(w) ==
    /\ remote[w] # {}
    /\ remote' = [remote EXCEPT ![w] = {}]
    /\ UNCHANGED <<heap, tables, mu, sender, handler, poller, used, restarts>>

-----------------------------------------------------------------------------

HandlerStep == \E h \in Handler : StartTask(h) \/ StopTask(h) \/ HandlerAddTask(h)

SendStep ==
    \/ SendDequeue
    \/ SendNoWorker
    \/ \E w \in Worker : SendSchedule(w)
    \/ SendCreated
    \/ SendRequeue
    \/ SendUnreadable

PollStep ==
    \/ PollStart
    \/ \E w \in Worker :
        \/ PollAnswer(w) \/ PollFail(w) \/ PollLock(w)
        \/ PollUpdate(w) \/ PollAdopt(w) \/ PollDone(w)

EnvStep ==
    \/ ManagerRestart
    \/ \E w \in Worker : WorkerStarts(w) \/ WorkerEnds(w) \/ WorkerRestarts(w)

Next == HandlerStep \/ SendStep \/ PollStep \/ CleanUpTasks \/ EnvStep

(* The loops run for ever and sync.RWMutex admits every waiter eventually, *)
(* so a step that waits for mu is strongly fair.  A request ends in an     *)
(* answer or at its timeout; that a worker which keeps being asked         *)
(* eventually answers is an assumption on the network.  Clients, cleanup   *)
(* and crashes have no fairness.                                           *)
Fairness ==
    /\ SF_vars(SendDequeue)
    /\ WF_vars(SendNoWorker \/ \E w \in Worker : SendSchedule(w))
    /\ SF_vars(SendCreated \/ SendRequeue \/ SendUnreadable)
    /\ \A h \in Handler : SF_vars(HandlerAddTask(h))
    /\ WF_vars(PollStart)
    /\ \A w \in Worker :
        /\ WF_vars(PollAnswer(w) \/ PollFail(w))
        /\ SF_vars(PollAnswer(w))
        /\ SF_vars(PollLock(w))
        /\ WF_vars(PollUpdate(w) \/ PollAdopt(w) \/ PollDone(w))

Spec == Init /\ [][Next]_vars
FairSpec == Spec /\ Fairness
-----------------------------------------------------------------------------
(* Safety.                                                                 *)

\* SortedTasks stays in StartTime order (what InsertSorted's binary search
\* relies on), although updateTasks rewrites StartTime in place and AddTask
\* replaces entries in place.
SortedByStart ==
    \A i, j \in DOMAIN sortedTasks :
        i < j => heap[sortedTasks[i]].start <= heap[sortedTasks[j]].start

\* GET /tasks pages over SortedTasks only, so every task in TaskDb must have
\* an entry there, however it came in and whatever was replaced since.
EveryTaskListed ==
    \A id \in Id : Known(id) => \E i \in DOMAIN sortedTasks : heap[sortedTasks[i]].id = id

\* The four indexes agree: TaskDb files a task under its own id, an assigned
\* task is in TaskDb and on the list of the worker it is assigned to, and an
\* event is kept only for an assigned task.  CleanUpTasks, a second delivery
\* to another worker and an adoption all change several of them.
IndexesAgree ==
    \A id \in Id :
        /\ Known(id) => heap[taskDb[id]].id = id
        /\ taskWorkerMap[id] # NoWorker =>
              Known(id) /\ workersTaskMap[taskWorkerMap[id]][id] > 0
        /\ id \in eventDb => taskWorkerMap[id] # NoWorker

\* Two accounts of one id never disagree on its StartTime: the manager's own
\* objects, what workers hold and answers still in flight.
Accounts ==
    {heap[p] : p \in DOMAIN heap}
        \cup UNION {remote[w] \cup pollReports[w] : w \in Worker}

StartTimesAgree == \A a, b \in Accounts : a.id = b.id => a.start = b.start

\* Until the first cleanup the list is exactly TaskDb: each entry is the
\* object TaskDb has, and no task is listed twice.
ListIsTaskDb ==
    /\ \A i \in DOMAIN sortedTasks :
          taskDb[heap[sortedTasks[i]].id] = sortedTasks[i]
    /\ \A i, j \in DOMAIN sortedTasks : sortedTasks[i] = sortedTasks[j] => i = j

-----------------------------------------------------------------------------
(* Liveness, under FairSpec.                                               *)

Queued(id) == \E i \in DOMAIN pendingTasks : heap[pendingTasks[i]].id = id
Sending(id) == sendTask # Nil /\ heap[sendTask].id = id

\* No queued task is passed over for ever, although refused tasks re-enter
\* the queue and a restart of the manager empties it.
QueuedIsServed == \A id \in Id : Queued(id) ~> (Sending(id) \/ ~Queued(id))

\* What a worker reports is eventually in TaskDb, also after the manager
\* crashed and lost everything, unless the worker lost it too.
Reported(id) == \E w \in Worker : \E r \in remote[w] : r.id = id
ReportedIsAdopted == \A id \in Id : Reported(id) ~> (Known(id) \/ ~Reported(id))

-----------------------------------------------------------------------------
(* What the repository says and the code does not do.                      *)

\* .github/copilot-instructions.md:87 "Task enters `PendingTasks` queue ->
\* `SendWork()` distributes via round-robin": a task that is still Pending is
\* waiting to be distributed.
PendingIsHeld ==
    \A id \in Id : Known(id) /\ heap[taskDb[id]].state = "Pending" =>
        \/ Queued(id) \/ Sending(id)
        \/ \E h \in Handler : handler[h] # Nil /\ heap[handler[h]].id = id

\* .github/copilot-instructions.md:90 "Background cleanup removes completed
\* tasks after retention period": a removed task is no longer listed.
ListedIsKnown == \A i \in DOMAIN sortedTasks : Known(heap[sortedTasks[i]].id)

\* .github/copilot-instructions.md:118 "Completed: []State{}, // terminal".
CompletedIsTerminal ==
    [][\A p \in DOMAIN heap : heap[p].state = "Completed" /\ restarts' = restarts
            => heap'[p].state = "Completed"]_vars
=============================================================================
