-------------------------------- MODULE Worker --------------------------------
(***************************************************************************)
(* A worker process of minkube (src/internal/worker/service/worker.go, the *)
(* task handlers of src/internal/worker/http/handlers.go, and Docker.Run   *)
(* of src/task/task.go): the RunTasks and MonitorTasks goroutines and the  *)
(* HTTP handlers, which share TaskIds and Queue.                           *)
(*                                                                         *)
(* There is one task object per id: StartTaskHandler allocates it, and the *)
(* queue and TaskIds hold pointers to it.  runTask keeps mu for as long as *)
(* Docker takes to start a container, so its steps are told apart; every   *)
(* other critical section is one step.  StartTaskHandler enqueues without  *)
(* mu: its Enqueue may overlap another Enqueue or a Dequeue.               *)
(***************************************************************************)
EXTENDS Naturals, Sequences, SequencesExt

CONSTANTS
    Id,           \* the uuids that can be issued
    NoId,         \* no task
    Time,         \* the instants a StartTime can have
    MaxQueue,     \* bound: no stop request is accepted with a longer queue
    MaxRestarts   \* bound: crashes of the worker

ASSUME WorkerAssumption ==
    /\ NoId \notin Id
    /\ Time \subseteq Nat \ {0}    \* 0 is the zero time.Time
    /\ MaxQueue \in Nat /\ MaxRestarts \in Nat

State == {"Pending", "Scheduled", "Running", "Completed", "Failed"}

VARIABLES
    issued,      \* the ids StartTaskHandler has made
    state,       \* Task.State of the object with that id
    start,       \* Task.StartTime, 0 for the zero time.Time
    hasCid,      \* the tasks whose ContainerID is not empty
    taskIds,     \* TaskIds: what GET /tasks reports
    queue,       \* Queue
    posting,     \* StartTaskHandlers inside their unlocked Queue.Enqueue
    torn,        \* two operations on Queue have overlapped
    runPc,       \* RunTasks: where it is
    runTask,     \* RunTasks: the task it dequeued
    toInspect,   \* MonitorTasks: rest of its snapshot
    inspected,   \* MonitorTasks: the task it is at
    verdict,     \* MonitorTasks: what InspectTask said of it
    container,   \* Docker: the container made for each task
    reported,    \* history: the ids that have been in TaskIds
    restarts     \* crashes so far

object == <<state, start, hasCid>>
adding == <<issued, posting>>
runner == <<runPc, runTask>>
monitor == <<toInspect, inspected, verdict>>
vars == <<object, taskIds, queue, torn, adding, runner, monitor,
          container, reported, restarts>>

TypeOK ==
    /\ issued \subseteq Id
    /\ state \in [Id -> State]
    /\ start \in [Id -> Time \cup {0}]
    /\ hasCid \subseteq Id
    /\ taskIds \subseteq Id
    /\ queue \in Seq(Id)
    /\ posting \subseteq Id
    /\ torn \in BOOLEAN
    /\ runPc \in {"idle", "dequeuing", "dequeued", "pulling", "starting",
                  "inspecting", "failing", "stopping", "panicking"}
    /\ runTask \in Id \cup {NoId}
    /\ runPc \notin {"idle", "dequeuing"} => runTask # NoId
    /\ toInspect \subseteq Id
    /\ inspected \in Id \cup {NoId}
    /\ verdict \in {"none", "up", "exited", "lost"}
    /\ verdict # "none" => inspected # NoId
    /\ container \in [Id -> {"none", "created", "running", "exited"}]
    /\ reported \subseteq Id
    /\ restarts \in Nat

Init ==
    /\ issued = {}
    /\ state = [id \in Id |-> "Pending"]
    /\ start = [id \in Id |-> 0]
    /\ hasCid = {}
    /\ taskIds = {} /\ queue = <<>> /\ posting = {} /\ torn = FALSE
    /\ runPc = "idle" /\ runTask = NoId
    /\ toInspect = {} /\ inspected = NoId /\ verdict = "none"
    /\ container = [id \in Id |-> "none"]
    /\ reported = {}
    /\ restarts = 0

\* mu is held across steps by runTask only: while it dequeues, while Docker
\* starts a container, and for ever once StopTask locks it a second time; a
\* panic of runTask unlocks it.
Free == runPc \in {"idle", "dequeued", "failing", "panicking"}

SetState(id, s) == state' = [state EXCEPT ![id] = s]

-----------------------------------------------------------------------------
(* The HTTP handlers.                                                      *)

\* StartTaskHandler makes the task and enters AddTask, which takes no lock.
StartTask ==
    \E id \in Id \ issued, s \in Time :
        /\ issued' = issued \cup {id}
        /\ SetState(id, "Pending")
        /\ start' = [start EXCEPT ![id] = s]
        /\ posting' = posting \cup {id}
        /\ torn' = (torn \/ posting # {} \/ runPc = "dequeuing")
        /\ UNCHANGED <<hasCid, taskIds, queue, runner, monitor, container, reported, restarts>>

AddTask(id) ==
    /\ id \in posting
    /\ posting' = posting \ {id}
    /\ queue' = Append(queue, id)
    /\ UNCHANGED <<object, issued, taskIds, torn, runner, monitor, container, reported, restarts>>

\* Operations that overlapped leave the list and its length at odds: whatever
\* it holds, the element just added included, may be gone, now or later.  (The
\* panic that may follow ends the process: WorkerRestart.)
QueueLoses ==
    /\ torn
    /\ \E i \in DOMAIN queue : queue' = RemoveAt(queue, i)
    /\ UNCHANGED <<object, adding, taskIds, torn, runner, monitor, container, reported, restarts>>

\* Mutant: the stopped task goes back through the states of a new one.
StopTaskAgain(id) ==
    /\ Free
    /\ id \in taskIds
    /\ Len(queue) < MaxQueue
    /\ SetState(id, "Scheduled")
    /\ queue' = Append(queue, id)
    /\ torn' = (torn \/ posting # {})
    /\ UNCHANGED <<start, hasCid, taskIds, adding, runner, monitor, container, reported, restarts>>

\* StopTaskHandler writes the state and enqueues under mu.
StopTask(id) ==
    /\ Free
    /\ id \in taskIds
    /\ Len(queue) < MaxQueue
    /\ SetState(id, "Completed")
    /\ queue' = Append(queue, id)
    /\ torn' = (torn \/ posting # {})
    /\ UNCHANGED <<start, hasCid, taskIds, adding, runner, monitor, container, reported, restarts>>

-----------------------------------------------------------------------------
(* RunTasks and runTask.                                                   *)

RunnerLocks ==
    /\ runPc = "idle"
    /\ queue # <<>>
    /\ runPc' = "dequeuing"
    /\ torn' = (torn \/ posting # {})
    /\ UNCHANGED <<object, adding, taskIds, queue, runTask, monitor, container, reported, restarts>>

\* Mutant: the task stays at the front of the queue.
RunnerPeeks ==
    /\ runPc = "dequeuing"
    /\ queue # <<>>
    /\ runTask' = Head(queue)
    /\ runPc' = "dequeued"
    /\ UNCHANGED <<object, adding, taskIds, queue, torn, monitor, container, reported, restarts>>

RunnerDequeues ==
    /\ runPc = "dequeuing"
    /\ queue # <<>>
    /\ runTask' = Head(queue)
    /\ queue' = Tail(queue)
    /\ runPc' = "dequeued"
    /\ UNCHANGED <<object, adding, taskIds, torn, monitor, container, reported, restarts>>

\* Mutant: the length is not looked at again under mu.
RunnerTakesNone ==
    /\ runPc = "dequeuing"
    /\ queue = <<>>
    /\ runTask' = NoId
    /\ runPc' = "dequeued"
    /\ UNCHANGED <<object, adding, taskIds, queue, torn, monitor, container, reported, restarts>>

\* RunTasks read the length without mu.
RunnerFindsNone ==
    /\ runPc = "dequeuing"
    /\ queue = <<>>
    /\ runPc' = "idle"
    /\ UNCHANGED <<object, adding, taskIds, queue, torn, runTask, monitor, container, reported, restarts>>

\* Pending or Scheduled: runTask calls StartTask, which calls Docker.Run.
RunnerStarts ==
    /\ runPc = "dequeued"
    /\ state[runTask] \in {"Pending", "Scheduled"}
    /\ SetState(runTask, "Scheduled")
    /\ \E s \in Time : start' = [start EXCEPT ![runTask] = s]
    /\ runPc' = "pulling"
    /\ UNCHANGED <<hasCid, taskIds, queue, torn, adding, runTask, monitor, container, reported, restarts>>

Report(id, s) ==
    /\ SetState(id, s)
    /\ taskIds' = taskIds \cup {id}
    /\ reported' = reported \cup {id}

\* NewDocker has no client: StartTask returns no task and no error, and runTask
\* panics when it logs the task.  (A crash, so MaxRestarts bounds it.)
RunnerHasNoDocker ==
    /\ runPc = "dequeued"
    /\ state[runTask] \in {"Pending", "Scheduled"}
    /\ restarts < MaxRestarts
    /\ Report(runTask, "Failed")
    /\ \E s \in Time : start' = [start EXCEPT ![runTask] = s]
    /\ runPc' = "panicking"
    /\ UNCHANGED <<hasCid, queue, torn, adding, runTask, monitor, container, restarts>>

\* Docker.Run panics: StartTask recovers, and returns the same.
RunPanics ==
    /\ runPc \in {"pulling", "starting", "inspecting"}
    /\ restarts < MaxRestarts
    /\ runPc' = "panicking"
    /\ UNCHANGED <<object, adding, taskIds, queue, torn, runTask, monitor, container,
                   reported, restarts>>

\* The image is pulled and the container created.
RunCreates ==
    /\ runPc = "pulling"
    /\ container' = [container EXCEPT ![runTask] = "created"]
    /\ runPc' = "starting"
    /\ UNCHANGED <<object, adding, taskIds, queue, torn, runTask, monitor, reported, restarts>>

RunStarts ==
    /\ runPc = "starting"
    /\ container' = [container EXCEPT ![runTask] = "running"]
    /\ runPc' = "inspecting"
    /\ UNCHANGED <<object, adding, taskIds, queue, torn, runTask, monitor, reported, restarts>>

\* Mutant: a task that could not be started is not entered in TaskIds.
RunFailsSilently ==
    /\ runPc \in {"pulling", "starting"}
    /\ SetState(runTask, "Failed")
    /\ runPc' = "failing"
    /\ UNCHANGED <<start, hasCid, taskIds, reported, queue, torn, adding, runTask, monitor, container, restarts>>

\* Mutant: the error of ContainerStart is not looked at.
RunFailsUnseen ==
    /\ runPc \in {"pulling", "starting"}
    /\ Report(runTask, IF runPc = "starting" THEN "Running" ELSE "Failed")
    /\ runPc' = IF runPc = "starting" THEN "idle" ELSE "failing"
    /\ UNCHANGED <<start, hasCid, queue, torn, adding, runTask, monitor, container, restarts>>

\* Docker refuses to pull, create or start; a created container stays.
RunFails ==
    /\ runPc \in {"pulling", "starting"}
    /\ Report(runTask, "Failed")
    /\ runPc' = "failing"
    /\ UNCHANGED <<start, hasCid, queue, torn, adding, runTask, monitor, container, restarts>>

\* Run answers with the id of the container, or, when it cannot inspect it,
\* with the nil error of the call before and no id.
RunSucceeds ==
    /\ runPc = "inspecting"
    /\ Report(runTask, "Running")
    /\ hasCid' \in {hasCid, hasCid \cup {runTask}}
    /\ runPc' = "idle"
    /\ UNCHANGED <<start, queue, torn, adding, runTask, monitor, container, restarts>>

\* Completed: Worker.StopTask locks mu, which runTask already holds.
RunnerStops ==
    /\ runPc = "dequeued"
    /\ state[runTask] = "Completed"
    /\ runPc' = "stopping"
    /\ UNCHANGED <<object, adding, taskIds, queue, torn, runTask, monitor, container, reported, restarts>>

\* Running or Failed: an error.
RunnerRefuses ==
    /\ runPc = "dequeued"
    /\ state[runTask] \in {"Running", "Failed"}
    /\ runPc' = "failing"
    /\ UNCHANGED <<object, adding, taskIds, queue, torn, runTask, monitor, container, reported, restarts>>

\* RunTasks marks the task after runTask returned an error and released mu.
RunnerFails ==
    /\ runPc = "failing"
    /\ state' = IF runTask \in taskIds THEN [state EXCEPT ![runTask] = "Failed"] ELSE state
    /\ runPc' = "idle"
    /\ UNCHANGED <<start, hasCid, taskIds, queue, torn, adding, runTask, monitor, container, reported, restarts>>

-----------------------------------------------------------------------------
(* MonitorTasks.                                                           *)

MonitorSnapshot ==
    /\ verdict = "none" /\ toInspect = {}
    /\ Free
    /\ toInspect' = {id \in taskIds : state[id] = "Running"}
    /\ UNCHANGED <<object, adding, taskIds, queue, torn, runner, inspected, verdict,
                   container, reported, restarts>>

\* InspectTask, without mu; it fails without a container id, and may fail with.
MonitorInspect(id) ==
    /\ verdict = "none"
    /\ id \in toInspect
    /\ toInspect' = toInspect \ {id}
    /\ inspected' = id
    /\ \/ verdict' = "lost"
       \/ id \in hasCid /\ verdict' = IF container[id] = "exited" THEN "exited" ELSE "up"
    /\ UNCHANGED <<object, adding, taskIds, queue, torn, runner, container, reported, restarts>>

\* Mutant: only a failed inspection marks the task.
MonitorMarksLost ==
    /\ verdict \in {"exited", "lost"}
    /\ Free
    /\ state' = IF verdict = "lost" THEN [state EXCEPT ![inspected] = "Failed"] ELSE state
    /\ verdict' = IF verdict = "lost" THEN "none" ELSE "up"
    /\ UNCHANGED <<start, hasCid, taskIds, queue, torn, adding, runner, toInspect, inspected,
                   container, reported, restarts>>

\* updateTaskState, whatever the state has become since the snapshot.
MonitorMarks ==
    /\ verdict \in {"exited", "lost"}
    /\ Free
    /\ SetState(inspected, "Failed")
    /\ verdict' = IF verdict = "lost" THEN "none" ELSE "up"
    /\ UNCHANGED <<start, hasCid, taskIds, queue, torn, adding, runner, toInspect, inspected,
                   container, reported, restarts>>

\* The ports of the container are copied (HostPorts is left out).
MonitorPorts ==
    /\ verdict = "up"
    /\ Free
    /\ verdict' = "none"
    /\ UNCHANGED <<object, adding, taskIds, queue, torn, runner, toInspect, inspected,
                   container, reported, restarts>>

-----------------------------------------------------------------------------
(* The environment: Docker and crashes.  Containers outlive the worker.    *)

ContainerExits(id) ==
    /\ container[id] = "running"
    /\ container' = [container EXCEPT ![id] = "exited"]
    /\ UNCHANGED <<object, adding, taskIds, queue, torn, runner, monitor, reported, restarts>>

\* Docker applies the task's RestartPolicy.
ContainerRestarts(id) ==
    /\ container[id] = "exited"
    /\ container' = [container EXCEPT ![id] = "running"]
    /\ UNCHANGED <<object, adding, taskIds, queue, torn, runner, monitor, reported, restarts>>

WorkerRestart ==
    /\ restarts < MaxRestarts
    /\ restarts' = restarts + 1
    /\ state' = [id \in Id |-> "Pending"]
    /\ start' = [id \in Id |-> 0]
    /\ hasCid' = {}
    /\ taskIds' = {} /\ queue' = <<>> /\ posting' = {} /\ torn' = FALSE
    /\ runPc' = "idle" /\ runTask' = NoId
    /\ toInspect' = {} /\ inspected' = NoId /\ verdict' = "none"
    /\ UNCHANGED <<issued, container, reported>>

\* Nothing recovers runTask's panic.
ProcessEnds == runPc = "panicking" /\ WorkerRestart

-----------------------------------------------------------------------------

HandlerStep == StartTask \/ \E id \in Id : AddTask(id) \/ StopTask(id)

RunnerStep ==
    \/ RunnerLocks \/ RunnerDequeues \/ RunnerFindsNone
    \/ RunnerStarts \/ RunCreates \/ RunStarts \/ RunFails \/ RunSucceeds
    \/ RunnerHasNoDocker \/ RunPanics
    \/ RunnerStops \/ RunnerRefuses \/ RunnerFails

MonitorStep ==
    \/ MonitorSnapshot
    \/ \E id \in Id : MonitorInspect(id)
    \/ MonitorMarks
    \/ MonitorPorts

EnvStep ==
    \/ QueueLoses
    \/ \E id \in Id : ContainerExits(id) \/ ContainerRestarts(id)
    \/ WorkerRestart

Next == HandlerStep \/ RunnerStep \/ MonitorStep \/ EnvStep

(* Docker answers every call, the loops run for ever and a handler that    *)
(* started its Enqueue finishes it; a panic ends the process.  The monitor *)
(* waits for mu, which the runner takes again and again: strong fairness,  *)
(* which sync.RWMutex's starvation mode gives.                             *)
Fairness ==
    /\ \A id \in Id : WF_vars(AddTask(id))
    /\ WF_vars(RunnerStep)
    /\ WF_vars(ProcessEnds)
    /\ SF_vars(MonitorSnapshot)
    /\ WF_vars(\E id \in Id : MonitorInspect(id))
    /\ SF_vars(MonitorMarks)
    /\ SF_vars(MonitorPorts)

Spec == Init /\ [][Next]_vars
FairSpec == Spec /\ Fairness

-----------------------------------------------------------------------------
(* Safety.                                                                 *)

\* A task that has not been started is in one place only: a handler's
\* Enqueue, the queue, or runTask, and it cannot be stopped yet.  That it is
\* not started twice rests on this, with a queue that loses tasks.
Waiting(id) == id \in issued /\ state[id] \in {"Pending", "Scheduled"}
Queued(id) == \E i \in DOMAIN queue : queue[i] = id
AtRunner(id) == runTask = id /\ runPc \notin {"idle", "dequeuing"}

WaitsOnce ==
    \A id \in Id : Waiting(id) =>
        /\ id \notin taskIds
        /\ \A i, j \in DOMAIN queue : queue[i] = id /\ queue[j] = id => i = j
        /\ id \in posting => ~Queued(id)
        /\ AtRunner(id) => id \notin posting /\ ~Queued(id)

\* A task is reported as Running only once its container was started: the
\* errors of Docker on the way lead to Failed.
RunningWasStarted ==
    \A id \in taskIds : state[id] = "Running" => container[id] \in {"running", "exited"}

\* What the manager relies on: module WorkerReports.
Reports == {[id |-> id, state |-> state[id], start |-> start[id]] : id \in taskIds}
Promise == INSTANCE WorkerReports WITH reports <- Reports, used <- reported
ReportsAreSound == Promise!Spec

-----------------------------------------------------------------------------
(* Liveness, under FairSpec.                                               *)

Stuck == runPc = "stopping"
Accepted(id) == id \in posting \/ Queued(id) \/ AtRunner(id)

\* A task the worker answered with 201 is eventually reported, whether Docker
\* runs it or not, unless its object was lost in a crash, a stop request has
\* blocked the runner, or the queue was torn.
Forgotten(id) == start[id] = 0

AcceptedIsReported ==
    \A id \in Id : Accepted(id) ~> (id \in taskIds \/ Forgotten(id) \/ Stuck \/ torn)

\* A container that has exited and is not restarted by Docker does not stay
\* reported as Running, unless a stop request has blocked the worker.
ExitIsNoticed ==
    \A id \in Id :
        (id \in taskIds /\ state[id] = "Running" /\ container[id] = "exited")
            ~> (id \notin taskIds \/ state[id] # "Running" \/ container[id] # "exited" \/ Stuck)

-----------------------------------------------------------------------------
(* What the repository says and the code does not do.                      *)

\* worker.go, runTask: "if the task's state from the queue is completed we
\* want to stop the task".
StopIsCarriedOut ==
    \A id \in Id : (id \in taskIds /\ state[id] = "Completed")
        ~> (id \notin taskIds \/ container[id] # "running")

\* .github/copilot-instructions.md:104 "Workers report actual container states
\* back to manager".
FailedIsNotRunning ==
    \A id \in taskIds : state[id] = "Failed" => container[id] # "running"

\* worker/http/handlers.go: a task without a container id is answered with
\* "task has no container yet (not running)".
RunningHasContainerId == \A id \in taskIds : state[id] = "Running" => id \in hasCid

\* .github/copilot-instructions.md:118 "Completed: []State{}, // terminal".
CompletedIsTerminal ==
    [][\A id \in taskIds : state[id] = "Completed" /\ id \in taskIds'
            => state'[id] = "Completed"]_vars
=============================================================================
