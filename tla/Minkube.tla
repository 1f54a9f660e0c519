------------------------------- MODULE Minkube -------------------------------
(***************************************************************************)
(* The manager, its workers and the HTTP requests between them: how a task *)
(* gets from the manager's queue to a container and how the manager learns *)
(* of it.  Modules Manager and Worker model the two processes in detail;   *)
(* here each critical section, and each pass of a loop between two of its  *)
(* requests, is one step, and the network may lose an answer.              *)
(*                                                                         *)
(* A worker does not keep the id of the task it is sent: StartTaskHandler  *)
(* makes a new one.  All ids are uuids, numbered here in the order they    *)
(* are made.                                                               *)
(***************************************************************************)
EXTENDS Naturals, Sequences, FiniteSets

CONSTANTS
    Worker,       \* the addresses of MINKUBE_WORKERS
    NoWorker,     \* no worker
    MaxAsks,      \* bound: requests of clients to start or stop a task
    MaxTimeouts,  \* bound: requests to a worker whose answer is not awaited
    MaxStops,     \* bound: requests of clients to the workers
    MaxCrashes,   \* bound: crashes of the manager
    MaxRestarts   \* bound: crashes of workers

ASSUME MinkubeAssumption ==
    /\ NoWorker \notin Worker
    /\ MaxAsks \in Nat /\ MaxTimeouts \in Nat /\ MaxStops \in Nat
    /\ MaxCrashes \in Nat /\ MaxRestarts \in Nat

\* Enough ids: one per request of a client, one per request to a worker.
MaxIds == 2 * MaxAsks + MaxTimeouts
Id == 1 .. MaxIds
NoId == 0

Reported == {"Running", "Completed", "Failed"}
State == {"Pending", "Scheduled"} \cup Reported

VARIABLES
    made,       \* how many ids there are
    origin,     \* history: the task a worker's task was made from
    home,       \* the worker that made the id, NoWorker for the manager
    phase,      \* of a worker's task: "queued", its state once in TaskIds, "gone"
    queue,      \* each worker's Queue
    blocked,    \* workers whose runner waits for the mutex it holds
    record,     \* the manager's TaskDb, "none" without an entry
    pending,    \* PendingTasks
    assigned,   \* TaskWorkerMap
    sendId, sendTo, sendAt,   \* SendWork: its task, its worker, its request
    late,       \* requests given up that a worker may still take
    answer,     \* per worker: an answer to GET /tasks that is not applied yet
    asks,       \* history: the tasks clients asked for, one after another
    repeats,    \* history: the tasks whose answer SendWork gave up on
    dropped,    \* history: the tasks SendWork forgot
    stops, crashes, restarts

counts == <<stops, crashes, restarts>>
workers == <<phase, queue, blocked>>
manager == <<record, pending, assigned>>
sender == <<sendId, sendTo, sendAt>>
history == <<asks, repeats, dropped>>
vars == <<made, origin, home, workers, manager, sender, late, answer, history,
          counts>>

\* A request on its way, numbered when it is given up.
Request == [id : Id, to : Worker, no : Nat]

TypeOK ==
    /\ made \in 0 .. MaxIds
    /\ origin \in [Id -> Id \cup {NoId}]
    /\ home \in [Id -> Worker \cup {NoWorker}]
    /\ phase \in [Id -> {"none", "queued", "gone"} \cup Reported]
    /\ queue \in [Worker -> Seq(Id)]
    /\ blocked \subseteq Worker
    /\ record \in [Id -> State \cup {"none"}]
    /\ pending \in Seq(Id)
    /\ assigned \in [Id -> Worker \cup {NoWorker}]
    /\ sendId \in Id \cup {NoId}
    /\ sendTo \in Worker \cup {NoWorker}
    /\ sendAt \in {"idle", "out", "taken"}
    /\ sendAt # "idle" => sendId # NoId /\ sendTo # NoWorker
    /\ late \subseteq Request
    /\ answer \in [Worker -> SUBSET [id : Id, state : Reported]]
    /\ asks \in Seq(Id)
    /\ repeats \in Seq(Id)
    /\ dropped \subseteq Id
    /\ stops \in Nat /\ crashes \in Nat /\ restarts \in Nat

Init ==
    /\ made = 0
    /\ origin = [id \in Id |-> NoId]
    /\ home = [id \in Id |-> NoWorker]
    /\ phase = [id \in Id |-> "none"]
    /\ queue = [w \in Worker |-> <<>>]
    /\ blocked = {}
    /\ record = [id \in Id |-> "none"] /\ pending = <<>>
    /\ assigned = [id \in Id |-> NoWorker]
    /\ sendId = NoId /\ sendTo = NoWorker /\ sendAt = "idle"
    /\ late = {}
    /\ answer = [w \in Worker |-> {}]
    /\ asks = <<>> /\ repeats = <<>> /\ dropped = {}
    /\ stops = 0 /\ crashes = 0 /\ restarts = 0

\* How often a task occurs in a queue or a history.
Count(q, id) == Cardinality({i \in DOMAIN q : q[i] = id})

\* Mutant: a nil task is queued.
EnqueueNil(id) == pending' = Append(pending, NoId)

Enqueue(id) == pending' = Append(pending, id)

-----------------------------------------------------------------------------
(* Clients of the manager.                                                 *)

Ask(id) == Len(asks) < MaxAsks /\ asks' = Append(asks, id)

\* POST /tasks: StartTaskHandler and AddTask.
Submit ==
    LET id == made + 1 IN
    /\ Ask(id)
    /\ made' = id
    /\ record' = [record EXCEPT ![id] = "Pending"]
    /\ Enqueue(id)
    /\ UNCHANGED <<origin, home, workers, assigned, sender, late, answer,
                   repeats, dropped, counts>>

\* DELETE /tasks: StopTaskHandler queues the task, an adopted one too, again.
Stop(id) ==
    /\ record[id] # "none"
    /\ Ask(id)
    /\ record' = [record EXCEPT ![id] = "Completed"]
    /\ Enqueue(id)
    /\ UNCHANGED <<made, origin, home, workers, assigned, sender, late, answer,
                   repeats, dropped, counts>>

-----------------------------------------------------------------------------
(* SendWork.  SelectWorker may choose any worker, or none: its health      *)
(* table may be out of date (module WorkerSelection).                      *)

SendIdle == sendId' = NoId /\ sendTo' = NoWorker /\ sendAt' = "idle"

Send(w) ==
    /\ sendAt = "idle"
    /\ pending # <<>>
    /\ sendId' = Head(pending) /\ sendTo' = w /\ sendAt' = "out"
    /\ pending' = Tail(pending)
    /\ record' = [record EXCEPT ![Head(pending)] = "Scheduled"]
    /\ UNCHANGED <<made, origin, home, workers, assigned, late, answer,
                   history, counts>>

\* No worker is selected: the task is nobody's.
SendNoWorker ==
    /\ sendAt = "idle"
    /\ pending # <<>>
    /\ dropped' = dropped \cup {Head(pending)}
    /\ pending' = Tail(pending)
    /\ UNCHANGED <<made, origin, home, workers, record, assigned, sender,
                   late, answer,
                   asks, repeats, counts>>

\* Mutant: the assignment is recorded whatever the answer.
SendCreatedAnyway ==
    /\ sendAt \in {"out", "taken"}
    /\ assigned' = [assigned EXCEPT ![sendId] = sendTo]
    /\ SendIdle
    /\ UNCHANGED <<made, origin, home, workers, record, pending, late,
                   answer, history, counts>>

\* Mutant: a task that was sent is queued again.
SendCreatedAgain ==
    /\ sendAt = "taken"
    /\ assigned' = [assigned EXCEPT ![sendId] = sendTo]
    /\ Enqueue(sendId)
    /\ SendIdle
    /\ UNCHANGED <<made, origin, home, workers, record, late, answer,
                   history, counts>>

\* 201.
SendCreated ==
    /\ sendAt = "taken"
    /\ assigned' = [assigned EXCEPT ![sendId] = sendTo]
    /\ SendIdle
    /\ UNCHANGED <<made, origin, home, workers, record, pending, late,
                   answer, history, counts>>

\* Mutant: a task that could not be sent is forgotten.
SendFailsForgets ==
    /\ sendAt = "out"
    /\ SendIdle
    /\ UNCHANGED <<made, origin, home, workers, manager, late, answer,
                   history, counts>>

\* The worker cannot be reached, or refuses with a body SendWork can read.
SendFails ==
    /\ sendAt = "out"
    /\ Enqueue(sendId)
    /\ SendIdle
    /\ UNCHANGED <<made, origin, home, workers, record, assigned, late,
                   answer, history, counts>>

\* It refuses with a body SendWork cannot read.
SendUnreadable ==
    /\ sendAt = "out"
    /\ dropped' = dropped \cup {sendId}
    /\ SendIdle
    /\ UNCHANGED <<made, origin, home, workers, manager, late, answer, asks,
                   repeats, counts>>

GiveUp ==
    late' = IF sendAt = "out"
            THEN late \cup {[id |-> sendId, to |-> sendTo, no |-> Len(repeats) + crashes]}
            ELSE late

\* No answer within 25 s, or the connection breaks: what the worker made of
\* the request, or will, is not known.
SendTimesOut ==
    /\ sendAt # "idle"
    /\ Len(repeats) < MaxTimeouts
    /\ repeats' = Append(repeats, sendId)
    /\ GiveUp
    /\ Enqueue(sendId)
    /\ SendIdle
    /\ UNCHANGED <<made, origin, home, workers, record, assigned, answer,
                   asks, dropped, counts>>

-----------------------------------------------------------------------------
(* The worker's POST /tasks: AddTask takes no lock, so a blocked worker    *)
(* answers 201 as well, and a task whose Enqueue overlaps another operation *)
(* on Queue may be lost (what else is lost then: module Worker).           *)

Take(id, w) ==
    LET copy == made + 1 IN
    /\ made' = copy
    /\ origin' = [origin EXCEPT ![copy] = id]
    /\ home' = [home EXCEPT ![copy] = w]
    /\ \/ /\ phase' = [phase EXCEPT ![copy] = "queued"]
          /\ queue' = [queue EXCEPT ![w] = Append(@, copy)]
       \/ /\ phase' = [phase EXCEPT ![copy] = "gone"]
          /\ UNCHANGED queue

TakeRequest(id) ==
    /\ sendAt = "out" /\ sendId = id
    /\ Take(id, sendTo)
    /\ sendAt' = "taken"
    /\ UNCHANGED <<blocked, manager, sendId, sendTo, late, answer, history,
                   counts>>

TakeLate(r) ==
    /\ Take(r.id, r.to)
    /\ late' = late \ {r}
    /\ UNCHANGED <<blocked, manager, sender, answer, history, counts>>

LoseLate(r) ==
    /\ late' = late \ {r}
    /\ UNCHANGED <<made, origin, home, workers, manager, sender, answer,
                   history, counts>>

-----------------------------------------------------------------------------
(* The worker (module Worker): RunTasks, MonitorTasks, its own DELETE.     *)

Served(w) == {id \in Id : home[id] = w /\ phase[id] \in Reported}

\* runTask on a new task: Docker starts it or not.  On one a client stopped
\* it waits for mu for ever; one that has Failed since is refused.
WorkerRuns(w) ==
    LET id == Head(queue[w]) IN
    /\ w \notin blocked
    /\ queue[w] # <<>>
    /\ queue' = [queue EXCEPT ![w] = Tail(@)]
    /\ \/ /\ phase[id] = "queued"
          /\ \E s \in {"Running", "Failed"} : phase' = [phase EXCEPT ![id] = s]
          /\ UNCHANGED blocked
       \/ /\ phase[id] = "Completed"
          /\ blocked' = blocked \cup {w}
          /\ UNCHANGED phase
       \/ /\ phase[id] = "Failed"
          /\ UNCHANGED <<phase, blocked>>
    /\ UNCHANGED <<made, origin, home, manager, sender, late, answer,
                   history, counts>>

\* Mutant: a container that is up makes its task Running, whatever it was.
WorkerMarksRunning(w) ==
    /\ w \notin blocked
    /\ \E id \in Served(w), s \in {"Running", "Failed"} :
        /\ phase[id] # s
        /\ phase' = [phase EXCEPT ![id] = s]
    /\ UNCHANGED <<made, origin, home, queue, blocked, manager, sender, late,
                   answer, history, counts>>

\* The monitor finds the container of a task it saw Running exited, or fails
\* to inspect it; a client may have stopped the task in between.
WorkerMarks(w) ==
    /\ w \notin blocked
    /\ \E id \in Served(w) :
        /\ phase[id] \in {"Running", "Completed"}
        /\ phase' = [phase EXCEPT ![id] = "Failed"]
    /\ UNCHANGED <<made, origin, home, queue, blocked, manager, sender, late,
                   answer, history, counts>>

\* A client of the worker stops a task.
WorkerStops(w) ==
    /\ w \notin blocked
    /\ stops < MaxStops
    /\ stops' = stops + 1
    /\ \E id \in Served(w) :
        /\ phase' = [phase EXCEPT ![id] = "Completed"]
        /\ queue' = [queue EXCEPT ![w] = Append(@, id)]
    /\ UNCHANGED <<made, origin, home, blocked, manager, sender, late,
                   answer, history, crashes, restarts>>

WorkerRestart(w) ==
    /\ restarts < MaxRestarts
    /\ restarts' = restarts + 1
    /\ phase' = [id \in Id |-> IF home[id] = w THEN "gone" ELSE phase[id]]
    /\ queue' = [queue EXCEPT ![w] = <<>>]
    /\ blocked' = blocked \ {w}
    /\ UNCHANGED <<made, origin, home, manager, sender, late, answer,
                   history, stops, crashes>>

-----------------------------------------------------------------------------
(* updateTasks: the goroutine of one worker.  A blocked worker, whose      *)
(* GET /tasks waits for mu, does not answer.                               *)

PollAnswer(w) ==
    /\ answer[w] = {}
    /\ w \notin blocked
    /\ Served(w) # {}
    /\ answer' = [answer EXCEPT ![w] = {[id |-> id, state |-> phase[id]] : id \in Served(w)}]
    /\ UNCHANGED <<made, origin, home, workers, manager, sender, late,
                   history, counts>>

\* The answer is late, or cannot be decoded.
PollFails(w) ==
    /\ answer[w] # {}
    /\ answer' = [answer EXCEPT ![w] = {}]
    /\ UNCHANGED <<made, origin, home, workers, manager, sender, late,
                   history, counts>>

\* What an answer says of a task.
StateIn(reports, id) == (CHOOSE r \in reports : r.id = id).state

\* Mutant: an answer only updates what the manager knows already.
PollUpdates(w) ==
    LET known == {r \in answer[w] : record[r.id] # "none"} IN
    /\ answer[w] # {}
    /\ answer' = [answer EXCEPT ![w] = {}]
    /\ record' = [id \in Id |-> IF \E r \in known : r.id = id
                                THEN StateIn(known, id)
                                ELSE record[id]]
    /\ UNCHANGED <<made, origin, home, workers, pending, assigned, sender,
                   late, history, counts>>

\* Each reported task is updated, or adopted when TaskDb has no entry.
PollApplies(w) ==
    LET reported == {r.id : r \in answer[w]} IN
    /\ answer[w] # {}
    /\ answer' = [answer EXCEPT ![w] = {}]
    /\ record' = [id \in Id |-> IF id \in reported
                                THEN StateIn(answer[w], id)
                                ELSE record[id]]
    /\ assigned' = [id \in Id |-> IF id \in reported /\ record[id] = "none"
                                  THEN w ELSE assigned[id]]
    /\ UNCHANGED <<made, origin, home, workers, pending, sender, late,
                   history, counts>>

\* The tables are lost; a request on its way may still be taken.
ManagerCrash ==
    /\ crashes < MaxCrashes
    /\ crashes' = crashes + 1
    /\ record' = [id \in Id |-> "none"] /\ pending' = <<>>
    /\ assigned' = [id \in Id |-> NoWorker]
    /\ GiveUp
    /\ SendIdle
    /\ answer' = [w \in Worker |-> {}]
    /\ UNCHANGED <<made, origin, home, workers, history, stops, restarts>>

-----------------------------------------------------------------------------

ClientStep == Submit \/ \E id \in Id : Stop(id)

SendStep ==
    \/ SendNoWorker
    \/ \E w \in Worker : Send(w)
    \/ SendCreated \/ SendFails \/ SendUnreadable \/ SendTimesOut

RequestStep ==
    \/ \E id \in Id : TakeRequest(id)
    \/ \E r \in late : TakeLate(r) \/ LoseLate(r)

WorkerStep ==
    \E w \in Worker :
        \/ WorkerRuns(w) \/ WorkerMarks(w) \/ WorkerStops(w) \/ WorkerRestart(w)

PollStep == \E w \in Worker : PollAnswer(w) \/ PollFails(w) \/ PollApplies(w)

Next == ClientStep \/ SendStep \/ RequestStep \/ WorkerStep \/ PollStep \/ ManagerCrash

(* The loops run for ever and every request ends.  That a worker asked     *)
(* again and again answers, and a request sent again and again arrives, is *)
(* an assumption on the network.                                           *)
Fairness ==
    /\ WF_vars(SendStep)
    /\ \A id \in Id : SF_vars(TakeRequest(id))
    /\ \A w \in Worker :
        /\ WF_vars(WorkerRuns(w))
        /\ SF_vars(PollAnswer(w))
        /\ SF_vars(PollApplies(w))

Spec == Init /\ [][Next]_vars
FairSpec == Spec /\ Fairness

-----------------------------------------------------------------------------
(* Safety.                                                                 *)

Copies(id) == {copy \in Id : origin[copy] = id}

\* TaskWorkerMap names a worker that did take the task, or reports it as its
\* own: an answer that is late, or given up, is not taken for another.
AssignedWasTaken ==
    \A id \in Id : assigned[id] # NoWorker =>
        \/ home[id] = assigned[id]
        \/ \E copy \in Copies(id) : home[copy] = assigned[id]

\* What the manager thinks of a worker's task may lag behind the worker but
\* never runs ahead of it, whenever the answers were asked for and applied
\* and whoever crashed: it is not known before the runner has had it, and not
\* known as ended while it runs.  A client that stops it at the manager
\* writes a state the worker never hears of.
RecordsLag ==
    \A id \in Id : Count(asks, id) = 0 /\ record[id] # "none" =>
        /\ home[id] # NoWorker
        /\ phase[id] # "queued"
        /\ phase[id] = "Running" => record[id] = "Running"

\* At least once, and how often more: module Delivery.  Each request SendWork
\* queues again, gives up or sends twice stays accounted for.
Outstanding(id) == IF sendAt = "out" /\ sendId = id THEN 1 ELSE 0
LateFor(id) == Cardinality({r \in late : r.id = id})

Promise == INSTANCE Delivery WITH
    given <- [id \in Id |-> Count(asks, id) + Count(repeats, id)],
    open  <- [id \in Id |-> Count(pending, id) + Outstanding(id) + LateFor(id)],
    taken <- [id \in Id |-> Cardinality(Copies(id))]
DeliversAsPromised == Promise!Spec

-----------------------------------------------------------------------------
(* Liveness, under FairSpec.                                               *)

\* Each request of a client reaches a worker, however often it is refused or
\* times out, unless SendWork forgets the task or the manager crashes.
RequestsReachWorkers ==
    \A id \in Id, n \in 1 .. MaxAsks :
        Count(asks, id) = n ~> (Cardinality(Copies(id)) >= n \/ id \in dropped \/ crashes > 0)

\* The manager learns of each task a worker accepted, whatever became of its
\* answer to POST, and also after the manager crashed, unless the worker
\* lost the task or is blocked.
AcceptedIsAdopted ==
    \A id \in Id : (home[id] # NoWorker) ~>
        (record[id] # "none" \/ phase[id] = "gone" \/ home[id] \in blocked)

-----------------------------------------------------------------------------
(* What the repository says and the code does not do.                      *)

\* .github/copilot-instructions.md:88 "Workers execute -> Manager polls for
\* updates via `updateTasks()`": the record of a task that was taken follows
\* what the worker makes of it.
ScheduledIsUpdated ==
    \A id \in Id : (assigned[id] # NoWorker /\ record[id] = "Scheduled") ~>
        (record[id] # "Scheduled" \/ crashes > 0 \/ blocked # {}
            \/ \E copy \in Copies(id) : phase[copy] = "gone")

\* README.md:10 "delete tasks": a task deleted at the manager does not go on
\* running.
DeletedEnds ==
    \A id \in Id : (record[id] = "Completed") ~>
        (\A copy \in Copies(id) : phase[copy] # "Running")
=============================================================================
