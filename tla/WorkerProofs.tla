----------------------------- MODULE WorkerProofs -----------------------------
(***************************************************************************)
(* Theorems about Worker, for any sets of ids and times and any bounds: its *)
(* type, that a waiting task is held once, that Running means started, and *)
(* that the worker keeps the promise of WorkerReports.                     *)
(***************************************************************************)
EXTENDS Worker, SequenceTheorems, TLAPS

-----------------------------------------------------------------------------
(* Queue operations.                                                       *)

\* Enqueue: the task is last, the others stay where they are.
LEMMA Enqueued ==
    ASSUME NEW S, NEW q \in Seq(S), NEW e \in S
    PROVE  /\ Append(q, e) \in Seq(S)
           /\ DOMAIN Append(q, e) = 1 .. Len(q) + 1
           /\ \A i \in 1 .. Len(q) : Append(q, e)[i] = q[i]
           /\ Append(q, e)[Len(q) + 1] = e
           /\ DOMAIN q = 1 .. Len(q) /\ Len(q) \in Nat
OBVIOUS

\* Dequeue: the front task leaves and the others move up by one.
LEMMA Dequeued ==
    ASSUME NEW S, NEW q \in Seq(S), q # <<>>
    PROVE  /\ Head(q) \in S /\ Head(q) = q[1]
           /\ Tail(q) \in Seq(S)
           /\ DOMAIN q = 1 .. Len(q) /\ Len(q) \in Nat /\ Len(q) >= 1
           /\ DOMAIN Tail(q) = 1 .. Len(q) - 1
           /\ \A i \in 1 .. Len(q) - 1 : Tail(q)[i] = q[i + 1]
OBVIOUS

\* A torn queue loses an element: those behind it move up by one.
LEMMA Removed ==
    ASSUME NEW S, NEW q \in Seq(S), NEW k \in DOMAIN q
    PROVE  /\ RemoveAt(q, k) \in Seq(S)
           /\ DOMAIN q = 1 .. Len(q) /\ Len(q) \in Nat
           /\ DOMAIN RemoveAt(q, k) = 1 .. Len(q) - 1
           /\ \A i \in 1 .. Len(q) - 1 :
                RemoveAt(q, k)[i] = q[IF i < k THEN i ELSE i + 1]
<1>1. DOMAIN q = 1 .. Len(q) /\ Len(q) \in Nat /\ k \in 1 .. Len(q)
  OBVIOUS
<1>2. /\ SubSeq(q, 1, k - 1) \in Seq(S) /\ Len(SubSeq(q, 1, k - 1)) = k - 1
      /\ \A i \in 1 .. k - 1 : SubSeq(q, 1, k - 1)[i] = q[i]
  BY <1>1
<1>3. /\ SubSeq(q, k + 1, Len(q)) \in Seq(S) /\ Len(SubSeq(q, k + 1, Len(q))) = Len(q) - k
      /\ \A i \in 1 .. Len(q) - k : SubSeq(q, k + 1, Len(q))[i] = q[k + i]
  BY <1>1
<1>4. RemoveAt(q, k) = SubSeq(q, 1, k - 1) \o SubSeq(q, k + 1, Len(q))
  BY DEF RemoveAt
<1> DEFINE a == SubSeq(q, 1, k - 1)
           b == SubSeq(q, k + 1, Len(q))
<1>5. /\ a \in Seq(S) /\ b \in Seq(S) /\ Len(a) = k - 1 /\ Len(b) = Len(q) - k
      /\ \A i \in 1 .. k - 1 : a[i] = q[i]
      /\ \A i \in 1 .. Len(q) - k : b[i] = q[k + i]
  BY <1>2, <1>3
<1> HIDE DEF a, b
<1>6. /\ a \o b \in Seq(S) /\ Len(a \o b) = Len(q) - 1
      /\ \A i \in 1 .. Len(q) - 1 : (a \o b)[i] = IF i <= k - 1 THEN a[i] ELSE b[i - (k - 1)]
  <2>1. Len(a) + Len(b) = Len(q) - 1
    BY <1>1, <1>5
  <2>2. /\ a \o b \in Seq(S) /\ Len(a \o b) = Len(a) + Len(b)
        /\ \A i \in 1 .. Len(a) + Len(b) :
              (a \o b)[i] = IF i <= Len(a) THEN a[i] ELSE b[i - Len(a)]
    BY <1>5, ConcatProperties
  <2> QED  BY <1>5, <2>1, <2>2
<1>7. \A i \in 1 .. Len(q) - 1 : (a \o b)[i] = q[IF i < k THEN i ELSE i + 1]
  <2> TAKE i \in 1 .. Len(q) - 1
  <2>1. CASE i < k
    BY <1>1, <1>5, <1>6, <2>1
  <2>2. CASE i >= k
    <3>1. i - (k - 1) \in 1 .. Len(q) - k /\ k + (i - (k - 1)) = i + 1
      BY <1>1, <2>2
    <3>2. (a \o b)[i] = b[i - (k - 1)]
      BY <1>1, <1>6, <2>2
    <3> QED  BY <1>1, <1>5, <2>2, <3>1, <3>2
  <2>3. i < k \/ i >= k
    BY <1>1
  <2> QED  BY <2>1, <2>2, <2>3
<1>8. DOMAIN (a \o b) = 1 .. Len(q) - 1
  BY <1>6
<1> QED  BY <1>1, <1>4, <1>6, <1>7, <1>8 DEF a, b

-----------------------------------------------------------------------------
(* The inductive invariant.                                                *)

\* Ids in use were issued, and what is reported now has been reported.
IdsIssued ==
    /\ posting \subseteq issued
    /\ \A i \in DOMAIN queue : queue[i] \in issued
    /\ \A id \in Id : AtRunner(id) => id \in issued
    /\ taskIds \subseteq reported
    /\ reported \subseteq issued

\* A task that waits has never been reported.
WaitingIsFresh == \A id \in Id : Waiting(id) /\ Accepted(id) => id \notin reported

\* While Docker starts a task it is Scheduled and has a StartTime, and in the
\* end its container.
Docking ==
    /\ runPc \in {"pulling", "starting", "inspecting"} =>
          state[runTask] = "Scheduled" /\ start[runTask] \in Time
    /\ runPc = "inspecting" => container[runTask] \in {"running", "exited"}

\* MonitorTasks only deals with tasks of TaskIds.
Watched ==
    /\ toInspect \subseteq taskIds
    /\ verdict # "none" => inspected \in taskIds

IInv ==
    /\ TypeOK
    /\ IdsIssued
    /\ WaitingIsFresh
    /\ WaitsOnce
    /\ Docking
    /\ Watched
    /\ RunningWasStarted

-----------------------------------------------------------------------------

\* A worker as cmd/worker's main makes it.
LEMMA InvInit == Init => IInv
<1> SUFFICES ASSUME Init PROVE IInv
  OBVIOUS
<1>1. TypeOK
  <2>1. <<>> \in Seq(Id)
    OBVIOUS
  <2>2. queue \in Seq(Id)
    BY <2>1, Zenon DEF Init
  <2> QED  BY <2>2 DEF Init, TypeOK, State
<1>2. IdsIssued /\ WaitingIsFresh /\ WaitsOnce
  BY DEF Init, IdsIssued, WaitingIsFresh, WaitsOnce, Waiting, AtRunner
<1>3. Docking /\ Watched /\ RunningWasStarted
  BY DEF Init, Docking, Watched, RunningWasStarted
<1> QED  BY <1>1, <1>2, <1>3 DEF IInv

\* Each step keeps every variable of its type.
LEMMA TypeNext == TypeOK /\ [Next]_vars => TypeOK'
<1> SUFFICES ASSUME TypeOK, [Next]_vars PROVE TypeOK'
  OBVIOUS
<1> USE DEF TypeOK, object, adding, runner, monitor, SetState, State
<1>1. CASE StartTask
  BY <1>1 DEF StartTask
<1>2. ASSUME NEW id \in Id, AddTask(id) PROVE TypeOK'
  BY <1>2, Enqueued DEF AddTask
<1>3. ASSUME NEW id \in Id, StopTask(id) PROVE TypeOK'
  BY <1>3, Enqueued DEF StopTask
<1>4. CASE QueueLoses
  BY <1>4, Removed DEF QueueLoses
<1>5. CASE RunnerLocks
  BY <1>5 DEF RunnerLocks
<1>6. CASE RunnerDequeues
  BY <1>6, Dequeued, WorkerAssumption DEF RunnerDequeues
<1>7. CASE RunnerFindsNone
  BY <1>7 DEF RunnerFindsNone
<1>8. CASE RunnerStarts
  BY <1>8 DEF RunnerStarts
<1>9. CASE RunCreates \/ RunStarts
  BY <1>9 DEF RunCreates, RunStarts
<1>10. CASE RunFails \/ RunPanics
  BY <1>10 DEF RunFails, RunPanics, Report
<1>11. CASE RunSucceeds
  BY <1>11 DEF RunSucceeds, Report
<1>12. CASE RunnerStops \/ RunnerRefuses
  BY <1>12 DEF RunnerStops, RunnerRefuses
<1>13. CASE RunnerFails
  BY <1>13 DEF RunnerFails
<1>14. CASE MonitorSnapshot
  BY <1>14 DEF MonitorSnapshot
<1>15. ASSUME NEW id \in Id, MonitorInspect(id) PROVE TypeOK'
  BY <1>15, WorkerAssumption DEF MonitorInspect
<1>16. CASE MonitorMarks
  BY <1>16 DEF MonitorMarks
<1>17. CASE MonitorPorts
  BY <1>17 DEF MonitorPorts
<1>18. ASSUME NEW id \in Id, ContainerExits(id) \/ ContainerRestarts(id) PROVE TypeOK'
  BY <1>18 DEF ContainerExits, ContainerRestarts
<1>19. CASE WorkerRestart
  <2>1. <<>> \in Seq(Id)
    OBVIOUS
  <2>2. queue' \in Seq(Id)
    BY <1>19, <2>1, Zenon DEF WorkerRestart
  <2>3. state' \in [Id -> State] /\ start' \in [Id -> Time \cup {0}]
    BY <1>19 DEF WorkerRestart
  <2>4. /\ issued' \subseteq Id /\ hasCid' \subseteq Id /\ taskIds' \subseteq Id
        /\ posting' \subseteq Id /\ toInspect' \subseteq Id /\ reported' \subseteq Id
        /\ container' \in [Id -> {"none", "created", "running", "exited"}]
    BY <1>19 DEF WorkerRestart
  <2>6. torn' \in BOOLEAN
    BY <1>19, Zenon DEF WorkerRestart
  <2>7. restarts' \in Nat
    BY <1>19 DEF WorkerRestart
  <2>5. runPc' = "idle" /\ runTask' = NoId /\ inspected' = NoId /\ verdict' = "none"
    BY <1>19 DEF WorkerRestart
  <2> QED  BY <2>2, <2>3, <2>4, <2>5, <2>6, <2>7
<1>20. CASE UNCHANGED vars
  BY <1>20 DEF vars
<1>21. CASE RunnerHasNoDocker
  BY <1>21 DEF RunnerHasNoDocker, Report
<1> QED
  BY <1>1, <1>2, <1>3, <1>4, <1>5, <1>6, <1>7, <1>8, <1>9, <1>10, <1>11, <1>12, <1>13,
     <1>14, <1>15, <1>16, <1>17, <1>18, <1>19, <1>20, <1>21
     DEF Next, HandlerStep, RunnerStep, MonitorStep, EnvStep

-----------------------------------------------------------------------------
(* Where a waiting task is.                                                *)

Places == IdsIssued /\ WaitingIsFresh /\ WaitsOnce

\* Steps that leave the queue, Enqueue, TaskIds and runTask's task alone, and
\* turn no other task into a waiting one.
LEMMA PlacesStay ==
    ASSUME TypeOK, Places,
           UNCHANGED <<issued, posting, queue, taskIds, reported>>,
           \A id \in Id : Waiting(id)' => Waiting(id),
           \A id \in Id : AtRunner(id)' => AtRunner(id)
    PROVE  Places'
<1> USE DEF Places
<1>1. \A id \in Id : (Queued(id)' <=> Queued(id)) /\ (Accepted(id)' => Accepted(id))
  BY DEF Queued, Accepted
<1>2. IdsIssued'
  BY DEF IdsIssued
<1>3. WaitingIsFresh'
  BY <1>1 DEF WaitingIsFresh
<1>4. WaitsOnce'
  BY <1>1 DEF WaitsOnce
<1> QED  BY <1>2, <1>3, <1>4

\* A new task is nowhere else, since its id was never issued.
LEMMA PlacesStartTask == ASSUME TypeOK, Places, StartTask PROVE Places'
<1> USE DEF Places
<1>1. PICK new \in Id \ issued : /\ issued' = issued \cup {new}
                                 /\ state' = [state EXCEPT ![new] = "Pending"]
                                 /\ posting' = posting \cup {new}
  BY DEF StartTask, SetState
<1>2. UNCHANGED <<queue, taskIds, reported, runPc, runTask>>
  BY DEF StartTask, runner
<1>3. \A id \in Id : (Queued(id)' <=> Queued(id)) /\ (AtRunner(id)' <=> AtRunner(id))
  BY <1>2 DEF Queued, AtRunner
<1>4. ~Queued(new) /\ ~AtRunner(new) /\ new \notin posting /\ new \notin taskIds /\ new \notin reported
  BY DEF IdsIssued, Queued
<1>5. \A id \in Id : id # new => (Waiting(id)' <=> Waiting(id)) /\ (Accepted(id)' <=> Accepted(id))
  BY <1>1, <1>2, <1>3 DEF Waiting, Accepted, TypeOK
<1>6. IdsIssued'
  BY <1>1, <1>2, <1>3 DEF IdsIssued
<1>7. WaitingIsFresh'
  BY <1>1, <1>2, <1>4, <1>5 DEF WaitingIsFresh
<1>8. WaitsOnce'
  <2> SUFFICES ASSUME NEW id \in Id, Waiting(id)'
               PROVE  /\ id \notin taskIds'
                      /\ \A i, j \in DOMAIN queue : queue[i] = id /\ queue[j] = id => i = j
                      /\ id \in posting' => ~Queued(id)
                      /\ AtRunner(id) => id \notin posting' /\ ~Queued(id)
    BY <1>2, <1>3 DEF WaitsOnce
  <2>1. CASE id = new
    BY <1>2, <1>4, <2>1 DEF Queued
  <2>2. CASE id # new
    BY <1>1, <1>2, <1>5, <2>2 DEF WaitsOnce
  <2> QED  BY <2>1, <2>2
<1> QED  BY <1>6, <1>7, <1>8

\* Enqueue moves a task from its handler to the queue.
LEMMA PlacesAddTask == ASSUME TypeOK, Places, NEW new \in Id, AddTask(new) PROVE Places'
<1> USE DEF Places
<1>1. new \in posting /\ posting' = posting \ {new} /\ queue' = Append(queue, new)
  BY DEF AddTask
<1>2. UNCHANGED <<issued, state, taskIds, reported, runPc, runTask>>
  BY DEF AddTask, object, runner
<1>3. /\ DOMAIN queue' = 1 .. Len(queue) + 1 /\ DOMAIN queue = 1 .. Len(queue) /\ Len(queue) \in Nat
      /\ \A i \in 1 .. Len(queue) : queue'[i] = queue[i]
      /\ queue'[Len(queue) + 1] = new
  BY <1>1, Enqueued DEF TypeOK
<1>4. \A id \in Id : (Queued(id)' <=> Queued(id) \/ id = new)
  BY <1>3 DEF Queued
<1>5. \A id \in Id : (Waiting(id)' <=> Waiting(id)) /\ (AtRunner(id)' <=> AtRunner(id))
  BY <1>2 DEF Waiting, AtRunner
<1>6. \A id \in Id : Accepted(id)' => Accepted(id)
  BY <1>1, <1>4, <1>5 DEF Accepted
<1>7. IdsIssued'
  BY <1>1, <1>2, <1>3, <1>5 DEF IdsIssued
<1>8. WaitingIsFresh'
  BY <1>2, <1>5, <1>6 DEF WaitingIsFresh
<1>9. WaitsOnce'
  <2> SUFFICES ASSUME NEW id \in Id, Waiting(id)
               PROVE  /\ id \notin taskIds
                      /\ \A i, j \in DOMAIN queue' : queue'[i] = id /\ queue'[j] = id => i = j
                      /\ id \in posting' => ~Queued(id)'
                      /\ AtRunner(id) => id \notin posting' /\ ~Queued(id)'
    BY <1>2, <1>5 DEF WaitsOnce
  <2>1. CASE id = new
    <3>1. \A i \in 1 .. Len(queue) : queue[i] # new
      BY <1>1, <1>3, <2>1 DEF WaitsOnce, Queued
    <3>2. \A i, j \in DOMAIN queue' : queue'[i] = id /\ queue'[j] = id => i = j
      BY <1>3, <2>1, <3>1
    <3> QED  BY <1>1, <2>1, <3>2 DEF WaitsOnce
  <2>2. CASE id # new
    <3>1. \A i, j \in DOMAIN queue' : queue'[i] = id /\ queue'[j] = id => i = j
      BY <1>3, <2>2 DEF WaitsOnce
    <3> QED  BY <1>1, <1>4, <2>2, <3>1 DEF WaitsOnce
  <2> QED  BY <2>1, <2>2
<1> QED  BY <1>7, <1>8, <1>9

\* A stopped task is in TaskIds, so it does not wait.
LEMMA PlacesStopTask == ASSUME TypeOK, Places, NEW old \in Id, StopTask(old) PROVE Places'
<1> USE DEF Places
<1>1. /\ old \in taskIds /\ queue' = Append(queue, old)
      /\ state' = [state EXCEPT ![old] = "Completed"]
  BY DEF StopTask, SetState
<1>2. UNCHANGED <<issued, posting, taskIds, reported, runPc, runTask>>
  BY DEF StopTask, adding, runner
<1>3. /\ DOMAIN queue' = 1 .. Len(queue) + 1 /\ DOMAIN queue = 1 .. Len(queue) /\ Len(queue) \in Nat
      /\ \A i \in 1 .. Len(queue) : queue'[i] = queue[i]
      /\ queue'[Len(queue) + 1] = old
  BY <1>1, Enqueued DEF TypeOK
<1>4. \A id \in Id : id # old => (Queued(id)' <=> Queued(id))
  BY <1>3 DEF Queued
<1>5. \A id \in Id : (Waiting(id)' => Waiting(id) /\ id # old) /\ (AtRunner(id)' <=> AtRunner(id))
  BY <1>1, <1>2 DEF Waiting, AtRunner, TypeOK
<1>6. IdsIssued'
  BY <1>1, <1>2, <1>3, <1>5 DEF IdsIssued
<1>7. WaitingIsFresh'
  BY <1>2, <1>4, <1>5 DEF WaitingIsFresh, Accepted
<1>8. WaitsOnce'
  <2> SUFFICES ASSUME NEW id \in Id, Waiting(id), id # old
               PROVE  /\ id \notin taskIds
                      /\ \A i, j \in DOMAIN queue' : queue'[i] = id /\ queue'[j] = id => i = j
                      /\ id \in posting => ~Queued(id)
                      /\ AtRunner(id) => id \notin posting /\ ~Queued(id)
    BY <1>2, <1>4, <1>5 DEF WaitsOnce
  <2>1. \A i, j \in DOMAIN queue' : queue'[i] = id /\ queue'[j] = id => i = j
    BY <1>3 DEF WaitsOnce
  <2> QED  BY <2>1 DEF WaitsOnce
<1> QED  BY <1>6, <1>7, <1>8

\* A torn queue may lose a task, and gains none.
LEMMA PlacesQueueLoses == ASSUME TypeOK, Places, QueueLoses PROVE Places'
<1> USE DEF Places
<1>1. PICK k \in DOMAIN queue : queue' = RemoveAt(queue, k)
  BY DEF QueueLoses
<1>2. UNCHANGED <<issued, posting, state, taskIds, reported, runPc, runTask>>
  BY DEF QueueLoses, object, adding, runner
<1> DEFINE old(i) == IF i < k THEN i ELSE i + 1
<1>3. /\ DOMAIN queue = 1 .. Len(queue) /\ Len(queue) \in Nat
      /\ DOMAIN queue' = 1 .. Len(queue) - 1
      /\ \A i \in DOMAIN queue' : queue'[i] = queue[old(i)]
  BY <1>1, Removed DEF TypeOK
<1>4. /\ \A i \in DOMAIN queue' : old(i) \in DOMAIN queue
      /\ \A i, j \in DOMAIN queue' : old(i) = old(j) => i = j
  BY <1>3
<1> HIDE DEF old
<1>5. \A id \in Id : Queued(id)' => Queued(id)
  BY <1>3, <1>4 DEF Queued
<1>6. \A id \in Id : (Waiting(id)' <=> Waiting(id)) /\ (AtRunner(id)' <=> AtRunner(id))
  BY <1>2 DEF Waiting, AtRunner
<1>7. IdsIssued'
  BY <1>2, <1>3, <1>4, <1>6 DEF IdsIssued
<1>8. WaitingIsFresh'
  BY <1>2, <1>5, <1>6 DEF WaitingIsFresh, Accepted
<1>9. WaitsOnce'
  BY <1>2, <1>3, <1>4, <1>5, <1>6 DEF WaitsOnce
<1> QED  BY <1>7, <1>8, <1>9

\* Dequeue moves the first task from the queue to runTask.
LEMMA PlacesRunnerDequeues == ASSUME TypeOK, Places, RunnerDequeues PROVE Places'
<1> USE DEF Places
<1>1. /\ runPc = "dequeuing" /\ queue # <<>> /\ runPc' = "dequeued"
      /\ runTask' = Head(queue) /\ queue' = Tail(queue)
  BY DEF RunnerDequeues
<1>2. UNCHANGED <<issued, posting, state, taskIds, reported>>
  BY DEF RunnerDequeues, object, adding
<1>3. /\ DOMAIN queue = 1 .. Len(queue) /\ Len(queue) \in Nat /\ Len(queue) >= 1
      /\ DOMAIN queue' = 1 .. Len(queue) - 1
      /\ \A i \in DOMAIN queue' : queue'[i] = queue[i + 1]
      /\ runTask' = queue[1] /\ runTask' \in Id
  BY <1>1, Dequeued DEF TypeOK
<1>4. \A i \in DOMAIN queue' : i + 1 \in DOMAIN queue /\ i + 1 # 1
  BY <1>3
<1>5. \A id \in Id : (Queued(id)' => Queued(id)) /\ (AtRunner(id)' <=> id = queue[1])
  BY <1>1, <1>3, <1>4 DEF Queued, AtRunner
<1>6. Queued(queue[1])
  BY <1>3 DEF Queued
<1>7. \A id \in Id : (Waiting(id)' <=> Waiting(id)) /\ (Accepted(id)' => Accepted(id))
  BY <1>2, <1>5, <1>6 DEF Waiting, Accepted
<1>8. IdsIssued'
  BY <1>2, <1>3, <1>4, <1>5 DEF IdsIssued
<1>9. WaitingIsFresh'
  BY <1>2, <1>7 DEF WaitingIsFresh
<1>10. WaitsOnce'
  <2> SUFFICES ASSUME NEW id \in Id, Waiting(id)
               PROVE  /\ id \notin taskIds
                      /\ \A i, j \in DOMAIN queue' : queue'[i] = id /\ queue'[j] = id => i = j
                      /\ id \in posting => ~Queued(id)'
                      /\ AtRunner(id)' => id \notin posting /\ ~Queued(id)'
    BY <1>2, <1>7 DEF WaitsOnce
  <2>1. \A i, j \in DOMAIN queue : queue[i] = id /\ queue[j] = id => i = j
    BY DEF WaitsOnce
  <2>2. \A i, j \in DOMAIN queue' : queue'[i] = id /\ queue'[j] = id => i = j
    BY <1>3, <1>4, <2>1
  <2>3. id = queue[1] => ~Queued(id)'
    BY <1>3, <1>4, <2>1 DEF Queued
  <2> QED  BY <1>5, <1>6, <2>2, <2>3 DEF WaitsOnce
<1> QED  BY <1>8, <1>9, <1>10

\* StartTask enters the task in TaskIds in the step that ends its wait.
LEMMA PlacesReport ==
    ASSUME TypeOK, Places, Docking, NEW s \in {"Running", "Failed"},
           AtRunner(runTask), Report(runTask, s),
           runPc' \in {"idle", "failing", "panicking"},
           UNCHANGED <<issued, posting, queue, runTask>>
    PROVE  Places'
<1> USE DEF Places
<1>1. runTask \in Id /\ AtRunner(runTask)
  BY DEF TypeOK, AtRunner
<1>2. /\ taskIds' = taskIds \cup {runTask} /\ reported' = reported \cup {runTask}
      /\ state' = [state EXCEPT ![runTask] = s]
  BY DEF Report, SetState
<1>3. \A id \in Id : /\ Waiting(id)' => Waiting(id) /\ id # runTask
                     /\ Queued(id)' <=> Queued(id)
                     /\ AtRunner(id)' => id = runTask
  BY <1>1, <1>2 DEF Waiting, Queued, AtRunner, TypeOK
<1>4. IdsIssued'
  BY <1>1, <1>2, <1>3 DEF IdsIssued
<1>5. WaitingIsFresh'
  BY <1>2, <1>3 DEF WaitingIsFresh, Accepted
<1>6. WaitsOnce'
  BY <1>2, <1>3 DEF WaitsOnce
<1> QED  BY <1>4, <1>5, <1>6

\* After a crash nothing is anywhere, although the ids stay issued.
LEMMA PlacesRestart == ASSUME Places, WorkerRestart PROVE Places'
<1> USE DEF Places
<1>1. /\ queue' = <<>> /\ posting' = {} /\ taskIds' = {} /\ runPc' = "idle"
      /\ UNCHANGED <<issued, reported>>
  BY DEF WorkerRestart
<1>2. \A id \in Id : ~Queued(id)' /\ ~AtRunner(id)' /\ ~Accepted(id)'
  BY <1>1 DEF Queued, AtRunner, Accepted
<1>3. IdsIssued'
  BY <1>1, <1>2 DEF IdsIssued
<1>4. WaitingIsFresh' /\ WaitsOnce'
  BY <1>1, <1>2 DEF WaitingIsFresh, WaitsOnce
<1> QED  BY <1>3, <1>4

\* Each step leaves a waiting task in one place.
LEMMA PlacesNext == ASSUME IInv, [Next]_vars PROVE Places'
<1> USE DEF IInv
<1>0. TypeOK /\ Places /\ Docking /\ Watched
  BY DEF Places
<1> HIDE DEF IInv
<1> USE DEF object, adding, runner, monitor
<1>1. CASE StartTask
  BY <1>0, <1>1, PlacesStartTask
<1>2. ASSUME NEW id \in Id, AddTask(id) PROVE Places'
  BY <1>0, <1>2, PlacesAddTask
<1>3. ASSUME NEW id \in Id, StopTask(id) PROVE Places'
  BY <1>0, <1>3, PlacesStopTask
<1>4. CASE QueueLoses
  BY <1>0, <1>4, PlacesQueueLoses
<1>5. CASE RunnerDequeues
  BY <1>0, <1>5, PlacesRunnerDequeues
<1>6. CASE RunnerLocks \/ RunnerFindsNone
  <2>1. /\ \A id \in Id : Waiting(id)' => Waiting(id)
        /\ \A id \in Id : AtRunner(id)' => AtRunner(id)
    BY <1>6 DEF RunnerLocks, RunnerFindsNone, Waiting, AtRunner
  <2> QED  BY <1>0, <1>6, <2>1, PlacesStay DEF RunnerLocks, RunnerFindsNone
<1>7. CASE RunnerStarts
  <2>1. /\ \A id \in Id : Waiting(id)' => Waiting(id)
        /\ \A id \in Id : AtRunner(id)' => AtRunner(id)
    BY <1>0, <1>7 DEF RunnerStarts, SetState, Waiting, AtRunner, TypeOK
  <2> QED  BY <1>0, <1>7, <2>1, PlacesStay DEF RunnerStarts
<1>8. CASE RunCreates \/ RunStarts \/ RunPanics \/ RunnerStops \/ RunnerRefuses
  <2>1. /\ \A id \in Id : Waiting(id)' => Waiting(id)
        /\ \A id \in Id : AtRunner(id)' => AtRunner(id)
    BY <1>8 DEF RunCreates, RunStarts, RunPanics, RunnerStops, RunnerRefuses, Waiting, AtRunner
  <2> QED  BY <1>0, <1>8, <2>1, PlacesStay
           DEF RunCreates, RunStarts, RunPanics, RunnerStops, RunnerRefuses
<1>9. CASE RunFails \/ RunnerHasNoDocker
  <2>1. AtRunner(runTask)
    BY <1>9 DEF RunFails, RunnerHasNoDocker, AtRunner
  <2> QED  BY <1>0, <1>9, <2>1, PlacesReport DEF RunFails, RunnerHasNoDocker
<1>10. CASE RunSucceeds
  <2>1. AtRunner(runTask)
    BY <1>10 DEF RunSucceeds, AtRunner
  <2> QED  BY <1>0, <1>10, <2>1, PlacesReport DEF RunSucceeds
<1>11. CASE RunnerFails
  <2>1. /\ \A id \in Id : Waiting(id)' => Waiting(id)
        /\ \A id \in Id : AtRunner(id)' => AtRunner(id)
    BY <1>0, <1>11 DEF RunnerFails, Waiting, AtRunner, TypeOK
  <2> QED  BY <1>0, <1>11, <2>1, PlacesStay DEF RunnerFails
<1>12. CASE MonitorMarks
  <2>1. /\ \A id \in Id : Waiting(id)' => Waiting(id)
        /\ \A id \in Id : AtRunner(id)' => AtRunner(id)
    BY <1>0, <1>12 DEF MonitorMarks, SetState, Waiting, AtRunner, TypeOK
  <2> QED  BY <1>0, <1>12, <2>1, PlacesStay DEF MonitorMarks
<1>13. CASE MonitorSnapshot \/ MonitorPorts \/ \E id \in Id : MonitorInspect(id)
  <2>1. UNCHANGED <<issued, posting, queue, taskIds, reported, state, runPc, runTask>>
    BY <1>13 DEF MonitorSnapshot, MonitorPorts, MonitorInspect
  <2>2. /\ \A id \in Id : Waiting(id)' => Waiting(id)
        /\ \A id \in Id : AtRunner(id)' => AtRunner(id)
    BY <2>1 DEF Waiting, AtRunner
  <2> QED  BY <1>0, <2>1, <2>2, PlacesStay
<1>14. CASE UNCHANGED vars \/ \E id \in Id : ContainerExits(id) \/ ContainerRestarts(id)
  <2>1. UNCHANGED <<issued, posting, queue, taskIds, reported, state, runPc, runTask>>
    BY <1>14 DEF vars, ContainerExits, ContainerRestarts
  <2>2. /\ \A id \in Id : Waiting(id)' => Waiting(id)
        /\ \A id \in Id : AtRunner(id)' => AtRunner(id)
    BY <2>1 DEF Waiting, AtRunner
  <2> QED  BY <1>0, <2>1, <2>2, PlacesStay
<1>15. CASE WorkerRestart
  BY <1>0, <1>15, PlacesRestart
<1> QED
  BY <1>1, <1>2, <1>3, <1>4, <1>5, <1>6, <1>7, <1>8, <1>9, <1>10, <1>11, <1>12, <1>13, <1>14, <1>15
     DEF Next, HandlerStep, RunnerStep, MonitorStep, EnvStep

-----------------------------------------------------------------------------
(* The rest of the inductive invariant.                                    *)

\* Nobody else writes the state of a task that is being started: it is not in
\* TaskIds yet, so neither StopTaskHandler nor MonitorTasks knows it.
LEMMA DockingNext == ASSUME IInv, [Next]_vars PROVE Docking'
<1>0. /\ TypeOK /\ IdsIssued /\ WaitsOnce /\ Docking /\ Watched
  BY DEF IInv
<1>1. runPc \in {"pulling", "starting", "inspecting"} => runTask \in Id /\ runTask \notin taskIds
  BY <1>0 DEF TypeOK, IdsIssued, WaitsOnce, Docking, Waiting, AtRunner
<1> USE DEF Docking, object, adding, runner, monitor, SetState
<1>2. CASE StartTask
  <2>1. \A id \in Id : AtRunner(id) => id \in issued
    BY <1>0 DEF IdsIssued
  <2>2. runPc \in {"pulling", "starting", "inspecting"} => runTask \in issued
    BY <1>1, <2>1 DEF AtRunner
  <2> QED  BY <1>0, <1>2, <2>2 DEF StartTask, TypeOK
<1>3. ASSUME NEW id \in Id, StopTask(id) PROVE Docking'
  BY <1>0, <1>1, <1>3 DEF StopTask, Free
<1>4. CASE MonitorMarks
  BY <1>0, <1>1, <1>4 DEF MonitorMarks, Free
<1>5. CASE RunnerStarts
  BY <1>0, <1>5 DEF RunnerStarts, TypeOK
<1>6. CASE RunCreates \/ RunStarts
  BY <1>0, <1>1, <1>6 DEF RunCreates, RunStarts, TypeOK
<1>7. CASE RunFails \/ RunSucceeds \/ RunPanics \/ RunnerHasNoDocker
  BY <1>7 DEF RunFails, RunSucceeds, RunPanics, RunnerHasNoDocker
<1>8. CASE RunnerLocks \/ RunnerDequeues \/ RunnerFindsNone \/ RunnerStops \/ RunnerRefuses \/ RunnerFails
  BY <1>8 DEF RunnerLocks, RunnerDequeues, RunnerFindsNone, RunnerStops, RunnerRefuses, RunnerFails
<1>9. ASSUME NEW id \in Id, ContainerExits(id) \/ ContainerRestarts(id) PROVE Docking'
  BY <1>0, <1>9 DEF ContainerExits, ContainerRestarts, TypeOK
<1>10. CASE WorkerRestart
  BY <1>10 DEF WorkerRestart
<1>11. CASE UNCHANGED <<object, runner, container>>
  BY <1>0, <1>11
<1>12. ASSUME NEW id \in Id, AddTask(id) \/ MonitorInspect(id)
       PROVE  UNCHANGED <<object, runner, container>>
  BY <1>12 DEF AddTask, MonitorInspect
<1>13. QueueLoses \/ MonitorSnapshot \/ MonitorPorts \/ UNCHANGED vars
          => UNCHANGED <<object, runner, container>>
  BY DEF QueueLoses, MonitorSnapshot, MonitorPorts, vars
<1> QED
  BY <1>2, <1>3, <1>4, <1>5, <1>6, <1>7, <1>8, <1>9, <1>10, <1>11, <1>12, <1>13
     DEF Next, HandlerStep, RunnerStep, MonitorStep, EnvStep

\* TaskIds only shrinks at a crash, which also ends the round of MonitorTasks.
LEMMA WatchedNext == ASSUME IInv, [Next]_vars PROVE Watched'
<1>0. Watched
  BY DEF IInv
<1> USE DEF Watched, object, adding, runner, monitor
<1>1. CASE MonitorSnapshot \/ MonitorMarks \/ MonitorPorts
  BY <1>0, <1>1 DEF MonitorSnapshot, MonitorMarks, MonitorPorts
<1>2. ASSUME NEW id \in Id, MonitorInspect(id) PROVE Watched'
  BY <1>0, <1>2 DEF MonitorInspect
<1>3. CASE WorkerRestart
  BY <1>3 DEF WorkerRestart
<1>4. CASE UNCHANGED monitor /\ taskIds \subseteq taskIds'
  BY <1>0, <1>4
<1>5. ASSUME NEW id \in Id,
             AddTask(id) \/ StopTask(id) \/ ContainerExits(id) \/ ContainerRestarts(id)
      PROVE  UNCHANGED monitor /\ taskIds \subseteq taskIds'
  BY <1>5 DEF AddTask, StopTask, ContainerExits, ContainerRestarts
<1>6. CASE RunnerStep
  BY <1>4, <1>6 DEF RunnerStep, RunnerLocks, RunnerDequeues, RunnerFindsNone, RunnerStarts, RunCreates, RunStarts,
         RunFails, RunSucceeds, RunnerHasNoDocker, RunPanics, RunnerStops, RunnerRefuses,
         RunnerFails, Report
<1>7. StartTask \/ QueueLoses \/ UNCHANGED vars => UNCHANGED monitor /\ taskIds \subseteq taskIds'
  BY DEF StartTask, QueueLoses, vars
<1> QED
  BY <1>1, <1>2, <1>3, <1>4, <1>5, <1>6, <1>7 DEF Next, HandlerStep, MonitorStep, EnvStep

\* Running is written in one place, after ContainerStart succeeded, and a task
\* that is in TaskIds gets no other container.
LEMMA RunningNext == ASSUME IInv, [Next]_vars PROVE RunningWasStarted'
<1>0. TypeOK /\ IdsIssued /\ WaitsOnce /\ Docking /\ Watched /\ RunningWasStarted
  BY DEF IInv
<1>1. runPc \in {"pulling", "starting", "inspecting"} => runTask \in Id /\ runTask \notin taskIds
  BY <1>0 DEF TypeOK, IdsIssued, WaitsOnce, Docking, Waiting, AtRunner
<1> USE DEF RunningWasStarted, object, adding, runner, monitor, SetState
<1>2. CASE StartTask
  BY <1>0, <1>2 DEF StartTask, TypeOK
<1>3. ASSUME NEW id \in Id, StopTask(id) PROVE RunningWasStarted'
  BY <1>0, <1>3 DEF StopTask, TypeOK
<1>4. CASE MonitorMarks \/ RunnerFails
  BY <1>0, <1>4 DEF MonitorMarks, RunnerFails, TypeOK
<1>5. CASE RunnerStarts
  BY <1>0, <1>5 DEF RunnerStarts, TypeOK
<1>6. CASE RunCreates \/ RunStarts
  BY <1>0, <1>1, <1>6 DEF RunCreates, RunStarts, TypeOK
<1>7. CASE RunFails \/ RunnerHasNoDocker
  BY <1>0, <1>1, <1>7 DEF RunFails, RunnerHasNoDocker, Report, TypeOK
<1>8. CASE RunSucceeds
  BY <1>0, <1>1, <1>8 DEF RunSucceeds, Report, Docking, TypeOK
<1>9. ASSUME NEW id \in Id, ContainerExits(id) \/ ContainerRestarts(id) PROVE RunningWasStarted'
  BY <1>0, <1>9 DEF ContainerExits, ContainerRestarts, TypeOK
<1>10. CASE WorkerRestart
  BY <1>10 DEF WorkerRestart
<1>11. CASE UNCHANGED <<object, taskIds, container>>
  BY <1>0, <1>11
<1>12. ASSUME NEW id \in Id, AddTask(id) \/ MonitorInspect(id)
       PROVE  UNCHANGED <<object, taskIds, container>>
  BY <1>12 DEF AddTask, MonitorInspect
<1>13. RunnerLocks \/ RunnerDequeues \/ RunnerFindsNone \/ RunPanics \/ RunnerStops \/ RunnerRefuses
          => UNCHANGED <<object, taskIds, container>>
  BY DEF RunnerLocks, RunnerDequeues, RunnerFindsNone, RunPanics, RunnerStops, RunnerRefuses
<1>14. QueueLoses \/ MonitorSnapshot \/ MonitorPorts \/ UNCHANGED vars
          => UNCHANGED <<object, taskIds, container>>
  BY DEF QueueLoses, MonitorSnapshot, MonitorPorts, vars
<1> QED
  BY <1>2, <1>3, <1>4, <1>5, <1>6, <1>7, <1>8, <1>9, <1>10, <1>11, <1>12, <1>13, <1>14
     DEF Next, HandlerStep, RunnerStep, MonitorStep, EnvStep

\* Each step of a handler, of the runner, of the monitor and of the
\* environment keeps the inductive invariant.
LEMMA InvNext == IInv /\ [Next]_vars => IInv'
BY TypeNext, PlacesNext, DockingNext, WatchedNext, RunningNext DEF IInv, Places

-----------------------------------------------------------------------------

\* The inductive invariant holds in every state.
THEOREM Invariance == Spec => []IInv
BY InvInit, InvNext, PTL DEF Spec

\* Every variable has its type; in particular runTask never handles a nil task.
THEOREM TypeCorrect == Spec => []TypeOK
<1>1. IInv => TypeOK
  BY DEF IInv
<1> QED  BY <1>1, Invariance, PTL

\* A task that was not started yet is in one place only, whatever overlaps
\* with the unlocked Enqueue of StartTaskHandler.
THEOREM WaitingIsHeldOnce == Spec => []WaitsOnce
<1>1. IInv => WaitsOnce
  BY DEF IInv
<1> QED  BY <1>1, Invariance, PTL

\* A task is Running only when ContainerStart succeeded for it.
THEOREM RunningHasContainer == Spec => []RunningWasStarted
<1>1. IInv => RunningWasStarted
  BY DEF IInv
<1> QED  BY <1>1, Invariance, PTL

-----------------------------------------------------------------------------
(* The worker keeps the promise of WorkerReports.                          *)

\* Steps that TaskIds does not show.
LEMMA NothingReported ==
    ASSUME UNCHANGED <<taskIds, reported>>,
           \A id \in taskIds : state'[id] = state[id] /\ start'[id] = start[id]
    PROVE  UNCHANGED Promise!vars
<1>1. Reports' = Reports
  BY DEF Reports
<1> QED  BY <1>1 DEF Promise!vars

\* Overwriting the state of a reported task with Completed or Failed.
LEMMA EndReported ==
    ASSUME TypeOK, NEW old \in taskIds, NEW s \in {"Completed", "Failed"},
           UNCHANGED <<taskIds, reported, start>>, state' = [state EXCEPT ![old] = s]
    PROVE  Promise!Ends
<1> DEFINE Of(id) == [id |-> id, state |-> state[id], start |-> start[id]]
           now == [id |-> old, state |-> s, start |-> start[old]]
<1>1. \A id \in taskIds : id # old => state'[id] = state[id]
  BY DEF TypeOK
<1>2. state'[old] = s
  BY DEF TypeOK
<1>3. Reports = {Of(id) : id \in taskIds}
  BY DEF Reports
<1>4. Of(old) \in Reports
  BY <1>3
<1>5. Reports' = {[id |-> id, state |-> state'[id], start |-> start[id]] : id \in taskIds}
  BY DEF Reports
<1>6. Reports' = (Reports \ {Of(old)}) \cup {now}
  <2>1. \A id \in taskIds : id # old => Of(id) # Of(old)
    OBVIOUS
  <2>2. ASSUME NEW x \in Reports' PROVE x \in (Reports \ {Of(old)}) \cup {now}
    <3>1. PICK id \in taskIds : x = [id |-> id, state |-> state'[id], start |-> start[id]]
      BY <1>5
    <3>2. CASE id = old
      BY <1>2, <3>1, <3>2
    <3>3. CASE id # old
      BY <1>1, <1>3, <2>1, <3>1, <3>3
    <3> QED  BY <3>2, <3>3
  <2>3. ASSUME NEW x \in Reports \ {Of(old)} PROVE x \in Reports'
    <3>1. PICK id \in taskIds : x = Of(id)
      BY <1>3
    <3>2. id # old
      BY <3>1
    <3> QED  BY <1>1, <1>5, <3>1, <3>2
  <2>4. now \in Reports'
    BY <1>2, <1>5
  <2> QED  BY <2>2, <2>3, <2>4
<1>7. now = [Of(old) EXCEPT !.state = s]
  OBVIOUS
<1> QED  BY <1>4, <1>6, <1>7 DEF Promise!Ends

\* StartTask's end: the task enters TaskIds, for the first time.
LEMMA StartReported ==
    ASSUME TypeOK, NEW new \in Id \ reported, new \notin taskIds, start'[new] \in Time,
           \A id \in taskIds : start'[id] = start[id],
           NEW s \in {"Running", "Failed"}, Report(new, s)
    PROVE  Promise!Starts
<1> DEFINE Of(id) == [id |-> id, state |-> state[id], start |-> start[id]]
           now == [id |-> new, state |-> s, start |-> start'[new]]
<1>1. /\ taskIds' = taskIds \cup {new} /\ reported' = reported \cup {new}
      /\ state' = [state EXCEPT ![new] = s]
  BY DEF Report, SetState
<1>2. state'[new] = s /\ \A id \in taskIds : state'[id] = state[id]
  BY <1>1 DEF TypeOK
<1>3. Reports = {Of(id) : id \in taskIds}
  BY DEF Reports
<1>4. Reports' = {[id |-> id, state |-> state'[id], start |-> start'[id]] : id \in taskIds \cup {new}}
  BY <1>1 DEF Reports
<1>5. Reports' = Reports \cup {now}
  <2>1. ASSUME NEW x \in Reports' PROVE x \in Reports \cup {now}
    BY <1>2, <1>3, <1>4
  <2>2. Reports \subseteq Reports'
    BY <1>2, <1>3, <1>4
  <2>3. now \in Reports'
    BY <1>2, <1>4
  <2> QED  BY <2>1, <2>2, <2>3
<1> QED  BY <1>1, <1>5 DEF Promise!Starts

\* Each step of the worker is a step of WorkerReports or not seen in TaskIds.
LEMMA ReportsStep == ASSUME IInv, [Next]_vars PROVE [Promise!Next]_(Promise!vars)
<1>0. TypeOK /\ Places /\ Docking /\ Watched
  BY DEF IInv, Places
<1>1. runPc \in {"pulling", "starting", "inspecting"} =>
        /\ runTask \in Id /\ runTask \notin taskIds /\ runTask \notin reported
        /\ start[runTask] \in Time
  BY <1>0 DEF TypeOK, Places, IdsIssued, WaitingIsFresh, WaitsOnce, Docking, Waiting, AtRunner, Accepted
<1> USE DEF object, adding, runner, monitor, SetState
<1>2. CASE StartTask
  <2>1. PICK id \in Id \ issued, s \in Time : /\ state' = [state EXCEPT ![id] = "Pending"]
                                              /\ start' = [start EXCEPT ![id] = s]
    BY <1>2 DEF StartTask
  <2>2. id \notin taskIds
    BY <1>0 DEF Places, IdsIssued
  <2> QED  BY <1>0, <1>2, <2>1, <2>2, NothingReported DEF StartTask, TypeOK
<1>3. ASSUME NEW id \in Id, StopTask(id) PROVE Promise!Ends
  BY <1>0, <1>3, EndReported DEF StopTask
<1>4. CASE RunnerStarts
  <2>1. runTask \in Id /\ runTask \notin taskIds
    BY <1>0, <1>4 DEF RunnerStarts, TypeOK, Places, IdsIssued, WaitsOnce, Waiting, AtRunner
  <2> QED  BY <1>0, <1>4, <2>1, NothingReported DEF RunnerStarts, TypeOK
<1>5. CASE RunFails
  <2>1. UNCHANGED start /\ Report(runTask, "Failed") /\ runPc \in {"pulling", "starting", "inspecting"}
    BY <1>5 DEF RunFails
  <2>2. Promise!Starts
    BY <1>0, <1>1, <2>1, StartReported
  <2> QED  BY <2>2 DEF Promise!Next
<1>6. CASE RunSucceeds
  <2>1. UNCHANGED start /\ Report(runTask, "Running") /\ runPc \in {"pulling", "starting", "inspecting"}
    BY <1>6 DEF RunSucceeds
  <2>2. Promise!Starts
    BY <1>0, <1>1, <2>1, StartReported
  <2> QED  BY <2>2 DEF Promise!Next
<1>7. CASE RunnerFails
  <2>1. UNCHANGED <<taskIds, reported, start>>
    BY <1>7 DEF RunnerFails
  <2>2. CASE runTask \in taskIds
    <3>1. state' = [state EXCEPT ![runTask] = "Failed"]
      BY <1>7, <2>2 DEF RunnerFails
    <3>2. Promise!Ends
      BY <1>0, <2>1, <2>2, <3>1, EndReported
    <3> QED  BY <3>2 DEF Promise!Next
  <2>3. CASE runTask \notin taskIds
    BY <1>7, <2>1, <2>3, NothingReported DEF RunnerFails
  <2> QED  BY <2>2, <2>3
<1>8. CASE MonitorMarks
  <2>1. /\ UNCHANGED <<taskIds, reported, start>>
        /\ state' = [state EXCEPT ![inspected] = "Failed"]
        /\ inspected \in taskIds
    BY <1>0, <1>8 DEF MonitorMarks, Watched
  <2>2. Promise!Ends
    BY <1>0, <2>1, EndReported
  <2> QED  BY <2>2 DEF Promise!Next
<1>9. CASE WorkerRestart
  <2>1. Reports' = {} /\ reported' = reported
    BY <1>9 DEF WorkerRestart, Reports
  <2> QED  BY <2>1 DEF Promise!Next, Promise!Restarts
<1>10. CASE UNCHANGED <<object, taskIds, reported>>
  BY <1>10, NothingReported
<1>11. ASSUME NEW id \in Id,
              AddTask(id) \/ MonitorInspect(id) \/ ContainerExits(id) \/ ContainerRestarts(id)
       PROVE  UNCHANGED <<object, taskIds, reported>>
  BY <1>11 DEF AddTask, MonitorInspect, ContainerExits, ContainerRestarts
<1>12. RunnerLocks \/ RunnerDequeues \/ RunnerFindsNone \/ RunCreates \/ RunStarts
         \/ RunPanics \/ RunnerStops \/ RunnerRefuses
          => UNCHANGED <<object, taskIds, reported>>
  BY DEF RunnerLocks, RunnerDequeues, RunnerFindsNone, RunCreates, RunStarts, RunPanics,
         RunnerStops, RunnerRefuses
<1>13. QueueLoses \/ MonitorSnapshot \/ MonitorPorts \/ UNCHANGED vars
          => UNCHANGED <<object, taskIds, reported>>
  BY DEF QueueLoses, MonitorSnapshot, MonitorPorts, vars
<1>14. Promise!Ends => [Promise!Next]_(Promise!vars)
  BY DEF Promise!Next
<1>15. CASE RunnerHasNoDocker
  <2>1. runTask \in Id /\ runTask \notin taskIds /\ runTask \notin reported
    BY <1>0, <1>15 DEF RunnerHasNoDocker, TypeOK, Places, IdsIssued, WaitingIsFresh, WaitsOnce,
       Waiting, AtRunner, Accepted
  <2>2. start'[runTask] \in Time /\ \A id \in taskIds : start'[id] = start[id]
    BY <1>0, <1>15, <2>1 DEF RunnerHasNoDocker, TypeOK
  <2>3. Promise!Starts
    BY <1>0, <1>15, <2>1, <2>2, StartReported DEF RunnerHasNoDocker
  <2> QED  BY <2>3 DEF Promise!Next
<1> QED
  BY <1>2, <1>3, <1>4, <1>5, <1>6, <1>7, <1>8, <1>9, <1>10, <1>11, <1>12, <1>13, <1>14, <1>15
     DEF Next, HandlerStep, RunnerStep, MonitorStep, EnvStep

\* What a worker answers to GET /tasks is sound: a task enters TaskIds once,
\* as Running or Failed, keeps its StartTime, and never runs again.
THEOREM KeepsPromise == Spec => ReportsAreSound
<1>1. Init => Promise!Init
  BY DEF Init, Promise!Init, Reports
<1>2. IInv /\ [Next]_vars => [Promise!Next]_(Promise!vars)
  BY ReportsStep
<1> QED  BY <1>1, <1>2, Invariance, PTL DEF Spec, ReportsAreSound, Promise!Spec
=============================================================================
