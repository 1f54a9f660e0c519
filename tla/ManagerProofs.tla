--------------------------- MODULE ManagerProofs ---------------------------
(***************************************************************************)
(* Theorems about Manager, for any workers, ids, start times, number of    *)
(* HTTP handler goroutines and page limit, and any bounds.                 *)
(***************************************************************************)
EXTENDS Manager, InsertionProofs, WellFoundedInduction

-----------------------------------------------------------------------------
(* Types.                                                                  *)

\* InsertSorted keeps a list of pointers a list of pointers.
LEMMA InsertSortedType ==
    ASSUME NEW h, NEW p, NEW n \in Nat,
           sortedTasks \in Seq(1 .. n), p \in 1 .. n, InsertSorted(h, p)
    PROVE  sortedTasks' \in Seq(1 .. n)
<1>1. PICK i \in 1 .. Len(sortedTasks) + 1 : sortedTasks' = InsertAt(sortedTasks, i, p)
  BY DEF InsertSorted
<1> QED  BY <1>1, InsertAtIs

\* So does List.
LEMMA ListType ==
    ASSUME NEW p, NEW n \in Nat,
           sortedTasks \in Seq(1 .. n), p \in 1 .. n, List(p)
    PROVE  sortedTasks' \in Seq(1 .. n)
<1>1. CASE \E i \in DOMAIN sortedTasks : sortedTasks' = [sortedTasks EXCEPT ![i] = p]
  BY <1>1, ExceptSeq, LenProperties
<1>2. CASE InsertSorted(heap, p)
  BY <1>2, InsertSortedType
<1> QED  BY <1>1, <1>2 DEF List

\* What a pointer points to.
LEMMA Pointer ==
    ASSUME TypeOK, NEW p \in 1 .. Len(heap)
    PROVE  /\ Len(heap) \in Nat
           /\ p \in 0 .. Len(heap)
           /\ heap[p] \in Task
           /\ heap[p].id \in Id
           /\ heap[p].start \in Int
<1>1. heap \in Seq(Task)
  BY DEF TypeOK
<1>2. Len(heap) \in Nat
  BY <1>1, LenProperties
<1>3. heap[p] \in Task
  BY <1>1, ElementOfSeq
<1>4. p \in 0 .. Len(heap)
  BY <1>2
<1> QED  BY <1>2, <1>3, <1>4, ManagerAssumption DEF Task

\* What AddTask(p) does to the tables, for a pointer p.
LEMMA AddTaskType ==
    ASSUME TypeOK, NEW p \in 1 .. Len(heap), AddTask(p)
    PROVE  /\ taskDb' \in [Id -> 0 .. Len(heap)]
           /\ sortedTasks' \in Seq(1 .. Len(heap))
           /\ pendingTasks' \in Seq(1 .. Len(heap))
<1>1. Len(heap) \in Nat /\ heap[p].id \in Id /\ p \in 0 .. Len(heap)
  BY Pointer
<1>2. taskDb' \in [Id -> 0 .. Len(heap)]
  BY <1>1 DEF TypeOK, AddTask
<1>3. sortedTasks' \in Seq(1 .. Len(heap))
  BY <1>1, ListType DEF TypeOK, AddTask
<1>4. pendingTasks' \in Seq(1 .. Len(heap))
  BY AppendProperties DEF TypeOK, AddTask, Enqueue
<1> QED  BY <1>2, <1>3, <1>4

\* Writing a state keeps the heap a heap of the same size.
LEMMA SetStateType ==
    ASSUME TypeOK, NEW p \in 1 .. Len(heap), NEW s \in State, SetState(p, s)
    PROVE  heap' \in Seq(Task) /\ Len(heap') = Len(heap)
<1>1. heap[p] \in Task
  BY Pointer
<1>2. [heap[p] EXCEPT !.state = s] \in Task
  BY <1>1 DEF Task
<1>3. heap' = [heap EXCEPT ![p] = [heap[p] EXCEPT !.state = s]]
  BY DEF SetState
<1> QED  BY <1>2, <1>3, ExceptSeq DEF TypeOK

\* Allocating a task object keeps every pointer a pointer.
LEMMA AllocateType ==
    ASSUME TypeOK, NEW t \in Task, heap' = Append(heap, t)
    PROVE  /\ heap' \in Seq(Task)
           /\ Len(heap') = Len(heap) + 1
           /\ 1 .. Len(heap) \subseteq 1 .. Len(heap')
           /\ 0 .. Len(heap) \subseteq 0 .. Len(heap')
           /\ Len(heap) + 1 \in 1 .. Len(heap')
<1>1. heap' \in Seq(Task) /\ Len(heap') = Len(heap) + 1
  BY AppendProperties DEF TypeOK
<1>2. Len(heap) \in Nat
  BY LenProperties DEF TypeOK
<1> QED  BY <1>1, <1>2

\* The tables New makes have their types.
LEMMA TypeInit == Init => TypeOK
BY EmptySeq DEF Init, TypeOK, NoTasks, NoAssignments, NoLists, NoRequests, NoPolls,
                NoReports, Nil

\* A step of an HTTP handler keeps every variable of its type.
LEMMA TypeHandler ==
    ASSUME TypeOK, NEW h \in Handler, StartTask(h) \/ StopTask(h) \/ HandlerAddTask(h)
    PROVE  TypeOK'
<1>1. CASE StartTask(h)
  <2>1. PICK id \in Id \ used, s \in Time :
          /\ heap' = Append(heap, [id |-> id, state |-> "Pending", start |-> s])
          /\ used' = used \cup {id}
    BY <1>1 DEF StartTask
  <2>2. [id |-> id, state |-> "Pending", start |-> s] \in Task
    BY DEF Task, State
  <2>3. /\ heap' \in Seq(Task)
        /\ 1 .. Len(heap) \subseteq 1 .. Len(heap')
        /\ 0 .. Len(heap) \subseteq 0 .. Len(heap')
        /\ Len(heap) + 1 \in 0 .. Len(heap')
    BY <2>1, <2>2, AllocateType
  <2>4. sortedTasks \in Seq(1 .. Len(heap')) /\ pendingTasks \in Seq(1 .. Len(heap'))
    BY <2>3, SeqMonotonic DEF TypeOK
  <2> QED  BY <1>1, <2>1, <2>3, <2>4
           DEF TypeOK, StartTask, tables, sender, poller
<1>2. CASE StopTask(h)
  <2>1. PICK id \in Id : Known(id) /\ SetState(taskDb[id], "Completed")
                         /\ handler' = [handler EXCEPT ![h] = taskDb[id]]
    BY <1>2 DEF StopTask
  <2>2. taskDb[id] \in 1 .. Len(heap)
    BY <2>1 DEF TypeOK, Known, Nil
  <2>3. heap' \in Seq(Task) /\ Len(heap') = Len(heap)
    BY <2>1, <2>2, SetStateType DEF State
  <2> QED  BY <1>2, <2>1, <2>2, <2>3 DEF TypeOK, StopTask, tables, sender, poller, env
<1>3. CASE HandlerAddTask(h)
  <2>1. handler[h] \in 1 .. Len(heap)
    BY <1>3 DEF TypeOK, HandlerAddTask, Nil
  <2>2. /\ taskDb' \in [Id -> 0 .. Len(heap)]
        /\ sortedTasks' \in Seq(1 .. Len(heap))
        /\ pendingTasks' \in Seq(1 .. Len(heap))
    BY <1>3, <2>1, AddTaskType DEF HandlerAddTask
  <2>3. /\ UNCHANGED <<heap, eventDb, workersTaskMap, taskWorkerMap, mu>>
        /\ UNCHANGED <<sender, poller, env>>
        /\ handler' = [handler EXCEPT ![h] = Nil]
    BY <1>3 DEF HandlerAddTask, AddTask
  <2>4. handler' \in [Handler -> 0 .. Len(heap)]
    BY <2>1, <2>3, Pointer DEF TypeOK, Nil
  <2> QED  BY <2>2, <2>3, <2>4 DEF TypeOK, sender, poller, env
<1> QED  BY <1>1, <1>2, <1>3

\* So does a step of SendWork.
LEMMA TypeSend ==
    ASSUME TypeOK, SendStep
    PROVE  TypeOK'
<1>1. CASE SendDequeue
  <2>1. /\ Head(pendingTasks) \in 1 .. Len(heap)
        /\ Tail(pendingTasks) \in Seq(1 .. Len(heap))
    BY <1>1, HeadTailProperties DEF TypeOK, SendDequeue
  <2> QED  BY <1>1, <2>1 DEF TypeOK, SendDequeue, poller, env, Nil
<1>2. CASE SendNoWorker \/ SendUnreadable
  BY <1>2, LenProperties
     DEF TypeOK, SendNoWorker, SendUnreadable, SendIdle, tables, poller, env, Nil
<1>3. ASSUME NEW w \in Worker, SendSchedule(w) PROVE TypeOK'
  <2>1. sendTask \in 1 .. Len(heap)
    BY <1>3 DEF TypeOK, SendSchedule, Nil
  <2>2. heap' \in Seq(Task) /\ Len(heap') = Len(heap)
    BY <1>3, <2>1, SetStateType DEF SendSchedule, State
  <2> QED  BY <1>3, <2>1, <2>2, ManagerAssumption
           DEF TypeOK, SendSchedule, tables, poller, env
<1>4. CASE SendCreated
  <2>1. sendTask \in 1 .. Len(heap) /\ sendTo \in Worker
    BY <1>4 DEF TypeOK, SendCreated, Nil
  <2>2. heap[sendTask].id \in Id /\ Len(heap) \in Nat
    BY <2>1, Pointer
  <2>3. workersTaskMap' \in [Worker -> [Id -> Nat]]
    BY <1>4, <2>1, <2>2 DEF TypeOK, SendCreated
  <2>4. /\ eventDb' \subseteq Id /\ taskWorkerMap' \in [Id -> Worker \cup {NoWorker}]
        /\ taskDb' \in [Id -> 0 .. Len(heap)]
    BY <1>4, <2>1, <2>2 DEF TypeOK, SendCreated
  <2>5. /\ UNCHANGED <<heap, sortedTasks, pendingTasks, mu, handler>> /\ UNCHANGED <<poller, env>>
        /\ sendPc' = "idle" /\ sendTask' = 0 /\ sendTo' = NoWorker
    BY <1>4 DEF SendCreated, SendIdle, Nil
  <2> QED  BY <2>2, <2>3, <2>4, <2>5 DEF TypeOK, poller, env, Nil
<1>5. CASE SendRequeue
  <2>1. sendTask \in 1 .. Len(heap)
    BY <1>5 DEF TypeOK, SendRequeue, Nil
  <2>2. /\ taskDb' \in [Id -> 0 .. Len(heap)]
        /\ sortedTasks' \in Seq(1 .. Len(heap))
        /\ pendingTasks' \in Seq(1 .. Len(heap))
    BY <1>5, <2>1, AddTaskType DEF SendRequeue
  <2> QED  BY <1>5, <2>1, <2>2, Pointer
           DEF TypeOK, SendRequeue, SendIdle, AddTask, poller, env, Nil
<1> QED  BY <1>1, <1>2, <1>3, <1>4, <1>5 DEF SendStep

\* So does a step of updateTasks.
LEMMA TypePoll ==
    ASSUME TypeOK, PollStep
    PROVE  TypeOK'
<1>1. CASE PollStart
  BY <1>1 DEF TypeOK, PollStart, tables, sender, env
<1>2. ASSUME NEW w \in Worker, PollAnswer(w) PROVE TypeOK'
  <2>1. PICK page \in SUBSET remote[w] : pollReports' = [pollReports EXCEPT ![w] = page]
    BY <1>2 DEF PollAnswer
  <2>2. page \in SUBSET Task
    BY DEF TypeOK
  <2> QED  BY <1>2, <2>1, <2>2 DEF TypeOK, PollAnswer, tables, sender, env
<1>3. ASSUME NEW w \in Worker, PollFail(w) \/ PollLock(w) \/ PollDone(w) PROVE TypeOK'
  BY <1>3 DEF TypeOK, PollFail, PollLock, PollDone, tables, sender, env
<1>4. ASSUME NEW w \in Worker, PollUpdate(w) PROVE TypeOK'
  <2>1. PICK r \in pollReports[w] :
          /\ Known(r.id)
          /\ heap' = IF heap[taskDb[r.id]].state # r.state
                     THEN [heap EXCEPT ![taskDb[r.id]] = Refreshed(@, r)]
                     ELSE heap
          /\ Applied(w, r)
    BY <1>4 DEF PollUpdate
  <2>2. r \in Task
    BY DEF TypeOK
  <2>3. taskDb[r.id] \in 1 .. Len(heap)
    BY <2>1, <2>2 DEF TypeOK, Task, Known, Nil
  <2>4. Refreshed(heap[taskDb[r.id]], r) \in Task
    BY <2>2, <2>3, Pointer DEF Refreshed, Task
  <2>5. heap' \in Seq(Task) /\ Len(heap') = Len(heap)
    BY <2>1, <2>3, <2>4, ExceptSeq DEF TypeOK
  <2> QED  BY <1>4, <2>1, <2>5 DEF TypeOK, PollUpdate, Applied, tables, sender, env
<1>5. ASSUME NEW w \in Worker, PollAdopt(w) PROVE TypeOK'
  <2>1. PICK r \in pollReports[w] :
          /\ heap' = Append(heap, r)
          /\ taskDb' = [taskDb EXCEPT ![r.id] = Len(heap) + 1]
          /\ taskWorkerMap' = [taskWorkerMap EXCEPT ![r.id] = w]
          /\ InsertSorted(Append(heap, r), Len(heap) + 1)
          /\ workersTaskMap' = IF workersTaskMap[w][r.id] = 0
                               THEN [workersTaskMap EXCEPT ![w][r.id] = 1]
                               ELSE workersTaskMap
          /\ Applied(w, r)
    BY <1>5 DEF PollAdopt
  <2>2. r \in Task
    BY DEF TypeOK
  <2>3. /\ heap' \in Seq(Task)
        /\ Len(heap') \in Nat
        /\ 1 .. Len(heap) \subseteq 1 .. Len(heap')
        /\ 0 .. Len(heap) \subseteq 0 .. Len(heap')
        /\ Len(heap) + 1 \in 1 .. Len(heap')
    BY <2>1, <2>2, AllocateType, LenProperties
  <2>4. sortedTasks \in Seq(1 .. Len(heap')) /\ pendingTasks \in Seq(1 .. Len(heap'))
    BY <2>3, SeqMonotonic DEF TypeOK
  <2>5. sortedTasks' \in Seq(1 .. Len(heap'))
    BY <2>1, <2>3, <2>4, InsertSortedType
  <2>6. taskDb' \in [Id -> 0 .. Len(heap')]
    BY <2>1, <2>2, <2>3 DEF TypeOK, Task
  <2>7. /\ workersTaskMap' \in [Worker -> [Id -> Nat]]
        /\ taskWorkerMap' \in [Id -> Worker \cup {NoWorker}]
    BY <2>1, <2>2 DEF TypeOK, Task
  <2> QED  BY <1>5, <2>1, <2>3, <2>4, <2>5, <2>6, <2>7
           DEF TypeOK, PollAdopt, Applied, sender, env
<1> QED  BY <1>1, <1>2, <1>3, <1>4, <1>5 DEF PollStep

\* So do the cleanup and the environment.
LEMMA TypeRest ==
    ASSUME TypeOK, CleanUpTasks \/ EnvStep
    PROVE  TypeOK'
<1>1. CASE CleanUpTasks
  <2>1. PICK gone \in SUBSET Id :
          /\ Unassign(gone)
          /\ eventDb' = eventDb \ gone
          /\ taskDb' = [id \in Id |-> IF id \in gone THEN Nil ELSE taskDb[id]]
    BY <1>1 DEF CleanUpTasks
  <2>2. Len(heap) \in Nat
    BY LenProperties DEF TypeOK
  <2>3. taskDb' \in [Id -> 0 .. Len(heap)]
    BY <2>1, <2>2 DEF TypeOK, Nil
  <2>4. /\ workersTaskMap' \in [Worker -> [Id -> Nat]]
        /\ taskWorkerMap' \in [Id -> Worker \cup {NoWorker}]
    BY <2>1 DEF TypeOK, Unassign
  <2> QED  BY <1>1, <2>1, <2>3, <2>4 DEF TypeOK, CleanUpTasks, sender, poller, env
<1>2. CASE ManagerRestart
  BY <1>2, EmptySeq DEF TypeOK, ManagerRestart, SendIdle, NoTasks, NoAssignments,
                        NoLists, NoRequests, NoPolls, NoReports, Nil
<1>3. ASSUME NEW w \in Worker, WorkerStarts(w) PROVE TypeOK'
  <2>1. PICK id \in Id \ used, s \in Time, st \in {"Running", "Failed"} :
          /\ remote' = [remote EXCEPT ![w] = @ \cup {[id |-> id, state |-> st, start |-> s]}]
          /\ used' = used \cup {id}
          /\ UNCHANGED <<heap, tables, mu, sender, handler, poller, restarts>>
    BY <1>3 DEF WorkerStarts
  <2>2. [id |-> id, state |-> st, start |-> s] \in Task
    BY DEF Task, State
  <2> QED  BY <2>1, <2>2 DEF TypeOK, tables, sender, poller
<1>4. ASSUME NEW w \in Worker, WorkerEnds(w) PROVE TypeOK'
  <2>1. PICK r \in remote[w], st \in {"Completed", "Failed"} :
          /\ remote' = [remote EXCEPT ![w] = (@ \ {r}) \cup {[r EXCEPT !.state = st]}]
          /\ UNCHANGED <<heap, tables, mu, sender, handler, poller, used, restarts>>
    BY <1>4 DEF WorkerEnds
  <2>2. r \in Task
    BY DEF TypeOK
  <2>3. [r EXCEPT !.state = st] \in Task
    BY <2>2 DEF Task, State
  <2> QED  BY <2>1, <2>2, <2>3 DEF TypeOK, tables, sender, poller
<1>5. ASSUME NEW w \in Worker, WorkerRestarts(w) PROVE TypeOK'
  BY <1>5 DEF TypeOK, WorkerRestarts, tables, sender, poller
<1> QED  BY <1>1, <1>2, <1>3, <1>4, <1>5 DEF EnvStep

\* No step of the manager or of its environment breaks a type.
LEMMA TypeNext == TypeOK /\ [Next]_vars => TypeOK'
<1> SUFFICES ASSUME TypeOK, [Next]_vars PROVE TypeOK'
  OBVIOUS
<1>1. CASE Next
  BY <1>1, TypeHandler, TypeSend, TypePoll, TypeRest DEF Next, HandlerStep
<1>2. CASE UNCHANGED vars
  BY <1>2 DEF TypeOK, vars, tables, sender, poller, env
<1> QED  BY <1>1, <1>2

\* Every variable keeps its type: in particular a pointer always points to a
\* task object, so no nil task is ever dequeued, listed or looked up.
THEOREM TypeCorrect == Spec => []TypeOK
BY TypeInit, TypeNext, PTL DEF Spec

-----------------------------------------------------------------------------
(* The inductive invariant.  SortedByStart survives updateTasks' write of  *)
(* StartTime only because no two accounts of an id disagree on it; that in *)
(* turn needs ids that were issued once; and SendCreated files sendTask in *)
(* TaskDb again, so what the queue and the send loop hold must be listed.  *)

HasEntry(id) == \E i \in DOMAIN sortedTasks : heap[sortedTasks[i]].id = id

AccountsIssued == \A a \in Accounts : a.id \in used

HeldIsListed ==
    /\ \A i \in DOMAIN pendingTasks : HasEntry(heap[pendingTasks[i]].id)
    /\ sendTask # Nil => HasEntry(heap[sendTask].id)

\* The part of the invariant about the tables.
Tabled == SortedByStart /\ EveryTaskListed /\ HeldIsListed /\ IndexesAgree

IInv == TypeOK /\ AccountsIssued /\ StartTimesAgree /\ Tabled

-----------------------------------------------------------------------------
(* What a step may do to the heap and to the list.                         *)

\* Objects stay where they are and keep their id and StartTime.
Keeps ==
    /\ Len(heap) <= Len(heap')
    /\ \A p \in 1 .. Len(heap) : heap'[p].id = heap[p].id /\ heap'[p].start = heap[p].start

\* The list is as sorted as it was and has an entry for every id it had.
ListKeeps ==
    /\ SortedByStart => SortedByStart'
    /\ \A id \in Id : HasEntry(id) => HasEntry(id)'

\* An entry of the list points to a task object.
LEMMA Entry ==
    ASSUME TypeOK, NEW i \in DOMAIN sortedTasks
    PROVE  /\ Len(sortedTasks) \in Nat
           /\ DOMAIN sortedTasks = 1 .. Len(sortedTasks)
           /\ sortedTasks[i] \in 1 .. Len(heap)
<1>1. sortedTasks \in Seq(1 .. Len(heap))
  BY DEF TypeOK
<1> QED  BY <1>1, LenProperties, ElementOfSeq

\* Writing a state, or nothing, keeps the objects.
LEMMA SetStateKeeps ==
    ASSUME TypeOK, NEW p \in 1 .. Len(heap), NEW s \in State, SetState(p, s)
    PROVE  Keeps
<1>1. heap[p] \in Task /\ Len(heap) \in Nat
  BY Pointer
<1>2. [heap[p] EXCEPT !.state = s] \in Task
  BY <1>1 DEF Task
<1>3. heap' = [heap EXCEPT ![p] = [heap[p] EXCEPT !.state = s]]
  BY DEF SetState
<1>4. /\ Len(heap') = Len(heap)
      /\ \A q \in 1 .. Len(heap) :
            heap'[q] = IF q = p THEN [heap[p] EXCEPT !.state = s] ELSE heap[q]
  BY <1>2, <1>3, ExceptSeq DEF TypeOK
<1> QED  BY <1>1, <1>4 DEF Keeps, Task

\* Allocating an object keeps the others.
LEMMA AllocateKeeps ==
    ASSUME TypeOK, NEW t \in Task, heap' = Append(heap, t)
    PROVE  Keeps /\ heap'[Len(heap) + 1] = t
<1>1. Len(heap) \in Nat
  BY LenProperties DEF TypeOK
<1>2. /\ Len(heap') = Len(heap) + 1
      /\ \A q \in 1 .. Len(heap) : heap'[q] = heap[q]
      /\ heap'[Len(heap) + 1] = t
  BY AppendProperties DEF TypeOK
<1> QED  BY <1>1, <1>2 DEF Keeps

\* A step that leaves the list alone and keeps the objects keeps the list.
LEMMA SameList ==
    ASSUME TypeOK, Keeps, sortedTasks' = sortedTasks
    PROVE  ListKeeps
<1>1. \A i \in DOMAIN sortedTasks :
        /\ heap'[sortedTasks[i]].id = heap[sortedTasks[i]].id
        /\ heap'[sortedTasks[i]].start = heap[sortedTasks[i]].start
  BY Entry DEF Keeps
<1> QED  BY <1>1 DEF ListKeeps, SortedByStart, HasEntry

\* Replacing an entry by another object of the same task keeps the list.
LEMMA ReplacedEntry ==
    ASSUME TypeOK, heap' = heap, NEW p \in 1 .. Len(heap), NEW i \in DOMAIN sortedTasks,
           heap[sortedTasks[i]].id = heap[p].id,
           heap[sortedTasks[i]].start = heap[p].start,
           sortedTasks' = [sortedTasks EXCEPT ![i] = p]
    PROVE  ListKeeps /\ HasEntry(heap[p].id)'
<1>1. DOMAIN sortedTasks' = DOMAIN sortedTasks
  OBVIOUS
<1>2. \A j \in DOMAIN sortedTasks :
        /\ heap'[sortedTasks'[j]].id = heap[sortedTasks[j]].id
        /\ heap'[sortedTasks'[j]].start = heap[sortedTasks[j]].start
  OBVIOUS
<1>3. ListKeeps
  BY <1>1, <1>2 DEF ListKeeps, SortedByStart, HasEntry
<1>4. sortedTasks'[i] = p
  OBVIOUS
<1> QED  BY <1>1, <1>3, <1>4 DEF HasEntry

\* Inserting a task where IsInsertPoint allows keeps the list and lists the task.
LEMMA InsertedEntry ==
    ASSUME TypeOK, Keeps, NEW h, heap' = h, h \in Seq(Task),
           NEW p \in 1 .. Len(h), InsertSorted(h, p)
    PROVE  ListKeeps /\ HasEntry(h[p].id)'
<1> DEFINE n == Len(sortedTasks)
           start(j) == h[sortedTasks[j]].start
<1>1. PICK i \in 1 .. Len(sortedTasks) + 1 :
        IsInsertPoint(h, i, h[p]) /\ sortedTasks' = InsertAt(sortedTasks, i, p)
  BY DEF InsertSorted
<1>2. /\ n \in Nat /\ Len(heap) \in Nat /\ Len(h) \in Nat
      /\ DOMAIN sortedTasks = 1 .. n
      /\ sortedTasks \in Seq(1 .. Len(heap))
      /\ \A j \in 1 .. n : sortedTasks[j] \in 1 .. Len(heap)
  <2>1. sortedTasks \in Seq(1 .. Len(heap)) /\ heap \in Seq(Task)
    BY DEF TypeOK
  <2>2. n \in Nat /\ DOMAIN sortedTasks = 1 .. n
    BY <2>1, LenProperties
  <2>3. Len(heap) \in Nat /\ Len(h) \in Nat
    BY <2>1, LenProperties
  <2>4. \A j \in 1 .. n : sortedTasks[j] \in 1 .. Len(heap)
    BY <2>1, ElementOfSeq
  <2> QED  BY <2>1, <2>2, <2>3, <2>4
<1>3. /\ sortedTasks \in Seq(1 .. Len(h))
      /\ \A j \in 1 .. n : sortedTasks[j] \in 1 .. Len(h)
  <2>1. 1 .. Len(heap) \subseteq 1 .. Len(h)
    BY <1>2 DEF Keeps
  <2> QED  BY <1>2, <2>1, SeqMonotonic
<1>4. /\ DOMAIN sortedTasks' = 1 .. n + 1
      /\ \A j \in 1 .. i - 1 : sortedTasks'[j] = sortedTasks[j]
      /\ sortedTasks'[i] = p
      /\ \A j \in i + 1 .. n + 1 : sortedTasks'[j] = sortedTasks[j - 1]
  <2>1. /\ sortedTasks' \in Seq(1 .. Len(h))
        /\ Len(sortedTasks') = n + 1
        /\ \A j \in 1 .. i - 1 : sortedTasks'[j] = sortedTasks[j]
        /\ sortedTasks'[i] = p
        /\ \A j \in i + 1 .. n + 1 : sortedTasks'[j] = sortedTasks[j - 1]
    <3>1. /\ sortedTasks' \in Seq(1 .. Len(h))
          /\ IsInsertion(sortedTasks', sortedTasks, i, p)
      BY <1>1, <1>3, InsertAtIs
    <3> QED  BY <3>1 DEF IsInsertion
  <2> QED  BY <2>1, LenProperties
<1>5. \A j \in 1 .. n : /\ h[sortedTasks[j]].id = heap[sortedTasks[j]].id
                        /\ start(j) = heap[sortedTasks[j]].start
  BY <1>2 DEF Keeps
<1>6. /\ h[p].start \in Int
      /\ \A j \in 1 .. n : start(j) \in Int
  <2>1. \A q \in 1 .. Len(h) : h[q] \in Task
    BY ElementOfSeq
  <2> QED  BY <1>3, <2>1, ManagerAssumption DEF Task
<1>7. SortedByStart => SortedByStart'
  <2> SUFFICES ASSUME SortedByStart,
                      NEW j \in 1 .. n + 1, NEW k \in 1 .. n + 1, j < k
               PROVE  h[sortedTasks'[j]].start <= h[sortedTasks'[k]].start
    BY <1>4 DEF SortedByStart
  <2>1. \A a, b \in 1 .. n : a < b => start(a) <= start(b)
    BY <1>2, <1>5 DEF SortedByStart
  <2>2. /\ i > 1 => start(i - 1) <= h[p].start
        /\ i <= n => h[p].start < start(i)
    BY <1>1, <1>2 DEF IsInsertPoint
  <2>3. /\ j < i => sortedTasks'[j] = sortedTasks[j] /\ j \in 1 .. n
        /\ j = i => sortedTasks'[j] = p
        /\ j > i => sortedTasks'[j] = sortedTasks[j - 1] /\ j - 1 \in 1 .. n
        /\ k < i => sortedTasks'[k] = sortedTasks[k] /\ k \in 1 .. n
        /\ k = i => sortedTasks'[k] = p
        /\ k > i => sortedTasks'[k] = sortedTasks[k - 1] /\ k - 1 \in 1 .. n
    BY <1>2, <1>4
  <2> DEFINE new(a) == h[sortedTasks'[a]].start
  <2>4. /\ j < i => new(j) = start(j)
        /\ j = i => new(j) = h[p].start
        /\ j > i => new(j) = start(j - 1)
        /\ k < i => new(k) = start(k)
        /\ k = i => new(k) = h[p].start
        /\ k > i => new(k) = start(k - 1)
    BY <2>3
  <2> HIDE DEF new, start
  <2>5. new(j) <= new(k)
    <3>1. CASE k < i
      <4>1. j \in 1 .. n /\ k \in 1 .. n /\ j < i
        BY <1>2, <3>1
      <4> QED  BY <2>1, <2>4, <3>1, <4>1
    <3>2. CASE k = i
      <4>1. j \in 1 .. n /\ i - 1 \in 1 .. n /\ j < i /\ i > 1
        BY <1>2, <3>2
      <4>2. start(j) <= start(i - 1)
        <5>1. CASE j = i - 1
          BY <1>6, <4>1, <5>1
        <5>2. CASE j < i - 1
          BY <2>1, <4>1, <5>2
        <5> QED  BY <4>1, <5>1, <5>2
      <4> QED  BY <1>6, <2>2, <2>4, <3>2, <4>1, <4>2
    <3>3. CASE k > i /\ j = i
      <4>1. i \in 1 .. n /\ k - 1 \in 1 .. n
        BY <1>2, <3>3
      <4>2. start(i) <= start(k - 1)
        <5>1. CASE i = k - 1
          BY <1>6, <4>1, <5>1
        <5>2. CASE i < k - 1
          BY <2>1, <4>1, <5>2
        <5> QED  BY <3>3, <4>1, <5>1, <5>2
      <4> QED  BY <1>6, <2>2, <2>4, <3>3, <4>1, <4>2
    <3>4. CASE k > i /\ j < i
      <4>1. j \in 1 .. n /\ k - 1 \in 1 .. n /\ j < k - 1
        BY <1>2, <3>4
      <4>2. start(j) <= start(k - 1)
        BY <2>1, <4>1
      <4> QED  BY <2>4, <3>4, <4>2
    <3>5. CASE k > i /\ j > i
      <4>1. j - 1 \in 1 .. n /\ k - 1 \in 1 .. n /\ j - 1 < k - 1
        BY <1>2, <3>5
      <4>2. start(j - 1) <= start(k - 1)
        BY <2>1, <4>1
      <4> QED  BY <2>4, <3>5, <4>2
    <3> QED  BY <1>2, <3>1, <3>2, <3>3, <3>4, <3>5
  <2> QED  BY <2>5 DEF new
<1>8. ASSUME NEW id \in Id, HasEntry(id) PROVE HasEntry(id)'
  <2>1. PICK j \in 1 .. n : heap[sortedTasks[j]].id = id
    BY <1>2, <1>8 DEF HasEntry
  <2>2. \E k \in 1 .. n + 1 : sortedTasks'[k] = sortedTasks[j]
    <3>1. CASE j < i
      BY <1>2, <1>4, <3>1
    <3>2. CASE j >= i
      <4>1. j + 1 \in 1 .. n + 1 /\ j + 1 > i /\ (j + 1) - 1 = j
        BY <1>2, <3>2
      <4>2. sortedTasks'[j + 1] = sortedTasks[(j + 1) - 1]
        BY <1>2, <1>4, <3>2, <4>1
      <4> QED  BY <4>1, <4>2
    <3> QED  BY <1>2, <3>1, <3>2
  <2> QED  BY <1>4, <1>5, <2>1, <2>2 DEF HasEntry
<1>9. HasEntry(h[p].id)'
  <2>1. i \in 1 .. n + 1 /\ sortedTasks'[i] = p
    BY <1>2, <1>4
  <2> QED  BY <1>4, <2>1 DEF HasEntry
<1> QED  BY <1>7, <1>8, <1>9 DEF ListKeeps

-----------------------------------------------------------------------------
(* Accounts of a task.                                                     *)

\* Some account there is already says of its task what a says.
Vouched(a) == \E b \in Accounts : a.id = b.id /\ a.start = b.start

\* An id this step issues, and the StartTime it is issued with.
Issues(id, s, a) == id \in used' \ used /\ a.id = id /\ a.start = s

\* A step that only repeats accounts, or makes those of one new id, keeps them.
LEMMA AccountsStep ==
    ASSUME AccountsIssued, StartTimesAgree, used \subseteq used', NEW id, NEW s,
           \A p \in DOMAIN heap' : Vouched(heap'[p]) \/ Issues(id, s, heap'[p]),
           \A w \in Worker : \A a \in remote'[w] \cup pollReports'[w] :
              Vouched(a) \/ Issues(id, s, a)
    PROVE  AccountsIssued' /\ StartTimesAgree'
<1>1. \A a \in Accounts' : Vouched(a) \/ Issues(id, s, a)
  BY DEF Accounts
<1>2. AccountsIssued'
  BY <1>1 DEF AccountsIssued, Vouched, Issues
<1>3. ASSUME NEW a \in Accounts', NEW b \in Accounts', a.id = b.id
      PROVE  a.start = b.start
  <2>1. CASE Vouched(a) /\ Vouched(b)
    BY <1>3, <2>1 DEF Vouched, StartTimesAgree
  <2>2. CASE Issues(id, s, a) /\ Issues(id, s, b)
    BY <2>2 DEF Issues
  <2>3. ~(Vouched(a) /\ Issues(id, s, b)) /\ ~(Vouched(b) /\ Issues(id, s, a))
    BY <1>3 DEF Vouched, Issues, AccountsIssued
  <2> QED  BY <1>1, <2>1, <2>2, <2>3
<1> QED  BY <1>2, <1>3 DEF StartTimesAgree

\* Objects that are kept are vouched for, and so is what a worker says twice.
LEMMA VouchedObject ==
    ASSUME TypeOK, Keeps, NEW p \in 1 .. Len(heap)
    PROVE  Vouched(heap'[p])
<1>1. DOMAIN heap = 1 .. Len(heap)
  BY LenProperties DEF TypeOK
<1> QED  BY <1>1 DEF Keeps, Vouched, Accounts

\* What a worker reports, now or in an answer still in flight, is vouched for.
LEMMA VouchedReport ==
    ASSUME NEW w \in Worker, NEW a \in remote[w] \cup pollReports[w]
    PROVE  Vouched(a)
BY DEF Vouched, Accounts

\* Most steps allocate no object and invent no report.
LEMMA AccountsRepeated ==
    ASSUME TypeOK, AccountsIssued, StartTimesAgree, used' = used, Keeps,
           heap' \in Seq(Task), Len(heap') = Len(heap),
           \A w \in Worker : remote'[w] \cup pollReports'[w]
                                \subseteq remote[w] \cup pollReports[w]
    PROVE  AccountsIssued' /\ StartTimesAgree'
<1>1. DOMAIN heap' = 1 .. Len(heap)
  BY LenProperties
<1>2. \A p \in DOMAIN heap' : Vouched(heap'[p])
  BY <1>1, VouchedObject
<1>3. \A w \in Worker : \A a \in remote'[w] \cup pollReports'[w] : Vouched(a)
  BY VouchedReport
<1> QED  BY <1>2, <1>3, AccountsStep

-----------------------------------------------------------------------------
(* The list, the queue and the indexes.                                    *)

\* A pointer the tables or the send loop hold points to an object.
LEMMA HeldPointers ==
    ASSUME TypeOK
    PROVE  /\ \A i \in DOMAIN pendingTasks : pendingTasks[i] \in 1 .. Len(heap)
           /\ sendTask # Nil => sendTask \in 1 .. Len(heap)
           /\ \A id \in Id : Known(id) => taskDb[id] \in 1 .. Len(heap)
<1>1. pendingTasks \in Seq(1 .. Len(heap))
  BY DEF TypeOK
<1>2. \A i \in DOMAIN pendingTasks : pendingTasks[i] \in 1 .. Len(heap)
  BY <1>1, LenProperties, ElementOfSeq
<1>3. Len(heap) \in Nat
  BY LenProperties DEF TypeOK
<1> QED  BY <1>2, <1>3 DEF TypeOK, Known, Nil

\* A step that keeps the objects and touches no table keeps the tables right.
LEMMA QuietStep ==
    ASSUME TypeOK, Tabled, Keeps, UNCHANGED tables, sendTask' \in {sendTask, Nil}
    PROVE  Tabled'
<1>1. ListKeeps
  BY SameList DEF tables
<1>2. SortedByStart'
  BY <1>1 DEF ListKeeps, Tabled
<1>3. EveryTaskListed'
  BY <1>1 DEF ListKeeps, Tabled, EveryTaskListed, HasEntry, Known, tables
<1>4. HeldIsListed'
  <2>1. ASSUME NEW p \in 1 .. Len(heap), HasEntry(heap[p].id)
        PROVE  HasEntry(heap[p].id)'
    <3>1. heap[p].id \in Id /\ heap'[p].id = heap[p].id
      BY Pointer DEF Keeps
    <3> QED  BY <1>1, <2>1, <3>1 DEF ListKeeps, HasEntry
  <2>2. \A i \in DOMAIN pendingTasks : HasEntry(heap[pendingTasks[i]].id)'
    <3>1. ASSUME NEW i \in DOMAIN pendingTasks
          PROVE  HasEntry(heap[pendingTasks[i]].id)'
      <4>1. pendingTasks[i] \in 1 .. Len(heap) /\ pendingTasks'[i] = pendingTasks[i]
        BY HeldPointers DEF tables
      <4> QED  BY <2>1, <4>1 DEF Tabled, HeldIsListed, HasEntry
    <3> QED  BY <3>1
  <2>3. sendTask' # Nil => HasEntry(heap[sendTask].id)'
    <3>1. CASE sendTask' # Nil
      <4>1. sendTask' = sendTask /\ sendTask \in 1 .. Len(heap) /\ HasEntry(heap[sendTask].id)
        BY <3>1, HeldPointers DEF Tabled, HeldIsListed
      <4> QED  BY <2>1, <4>1 DEF HasEntry
    <3> QED  BY <3>1
  <2> QED  BY <2>2, <2>3 DEF HeldIsListed, HasEntry, tables
<1>5. IndexesAgree'
  BY HeldPointers DEF Tabled, IndexesAgree, Known, Keeps, tables
<1> QED  BY <1>2, <1>3, <1>4, <1>5 DEF Tabled

\* What is queued, or held by the send loop, is still listed if the list is kept.
LEMMA HeldKept ==
    ASSUME TypeOK, Tabled, Keeps, ListKeeps
    PROVE  /\ \A i \in DOMAIN pendingTasks :
                 \E j \in DOMAIN sortedTasks' :
                    heap'[sortedTasks'[j]].id = heap'[pendingTasks[i]].id
           /\ sendTask # Nil =>
                 \E j \in DOMAIN sortedTasks' :
                    heap'[sortedTasks'[j]].id = heap'[sendTask].id
<1>1. ASSUME NEW p \in 1 .. Len(heap), HasEntry(heap[p].id)
      PROVE  \E j \in DOMAIN sortedTasks' : heap'[sortedTasks'[j]].id = heap'[p].id
  <2>1. heap[p].id \in Id /\ heap'[p].id = heap[p].id
    BY Pointer DEF Keeps
  <2> QED  BY <1>1, <2>1 DEF ListKeeps, HasEntry
<1> QED  BY <1>1, HeldPointers DEF Tabled, HeldIsListed

\* AddTask keeps the tables right: it lists the task it queues and files, and
\* the entry it may replace has the same StartTime.
LEMMA AddTaskTables ==
    ASSUME TypeOK, StartTimesAgree, Tabled, UNCHANGED heap,
           NEW p \in 1 .. Len(heap), AddTask(p), sendTask' \in {sendTask, Nil}
    PROVE  Tabled'
<1>1. Keeps
  BY LenProperties DEF TypeOK, Keeps
<1>2. heap[p].id \in Id
  BY Pointer
<1>3. ListKeeps /\ HasEntry(heap[p].id)'
  <2>1. CASE \E i \in DOMAIN sortedTasks :
               /\ ListedAt(heap[p].id, i)
               /\ sortedTasks' = [sortedTasks EXCEPT ![i] = p]
    <3>1. PICK i \in DOMAIN sortedTasks :
            /\ heap[sortedTasks[i]].id = heap[p].id
            /\ sortedTasks' = [sortedTasks EXCEPT ![i] = p]
      BY <2>1 DEF ListedAt
    <3>2. heap[sortedTasks[i]] \in Accounts /\ heap[p] \in Accounts
      <4>1. DOMAIN heap = 1 .. Len(heap)
        BY LenProperties DEF TypeOK
      <4> QED  BY <4>1, Entry DEF Accounts
    <3>3. heap[sortedTasks[i]].start = heap[p].start
      BY <3>1, <3>2 DEF StartTimesAgree
    <3>4. ListKeeps /\ HasEntry(heap[p].id)'
      BY <3>1, <3>3, ReplacedEntry
    <3> QED  BY <3>4
  <2>2. CASE InsertSorted(heap, p)
    <3>1. heap \in Seq(Task)
      BY DEF TypeOK
    <3>2. ListKeeps /\ HasEntry(heap[p].id)'
      BY <1>1, <2>2, <3>1, InsertedEntry
    <3> QED  BY <3>2
  <2> QED  BY <2>1, <2>2 DEF AddTask, List
<1>4. SortedByStart'
  BY <1>3 DEF ListKeeps, Tabled
<1>5. EveryTaskListed'
  <2>1. ASSUME NEW id \in Id, taskDb'[id] # Nil PROVE HasEntry(id)'
    <3>1. CASE id = heap[p].id
      BY <1>3, <3>1 DEF HasEntry
    <3>2. CASE id # heap[p].id
      <4>1. Known(id)
        BY <1>2, <2>1, <3>2 DEF AddTask, Known, TypeOK
      <4> QED  BY <1>3, <4>1 DEF ListKeeps, Tabled, EveryTaskListed, HasEntry
    <3> QED  BY <3>1, <3>2
  <2> QED  BY <2>1 DEF EveryTaskListed, HasEntry, Known
<1>6. HeldIsListed'
  <2>1. ASSUME NEW i \in DOMAIN pendingTasks' PROVE HasEntry(heap[pendingTasks[i]].id)'
    <3>1. /\ pendingTasks \in Seq(1 .. Len(heap))
          /\ pendingTasks' = Append(pendingTasks, p)
      BY DEF TypeOK, AddTask, Enqueue
    <3>2. \/ i \in DOMAIN pendingTasks /\ pendingTasks'[i] = pendingTasks[i]
          \/ pendingTasks'[i] = p
      BY <3>1, AppendProperties, LenProperties
    <3> QED  BY <1>1, <1>3, <3>2, HeldKept DEF HasEntry
  <2>2. sendTask' # Nil => HasEntry(heap[sendTask].id)'
    BY <1>1, <1>3, HeldKept DEF HasEntry
  <2> QED  BY <2>1, <2>2 DEF HeldIsListed
<1>7. IndexesAgree'
  <2>1. p # Nil
    BY DEF Nil
  <2>2. \A id \in Id : taskDb'[id] = IF id = heap[p].id THEN p ELSE taskDb[id]
    BY <1>2 DEF TypeOK, AddTask
  <2> QED  BY <2>1, <2>2 DEF Tabled, IndexesAgree, Known, AddTask
<1> QED  BY <1>4, <1>5, <1>6, <1>7 DEF Tabled

-----------------------------------------------------------------------------
(* Every step keeps the invariant.                                         *)

\* The empty tables and the empty reports satisfy the invariant.
LEMMA InvInit == Init => IInv
<1> SUFFICES ASSUME Init PROVE IInv
  OBVIOUS
<1>1. TypeOK
  BY TypeInit
<1>2. AccountsIssued /\ StartTimesAgree
  <2>1. Accounts = {}
    BY DEF Init, Accounts, NoReports
  <2> QED  BY <2>1 DEF AccountsIssued, StartTimesAgree
<1>3. Tabled
  BY DEF Init, Tabled, SortedByStart, EveryTaskListed, HeldIsListed, IndexesAgree,
         Known, NoTasks, NoAssignments
<1> QED  BY <1>1, <1>2, <1>3 DEF IInv

\* A step that allocates an object for a report, or for an id it issues.
LEMMA AccountsAllocated ==
    ASSUME TypeOK, AccountsIssued, StartTimesAgree, used \subseteq used',
           NEW t \in Task, heap' = Append(heap, t), NEW id, NEW s,
           Vouched(t) \/ Issues(id, s, t),
           \A w \in Worker : remote'[w] \cup pollReports'[w]
                                \subseteq remote[w] \cup pollReports[w]
    PROVE  AccountsIssued' /\ StartTimesAgree'
<1>1. heap' \in Seq(Task) /\ Len(heap') = Len(heap) + 1 /\ Len(heap) \in Nat
  BY AllocateType, LenProperties DEF TypeOK
<1>2. DOMAIN heap' = 1 .. Len(heap) + 1
  BY <1>1, LenProperties
<1>3. Keeps /\ heap'[Len(heap) + 1] = t
  BY AllocateKeeps
<1>4. \A p \in DOMAIN heap' : Vouched(heap'[p]) \/ Issues(id, s, heap'[p])
  <2>1. ASSUME NEW p \in DOMAIN heap' PROVE Vouched(heap'[p]) \/ Issues(id, s, heap'[p])
    <3>1. p \in 1 .. Len(heap) \/ p = Len(heap) + 1
      BY <1>1, <1>2
    <3> QED  BY <1>3, <3>1, VouchedObject
  <2> QED  BY <2>1
<1>5. \A w \in Worker : \A a \in remote'[w] \cup pollReports'[w] : Vouched(a)
  BY VouchedReport
<1> QED  BY <1>4, <1>5, AccountsStep

\* The HTTP handlers.
LEMMA InvHandler ==
    ASSUME IInv, NEW h \in Handler, StartTask(h) \/ StopTask(h) \/ HandlerAddTask(h)
    PROVE  IInv'
<1>1. TypeOK /\ AccountsIssued /\ StartTimesAgree /\ Tabled
  BY DEF IInv
<1>2. TypeOK'
  BY <1>1, TypeHandler
<1>3. CASE StartTask(h)
  <2>1. PICK id \in Id \ used, s \in Time :
          /\ heap' = Append(heap, [id |-> id, state |-> "Pending", start |-> s])
          /\ used' = used \cup {id}
    BY <1>3 DEF StartTask
  <2> DEFINE t == [id |-> id, state |-> "Pending", start |-> s]
  <2>2. t \in Task /\ t.id = id /\ t.start = s
    BY DEF Task, State
  <2>3. UNCHANGED <<tables, sendTask, remote, pollReports>>
    BY <1>3 DEF StartTask, sender, poller
  <2>4. heap' = Append(heap, t)
    BY <2>1
  <2> HIDE DEF t
  <2>5. Issues(id, s, t)
    BY <2>1, <2>2 DEF Issues
  <2>6. AccountsIssued' /\ StartTimesAgree'
    BY <1>1, <2>1, <2>2, <2>3, <2>4, <2>5, AccountsAllocated
  <2>7. Tabled'
    BY <1>1, <2>2, <2>3, <2>4, AllocateKeeps, QuietStep
  <2> QED  BY <1>2, <2>6, <2>7 DEF IInv
<1>4. CASE StopTask(h)
  <2>1. PICK id \in Id : Known(id) /\ SetState(taskDb[id], "Completed")
    BY <1>4 DEF StopTask
  <2>2. taskDb[id] \in 1 .. Len(heap) /\ "Completed" \in State
    BY <1>1, <2>1, HeldPointers DEF State
  <2>3. Keeps /\ heap' \in Seq(Task) /\ Len(heap') = Len(heap)
    BY <1>1, <2>1, <2>2, SetStateKeeps, SetStateType
  <2>4. UNCHANGED <<tables, sendTask, remote, pollReports, used>>
    BY <1>4 DEF StopTask, sender, poller, env
  <2>5. AccountsIssued' /\ StartTimesAgree'
    BY <1>1, <2>3, <2>4, AccountsRepeated
  <2>6. Tabled'
    BY <1>1, <2>3, <2>4, QuietStep
  <2> QED  BY <1>2, <2>5, <2>6 DEF IInv
<1>5. CASE HandlerAddTask(h)
  <2>1. handler[h] \in 1 .. Len(heap)
    BY <1>1, <1>5 DEF TypeOK, HandlerAddTask, Nil
  <2>2. UNCHANGED <<heap, sendTask, remote, pollReports, used>> /\ AddTask(handler[h])
    BY <1>5 DEF HandlerAddTask, sender, poller, env
  <2>3. Keeps /\ heap' \in Seq(Task)
    BY <1>1, <2>2, LenProperties DEF TypeOK, Keeps
  <2>4. AccountsIssued' /\ StartTimesAgree'
    BY <1>1, <2>2, <2>3, AccountsRepeated
  <2>5. Tabled'
    BY <1>1, <2>1, <2>2, AddTaskTables
  <2> QED  BY <1>2, <2>4, <2>5 DEF IInv
<1> QED  BY <1>3, <1>4, <1>5

\* SendWork.
LEMMA InvSend ==
    ASSUME IInv, SendStep
    PROVE  IInv'
<1>1. TypeOK /\ AccountsIssued /\ StartTimesAgree /\ Tabled
  BY DEF IInv
<1>2. TypeOK'
  BY <1>1, TypeSend
<1>3. ASSUME UNCHANGED heap PROVE Keeps /\ heap' \in Seq(Task)
  BY <1>1, <1>3, LenProperties DEF TypeOK, Keeps
<1>4. ASSUME UNCHANGED <<heap, remote, pollReports, used>>
      PROVE  AccountsIssued' /\ StartTimesAgree'
  BY <1>1, <1>3, <1>4, AccountsRepeated
<1>5. CASE SendDequeue
  <2>1. /\ UNCHANGED <<heap, taskDb, sortedTasks, eventDb, workersTaskMap, taskWorkerMap>>
        /\ UNCHANGED <<remote, pollReports, used>>
        /\ pendingTasks # <<>>
        /\ sendTask' = Head(pendingTasks)
        /\ pendingTasks' = Tail(pendingTasks)
    BY <1>5 DEF SendDequeue, poller, env
  <2>2. pendingTasks \in Seq(1 .. Len(heap)) /\ Len(pendingTasks) \in Nat
    BY <1>1, LenProperties DEF TypeOK
  <2>3. sendTask' = pendingTasks[1] /\ 1 \in DOMAIN pendingTasks
    BY <2>1, <2>2, LenProperties, EmptySeq
  <2>4. \A i \in DOMAIN pendingTasks' :
           i + 1 \in DOMAIN pendingTasks /\ pendingTasks'[i] = pendingTasks[i + 1]
    BY <2>1, <2>2, HeadTailProperties, LenProperties
  <2>5. HeldIsListed'
    BY <1>1, <2>1, <2>3, <2>4 DEF Tabled, HeldIsListed, HasEntry
  <2>6. Tabled'
    BY <1>1, <2>1, <2>5
       DEF Tabled, SortedByStart, EveryTaskListed, IndexesAgree, Known
  <2> QED  BY <1>2, <1>4, <2>1, <2>6 DEF IInv
<1>6. CASE SendNoWorker \/ SendUnreadable
  <2>1. UNCHANGED <<heap, tables, remote, pollReports, used>> /\ sendTask' = Nil
    BY <1>6 DEF SendNoWorker, SendUnreadable, SendIdle, poller, env
  <2>2. Tabled'
    BY <1>1, <1>3, <2>1, QuietStep
  <2> QED  BY <1>2, <1>4, <2>1, <2>2 DEF IInv
<1>7. ASSUME NEW w \in Worker, SendSchedule(w) PROVE IInv'
  <2>1. /\ UNCHANGED <<tables, sendTask, remote, pollReports, used>>
        /\ SetState(sendTask, "Scheduled")
    BY <1>7 DEF SendSchedule, poller, env
  <2>2. sendTask \in 1 .. Len(heap) /\ "Scheduled" \in State
    BY <1>1, <1>7 DEF TypeOK, SendSchedule, Nil, State
  <2>3. Keeps /\ heap' \in Seq(Task) /\ Len(heap') = Len(heap)
    BY <1>1, <2>1, <2>2, SetStateKeeps, SetStateType
  <2>4. AccountsIssued' /\ StartTimesAgree'
    BY <1>1, <2>1, <2>3, AccountsRepeated
  <2>5. Tabled'
    BY <1>1, <2>1, <2>3, QuietStep
  <2> QED  BY <1>2, <2>4, <2>5 DEF IInv
<1>8. CASE SendCreated
  <2> DEFINE id == heap[sendTask].id
  <2>1. /\ UNCHANGED <<heap, sortedTasks, pendingTasks, remote, pollReports, used>>
        /\ eventDb' = eventDb \cup {id}
        /\ workersTaskMap' = [workersTaskMap EXCEPT ![sendTo][id] = @ + 1]
        /\ taskWorkerMap' = [taskWorkerMap EXCEPT ![id] = sendTo]
        /\ taskDb' = [taskDb EXCEPT ![id] = sendTask]
        /\ sendTask' = Nil
    BY <1>8 DEF SendCreated, SendIdle, poller, env
  <2>2. sendTask \in 1 .. Len(heap) /\ sendTo \in Worker /\ sendTask # Nil
    BY <1>1, <1>8 DEF TypeOK, SendCreated, Nil
  <2>3. id \in Id /\ HasEntry(id)
    BY <1>1, <2>2, Pointer DEF Tabled, HeldIsListed
  <2>4. \A x \in Id : taskDb'[x] = IF x = id THEN sendTask ELSE taskDb[x]
    BY <1>1, <2>1, <2>3 DEF TypeOK
  <2>5. EveryTaskListed'
    BY <1>1, <2>1, <2>3, <2>4 DEF Tabled, EveryTaskListed, HasEntry, Known
  <2>6. IndexesAgree'
    <3>1. \A x \in Id : taskWorkerMap'[x] = IF x = id THEN sendTo ELSE taskWorkerMap[x]
      BY <1>1, <2>1, <2>3 DEF TypeOK
    <3>2. /\ workersTaskMap'[sendTo][id] > 0
          /\ \A w \in Worker, x \in Id : workersTaskMap[w][x] > 0 => workersTaskMap'[w][x] > 0
      BY <1>1, <2>1, <2>2, <2>3 DEF TypeOK
    <3> HIDE DEF id
    <3>3. ASSUME NEW x \in Id
          PROVE  /\ taskDb'[x] # Nil => heap'[taskDb'[x]].id = x
                 /\ taskWorkerMap'[x] # NoWorker =>
                       taskDb'[x] # Nil /\ workersTaskMap'[taskWorkerMap'[x]][x] > 0
                 /\ x \in eventDb' => taskWorkerMap'[x] # NoWorker
      <4>1. CASE x = id
        BY <2>1, <2>2, <2>4, <3>1, <3>2, <4>1, ManagerAssumption DEF id
      <4>2. CASE x # id
        BY <1>1, <2>1, <2>4, <3>1, <3>2, <4>2 DEF Tabled, IndexesAgree, Known, TypeOK
      <4> QED  BY <4>1, <4>2
    <3> QED  BY <3>3 DEF IndexesAgree, Known
  <2>7. SortedByStart' /\ HeldIsListed'
    BY <1>1, <2>1 DEF Tabled, SortedByStart, HeldIsListed, HasEntry
  <2> QED  BY <1>2, <1>4, <2>1, <2>5, <2>6, <2>7 DEF IInv, Tabled
<1>9. CASE SendRequeue
  <2>1. /\ UNCHANGED <<heap, remote, pollReports, used>>
        /\ AddTask(sendTask) /\ sendTask' = Nil
    BY <1>9 DEF SendRequeue, SendIdle, poller, env
  <2>2. sendTask \in 1 .. Len(heap)
    BY <1>1, <1>9 DEF TypeOK, SendRequeue, Nil
  <2>3. Tabled'
    BY <1>1, <2>1, <2>2, AddTaskTables
  <2> QED  BY <1>2, <1>4, <2>1, <2>3 DEF IInv
<1> QED  BY <1>5, <1>6, <1>7, <1>8, <1>9 DEF SendStep

\* updateTasks' copy of a report keeps the objects: the StartTime it writes is
\* the one that is there.
LEMMA PollUpdateKeeps ==
    ASSUME TypeOK, StartTimesAgree, Tabled, NEW w \in Worker, PollUpdate(w)
    PROVE  Keeps /\ heap' \in Seq(Task) /\ Len(heap') = Len(heap)
<1>1. PICK r \in pollReports[w] :
        /\ Known(r.id)
        /\ heap' = IF heap[taskDb[r.id]].state # r.state
                   THEN [heap EXCEPT ![taskDb[r.id]] = Refreshed(@, r)]
                   ELSE heap
  BY DEF PollUpdate
<1> DEFINE p == taskDb[r.id]
<1>2. r \in Task /\ r.id \in Id
  BY DEF TypeOK, Task
<1>3. p \in 1 .. Len(heap) /\ heap[p].id = r.id
  BY <1>1, <1>2, HeldPointers DEF Tabled, IndexesAgree
<1>4. heap[p].start = r.start
  <2>1. DOMAIN heap = 1 .. Len(heap)
    BY LenProperties DEF TypeOK
  <2>2. heap[p] \in Accounts /\ r \in Accounts
    BY <1>3, <2>1 DEF Accounts
  <2> QED  BY <1>3, <2>2 DEF StartTimesAgree
<1> HIDE DEF p
<1>5. heap[p] \in Task
  BY <1>3, Pointer
<1>6. /\ Refreshed(heap[p], r) \in Task
      /\ Refreshed(heap[p], r).id = heap[p].id
      /\ Refreshed(heap[p], r).start = heap[p].start
  BY <1>2, <1>4, <1>5 DEF Refreshed, Task
<1>7. CASE UNCHANGED heap
  BY <1>7, LenProperties DEF TypeOK, Keeps
<1>8. CASE heap' = [heap EXCEPT ![p] = Refreshed(heap[p], r)]
  <2>1. /\ heap' \in Seq(Task) /\ Len(heap') = Len(heap)
        /\ \A q \in 1 .. Len(heap) :
              heap'[q] = IF q = p THEN Refreshed(heap[p], r) ELSE heap[q]
    BY <1>3, <1>6, <1>8, ExceptSeq DEF TypeOK
  <2>2. Len(heap) \in Nat
    BY LenProperties DEF TypeOK
  <2> QED  BY <1>6, <2>1, <2>2 DEF Keeps
<1> QED  BY <1>1, <1>7, <1>8 DEF p

\* updateTasks.
LEMMA InvPoll ==
    ASSUME IInv, PollStep
    PROVE  IInv'
<1>1. TypeOK /\ AccountsIssued /\ StartTimesAgree /\ Tabled
  BY DEF IInv
<1>2. TypeOK'
  BY <1>1, TypePoll
<1>3. ASSUME UNCHANGED heap PROVE Keeps /\ heap' \in Seq(Task)
  BY <1>1, <1>3, LenProperties DEF TypeOK, Keeps
<1>4. ASSUME UNCHANGED <<heap, tables, sendTask, used>>,
             \A w \in Worker : remote'[w] \cup pollReports'[w]
                                  \subseteq remote[w] \cup pollReports[w]
      PROVE  IInv'
  <2>1. AccountsIssued' /\ StartTimesAgree'
    BY <1>1, <1>3, <1>4, AccountsRepeated
  <2>2. Tabled'
    BY <1>1, <1>3, <1>4, QuietStep
  <2> QED  BY <1>2, <2>1, <2>2 DEF IInv
<1>5. CASE PollStart
  BY <1>4, <1>5 DEF PollStart, sender, env
<1>6. ASSUME NEW w \in Worker, PollAnswer(w) PROVE IInv'
  <2>1. PICK page \in SUBSET remote[w] : pollReports' = [pollReports EXCEPT ![w] = page]
    BY <1>6 DEF PollAnswer
  <2>2. \A v \in Worker : pollReports'[v] \subseteq remote[v] \cup pollReports[v]
    BY <1>1, <2>1 DEF TypeOK
  <2>3. UNCHANGED <<heap, tables, sendTask, used, remote>>
    BY <1>6 DEF PollAnswer, sender, env
  <2> QED  BY <1>4, <2>2, <2>3
<1>7. ASSUME NEW w \in Worker, PollFail(w) \/ PollLock(w) \/ PollDone(w) PROVE IInv'
  BY <1>4, <1>7 DEF PollFail, PollLock, PollDone, sender, env
<1>8. ASSUME NEW w \in Worker, PollUpdate(w) PROVE IInv'
  <2>1. Keeps /\ heap' \in Seq(Task) /\ Len(heap') = Len(heap)
    BY <1>1, <1>8, PollUpdateKeeps
  <2>2. PICK r \in pollReports[w] : Applied(w, r)
    BY <1>8 DEF PollUpdate
  <2>3. UNCHANGED <<tables, sendTask, used, remote>>
    BY <1>8 DEF PollUpdate, sender, env
  <2>4. \A v \in Worker : pollReports'[v] \subseteq pollReports[v]
    BY <1>1, <2>2 DEF TypeOK, Applied
  <2>5. AccountsIssued' /\ StartTimesAgree'
    BY <1>1, <2>1, <2>3, <2>4, AccountsRepeated
  <2>6. Tabled'
    BY <1>1, <2>1, <2>3, QuietStep
  <2> QED  BY <1>2, <2>5, <2>6 DEF IInv
<1>9. ASSUME NEW w \in Worker, PollAdopt(w) PROVE IInv'
  <2>1. PICK r \in pollReports[w] :
          /\ heap' = Append(heap, r)
          /\ taskDb' = [taskDb EXCEPT ![r.id] = Len(heap) + 1]
          /\ taskWorkerMap' = [taskWorkerMap EXCEPT ![r.id] = w]
          /\ InsertSorted(Append(heap, r), Len(heap) + 1)
          /\ workersTaskMap' = IF workersTaskMap[w][r.id] = 0
                               THEN [workersTaskMap EXCEPT ![w][r.id] = 1]
                               ELSE workersTaskMap
          /\ Applied(w, r)
    BY <1>9 DEF PollAdopt
  <2>2. UNCHANGED <<pendingTasks, eventDb, sendTask, used, remote>>
    BY <1>9 DEF PollAdopt, sender, env
  <2>3. r \in Task /\ r.id \in Id
    BY <1>1 DEF TypeOK, Task
  <2>4. /\ Keeps /\ heap'[Len(heap) + 1] = r /\ heap' \in Seq(Task)
        /\ Len(heap) + 1 \in 1 .. Len(heap') /\ Len(heap) \in Nat
    BY <1>1, <2>1, <2>3, AllocateKeeps, AllocateType, LenProperties DEF TypeOK
  <2>5. AccountsIssued' /\ StartTimesAgree'
    <3>1. Vouched(r)
      BY VouchedReport
    <3>2. \A v \in Worker : pollReports'[v] \subseteq pollReports[v]
      BY <1>1, <2>1 DEF TypeOK, Applied
    <3> QED  BY <1>1, <2>1, <2>2, <2>3, <3>1, <3>2, AccountsAllocated
  <2>6. ListKeeps /\ HasEntry(r.id)'
    <3> DEFINE h == Append(heap, r)
               q == Len(heap) + 1
    <3>1. heap' = h /\ h \in Seq(Task) /\ q \in 1 .. Len(h) /\ InsertSorted(h, q) /\ h[q] = r
      BY <2>1, <2>4
    <3> HIDE DEF h, q
    <3>2. ListKeeps /\ \E i \in DOMAIN sortedTasks' : heap'[sortedTasks'[i]].id = h[q].id
      BY <1>1, <2>4, <3>1, InsertedEntry DEF HasEntry
    <3> QED  BY <3>1, <3>2 DEF HasEntry
  <2>7. \A x \in Id : taskDb'[x] = IF x = r.id THEN Len(heap) + 1 ELSE taskDb[x]
    BY <1>1, <2>1, <2>3 DEF TypeOK
  <2>8. SortedByStart'
    BY <1>1, <2>6 DEF ListKeeps, Tabled
  <2>9. EveryTaskListed'
    BY <1>1, <2>6, <2>7 DEF ListKeeps, Tabled, EveryTaskListed, HasEntry, Known
  <2>10. HeldIsListed'
    BY <1>1, <2>2, <2>4, <2>6, HeldKept DEF HeldIsListed, HasEntry
  <2>11. IndexesAgree'
    <3>1. \A x \in Id : taskWorkerMap'[x] = IF x = r.id THEN w ELSE taskWorkerMap[x]
      BY <1>1, <2>1, <2>3 DEF TypeOK
    <3>2. /\ workersTaskMap'[w][r.id] > 0
          /\ \A v \in Worker, x \in Id : workersTaskMap[v][x] > 0 => workersTaskMap'[v][x] > 0
      BY <1>1, <2>1, <2>3 DEF TypeOK
    <3>3. ASSUME NEW x \in Id
          PROVE  /\ taskDb'[x] # Nil => heap'[taskDb'[x]].id = x
                 /\ taskWorkerMap'[x] # NoWorker =>
                       taskDb'[x] # Nil /\ workersTaskMap'[taskWorkerMap'[x]][x] > 0
                 /\ x \in eventDb' => taskWorkerMap'[x] # NoWorker
      <4>1. CASE x = r.id
        BY <2>4, <2>7, <3>1, <3>2, <4>1, ManagerAssumption DEF Nil
      <4>2. CASE x # r.id
        <5>1. taskDb[x] # Nil => heap'[taskDb[x]].id = x
          BY <1>1, <2>4, HeldPointers DEF Tabled, IndexesAgree, Known, Keeps
        <5> QED  BY <1>1, <2>2, <2>7, <3>1, <3>2, <4>2, <5>1
                 DEF Tabled, IndexesAgree, Known, TypeOK
      <4> QED  BY <4>1, <4>2
    <3> QED  BY <3>3 DEF IndexesAgree, Known
  <2> QED  BY <1>2, <2>5, <2>8, <2>9, <2>10, <2>11 DEF IInv, Tabled
<1> QED  BY <1>5, <1>6, <1>7, <1>8, <1>9 DEF PollStep

\* The cleanup.
LEMMA InvCleanUp ==
    ASSUME IInv, CleanUpTasks
    PROVE  IInv'
<1>1. TypeOK /\ AccountsIssued /\ StartTimesAgree /\ Tabled
  BY DEF IInv
<1>2. TypeOK'
  BY <1>1, TypeRest
<1>3. UNCHANGED <<heap, sortedTasks, pendingTasks, sendTask, remote, pollReports, used>>
  BY DEF CleanUpTasks, sender, poller, env
<1>4. PICK gone \in SUBSET Id :
        /\ Unassign(gone)
        /\ eventDb' = eventDb \ gone
        /\ taskDb' = [id \in Id |-> IF id \in gone THEN Nil ELSE taskDb[id]]
  BY DEF CleanUpTasks
<1>5. AccountsIssued' /\ StartTimesAgree'
  <2>1. Keeps /\ heap' \in Seq(Task)
    BY <1>1, <1>3, LenProperties DEF TypeOK, Keeps
  <2> QED  BY <1>1, <1>3, <2>1, AccountsRepeated
<1>6. SortedByStart' /\ HeldIsListed'
  BY <1>1, <1>3 DEF Tabled, SortedByStart, HeldIsListed, HasEntry
<1>7. EveryTaskListed'
  BY <1>1, <1>3, <1>4 DEF Tabled, EveryTaskListed, Known
<1>8. IndexesAgree'
  <2>1. ASSUME NEW id \in Id
        PROVE  /\ taskDb'[id] # Nil => heap'[taskDb'[id]].id = id
               /\ taskWorkerMap'[id] # NoWorker =>
                     taskDb'[id] # Nil /\ workersTaskMap'[taskWorkerMap'[id]][id] > 0
               /\ id \in eventDb' => taskWorkerMap'[id] # NoWorker
    <3>1. CASE id \in gone
      BY <1>4, <3>1 DEF Unassign
    <3>2. CASE id \notin gone
      BY <1>1, <1>3, <1>4, <3>2 DEF Unassign, Tabled, IndexesAgree, Known, TypeOK
    <3> QED  BY <3>1, <3>2
  <2> QED  BY <2>1 DEF IndexesAgree, Known
<1> QED  BY <1>2, <1>5, <1>6, <1>7, <1>8 DEF IInv, Tabled

\* Crashes, and the workers.
LEMMA InvEnv ==
    ASSUME IInv, EnvStep
    PROVE  IInv'
<1>1. TypeOK /\ AccountsIssued /\ StartTimesAgree /\ Tabled
  BY DEF IInv
<1>2. TypeOK'
  BY <1>1, TypeRest
<1>3. CASE ManagerRestart
  <2>1. UNCHANGED <<remote, used>> /\ heap' = <<>> /\ pollReports' = NoReports
    BY <1>3 DEF ManagerRestart
  <2>2. AccountsIssued' /\ StartTimesAgree'
    <3>1. \A w \in Worker : \A a \in remote'[w] \cup pollReports'[w] : Vouched(a)
      BY <2>1, VouchedReport DEF NoReports
    <3>2. DOMAIN heap' = {}
      BY <2>1
    <3> QED  BY <1>1, <2>1, <3>1, <3>2, AccountsStep
  <2>3. Tabled'
    BY <1>3 DEF ManagerRestart, SendIdle, Tabled, SortedByStart, EveryTaskListed,
                HeldIsListed, IndexesAgree, Known, NoTasks, NoAssignments
  <2> QED  BY <1>2, <2>2, <2>3 DEF IInv
<1>4. ASSUME NEW id, NEW s, UNCHANGED <<heap, tables, sendTask, pollReports>>,
             used \subseteq used',
             \A w \in Worker : \A a \in remote'[w] : Vouched(a) \/ Issues(id, s, a)
      PROVE  IInv'
  <2>1. Keeps /\ DOMAIN heap' = 1 .. Len(heap)
    BY <1>1, <1>4, LenProperties DEF TypeOK, Keeps
  <2>2. \A p \in DOMAIN heap' : Vouched(heap'[p])
    BY <1>1, <2>1, VouchedObject
  <2>3. \A w \in Worker : \A a \in remote'[w] \cup pollReports'[w] :
           Vouched(a) \/ Issues(id, s, a)
    BY <1>4, VouchedReport
  <2>4. AccountsIssued' /\ StartTimesAgree'
    BY <1>1, <1>4, <2>2, <2>3, AccountsStep
  <2>5. Tabled'
    BY <1>1, <1>4, <2>1, QuietStep
  <2> QED  BY <1>2, <2>4, <2>5 DEF IInv
<1>5. ASSUME NEW w \in Worker, WorkerStarts(w) PROVE IInv'
  <2>1. PICK id \in Id \ used, s \in Time, st \in {"Running", "Failed"} :
          /\ remote' = [remote EXCEPT ![w] = @ \cup {[id |-> id, state |-> st, start |-> s]}]
          /\ used' = used \cup {id}
          /\ UNCHANGED <<heap, tables, mu, sender, handler, poller, restarts>>
    BY <1>5 DEF WorkerStarts
  <2>2. \A v \in Worker : \A a \in remote'[v] : Vouched(a) \/ Issues(id, s, a)
    <3>1. ASSUME NEW v \in Worker, NEW a \in remote'[v] PROVE Vouched(a) \/ Issues(id, s, a)
      <4>1. a \in remote[v] \/ a = [id |-> id, state |-> st, start |-> s]
        BY <1>1, <2>1 DEF TypeOK
      <4> QED  BY <2>1, <4>1, VouchedReport DEF Issues
    <3> QED  BY <3>1
  <2> QED  BY <1>4, <2>1, <2>2 DEF sender, poller
<1>6. ASSUME NEW w \in Worker, WorkerEnds(w) PROVE IInv'
  <2>1. PICK r \in remote[w], st \in {"Completed", "Failed"} :
          /\ remote' = [remote EXCEPT ![w] = (@ \ {r}) \cup {[r EXCEPT !.state = st]}]
          /\ UNCHANGED <<heap, tables, mu, sender, handler, poller, used, restarts>>
    BY <1>6 DEF WorkerEnds
  <2>2. \A v \in Worker : \A a \in remote'[v] : Vouched(a)
    <3>1. ASSUME NEW v \in Worker, NEW a \in remote'[v] PROVE Vouched(a)
      <4>1. r \in Task
        BY <1>1 DEF TypeOK
      <4>2. a \in remote[v] \/ (a.id = r.id /\ a.start = r.start)
        BY <1>1, <2>1, <4>1 DEF TypeOK, Task
      <4>3. Vouched(r)
        BY VouchedReport
      <4> QED  BY <4>2, <4>3, VouchedReport DEF Vouched
    <3> QED  BY <3>1
  <2> QED  BY <1>4, <2>1, <2>2 DEF sender, poller
<1>7. ASSUME NEW w \in Worker, WorkerRestarts(w) PROVE IInv'
  <2>1. /\ remote' = [remote EXCEPT ![w] = {}]
        /\ UNCHANGED <<heap, tables, sendTask, pollReports, used>>
    BY <1>7 DEF WorkerRestarts, sender, poller
  <2>2. \A v \in Worker : \A a \in remote'[v] : Vouched(a)
    BY <1>1, <2>1, VouchedReport DEF TypeOK
  <2> QED  BY <1>4, <2>1, <2>2
<1> QED  BY <1>3, <1>5, <1>6, <1>7 DEF EnvStep

\* The invariant is inductive: every step of Next, and stuttering, keeps it.
LEMMA InvNext == IInv /\ [Next]_vars => IInv'
<1> SUFFICES ASSUME IInv, [Next]_vars PROVE IInv'
  OBVIOUS
<1>1. CASE Next
  BY <1>1, InvHandler, InvSend, InvPoll, InvCleanUp, InvEnv DEF Next, HandlerStep
<1>2. CASE UNCHANGED vars
  <2>1. UNCHANGED <<heap, tables, sendTask, remote, pollReports, used>>
    BY <1>2 DEF vars, sender, poller, env
  <2>2. TypeOK /\ AccountsIssued /\ StartTimesAgree /\ Tabled
    BY DEF IInv
  <2>3. TypeOK'
    BY <1>2, <2>2, TypeNext
  <2>4. Keeps /\ heap' \in Seq(Task)
    BY <2>1, <2>2, LenProperties DEF TypeOK, Keeps
  <2>5. AccountsIssued' /\ StartTimesAgree'
    BY <2>1, <2>2, <2>4, AccountsRepeated
  <2>6. Tabled'
    BY <2>1, <2>2, <2>4, QuietStep
  <2> QED  BY <2>3, <2>5, <2>6 DEF IInv
<1> QED  BY <1>1, <1>2

\* The inductive invariant holds in every state of the manager.
THEOREM Invariance == Spec => []IInv
BY InvInit, InvNext, PTL DEF Spec

-----------------------------------------------------------------------------
(* What follows from it.                                                   *)

\* The list stays in StartTime order: InsertSorted's binary search never works
\* on an unsorted list.
THEOREM StaysSorted == Spec => []SortedByStart
<1>1. IInv => SortedByStart
  BY DEF IInv, Tabled
<1> QED  BY Invariance, <1>1, PTL

\* GET /tasks leaves out no task of TaskDb.
THEOREM StaysListed == Spec => []EveryTaskListed
<1>1. IInv => EveryTaskListed
  BY DEF IInv, Tabled
<1> QED  BY Invariance, <1>1, PTL

\* TaskDb, TaskWorkerMap, WorkersTaskMap and EventDb never disagree.
THEOREM IndexesStayConsistent == Spec => []IndexesAgree
<1>1. IInv => IndexesAgree
  BY DEF IInv, Tabled
<1> QED  BY Invariance, <1>1, PTL

\* The manager, the workers and the answers in flight agree on every StartTime.
THEOREM StartTimesStayAgreed == Spec => []StartTimesAgree
<1>1. IInv => StartTimesAgree
  BY DEF IInv
<1> QED  BY Invariance, <1>1, PTL
-----------------------------------------------------------------------------
(* Until the first cleanup.  CleanUpTasks leaves entries in the list that  *)
(* TaskDb no longer has, and a task it removed may be adopted again as a   *)
(* second object; until then a task is one object, the one TaskDb has, and *)
(* a task that only a handler holds is not known to any worker.            *)

\* Everything but CleanUpTasks, which first runs after an hour.
NextBeforeCleanUp == HandlerStep \/ SendStep \/ PollStep \/ EnvStep
SpecBeforeCleanUp == Init /\ [][NextBeforeCleanUp]_vars

\* A worker reports the task, or has reported it in an answer still in flight.
Seen(id) == \E w \in Worker : \E r \in remote[w] \cup pollReports[w] : r.id = id

OneObject == \A p, q \in 1 .. Len(heap) : heap[p].id = heap[q].id => p = q

ObjectsAreTasks ==
    \A p \in 1 .. Len(heap) :
        \/ taskDb[heap[p].id] = p
        \/ ~Known(heap[p].id) /\ ~Seen(heap[p].id)

BInv == OneObject /\ ObjectsAreTasks /\ ListIsTaskDb

\* What a step reports anew is not about a task the manager has.
NoNews ==
    \A p \in 1 .. Len(heap), w \in Worker :
        \A r \in remote'[w] \cup pollReports'[w] :
            r.id = heap[p].id => Seen(heap[p].id)

\* Reports that only get fewer bring no news.
LEMMA FewerReports ==
    ASSUME \A w \in Worker : remote'[w] \cup pollReports'[w]
                                 \subseteq remote[w] \cup pollReports[w]
    PROVE  NoNews
BY DEF NoNews, Seen

\* The list has its entries and the new one, once each.
LEMMA InsertedOnce ==
    ASSUME NEW h, NEW n \in Nat, NEW p \in 1 .. n, sortedTasks \in Seq(1 .. n),
           InsertSorted(h, p),
           \A i \in DOMAIN sortedTasks : sortedTasks[i] # p,
           \A i, j \in DOMAIN sortedTasks : sortedTasks[i] = sortedTasks[j] => i = j
    PROVE  /\ \A j \in DOMAIN sortedTasks' :
                 \/ sortedTasks'[j] = p
                 \/ \E i \in DOMAIN sortedTasks : sortedTasks'[j] = sortedTasks[i]
           /\ \A i, j \in DOMAIN sortedTasks' : sortedTasks'[i] = sortedTasks'[j] => i = j
<1>1. PICK i \in 1 .. Len(sortedTasks) + 1 : sortedTasks' = InsertAt(sortedTasks, i, p)
  BY DEF InsertSorted
<1>2. PICK m \in Nat : m = Len(sortedTasks)
  BY LenProperties
<1>3. DOMAIN sortedTasks = 1 .. m /\ i \in 1 .. m + 1
  BY <1>2, LenProperties
<1>4. /\ DOMAIN sortedTasks' = 1 .. m + 1
      /\ \A j \in 1 .. i - 1 : sortedTasks'[j] = sortedTasks[j]
      /\ sortedTasks'[i] = p
      /\ \A j \in i + 1 .. m + 1 : sortedTasks'[j] = sortedTasks[j - 1]
  <2>1. sortedTasks' \in Seq(1 .. n) /\ IsInsertion(sortedTasks', sortedTasks, i, p)
    BY <1>1, InsertAtIs
  <2> QED  BY <1>2, <2>1, LenProperties DEF IsInsertion
<1> DEFINE from(j) == IF j < i THEN j ELSE j - 1
<1>5. ASSUME NEW j \in 1 .. m + 1, j # i
      PROVE  from(j) \in 1 .. m /\ sortedTasks'[j] = sortedTasks[from(j)]
  BY <1>3, <1>4, <1>5
<1>6. ASSUME NEW j \in 1 .. m + 1, NEW k \in 1 .. m + 1, sortedTasks'[j] = sortedTasks'[k]
      PROVE  j = k
  <2>1. ASSUME NEW l \in 1 .. m + 1, l # i PROVE sortedTasks'[l] # p
    <3>1. from(l) \in DOMAIN sortedTasks /\ sortedTasks'[l] = sortedTasks[from(l)]
      BY <1>3, <1>5, <2>1
    <3> HIDE DEF from
    <3> QED  BY <3>1
  <2>2. CASE j # i /\ k # i
    <3>1. from(j) = from(k)
      BY <1>3, <1>5, <1>6, <2>2
    <3> QED  BY <1>3, <2>2, <3>1
  <2> QED  BY <1>4, <1>6, <2>1, <2>2
<1>7. ASSUME NEW j \in 1 .. m + 1
      PROVE  \/ sortedTasks'[j] = p
             \/ \E l \in DOMAIN sortedTasks : sortedTasks'[j] = sortedTasks[l]
  BY <1>3, <1>4, <1>5
<1> QED  BY <1>4, <1>6, <1>7
\* A step that keeps the objects, TaskDb and the list, and brings no news.
LEMMA QuietBefore ==
    ASSUME TypeOK, BInv, Keeps, Len(heap') = Len(heap), heap' \in Seq(Task), NoNews,
           UNCHANGED <<taskDb, sortedTasks>>
    PROVE  BInv'
<1>1. OneObject'
  BY DEF BInv, OneObject, Keeps
<1>2. ObjectsAreTasks'
  <2>1. ASSUME NEW p \in 1 .. Len(heap)
        PROVE  \/ taskDb[heap[p].id] = p
               \/ /\ taskDb[heap[p].id] = Nil
                  /\ \A w \in Worker : \A r \in remote'[w] \cup pollReports'[w] : r.id # heap[p].id
    BY DEF BInv, ObjectsAreTasks, NoNews, Known
  <2> QED  BY <2>1 DEF ObjectsAreTasks, Keeps, Known, Seen
<1>3. ListIsTaskDb'
  <2>1. \A i \in DOMAIN sortedTasks : heap'[sortedTasks[i]].id = heap[sortedTasks[i]].id
    BY Entry DEF Keeps
  <2> QED  BY <2>1 DEF BInv, ListIsTaskDb
<1> QED  BY <1>1, <1>2, <1>3 DEF BInv

\* findTaskInSortedList finds a task that has an entry: there is a first one.
LEMMA FirstEntry ==
    ASSUME NEW id, NEW n \in Nat, DOMAIN sortedTasks = 1 .. n, HasEntry(id)
    PROVE  Listed(id)
<1> DEFINE T == {i \in 1 .. n : heap[sortedTasks[i]].id = id}
           R == OpToRel(<, Nat)
<1>1. PICK i \in T : \A j \in T : ~ (<<j, i>> \in R)
  <2>1. IsWellFoundedOn(R, Nat)
    BY NatLessThanWellFounded
  <2>2. T \subseteq Nat /\ T # {}
    BY DEF HasEntry
  <2> QED  BY <2>1, <2>2, WFMin
<1>2. ASSUME NEW j \in 1 .. i - 1 PROVE heap[sortedTasks[j]].id # id
  <2>1. j \in 1 .. n /\ j \in Nat /\ i \in Nat /\ j < i
    <3>1. i \in 1 .. n
      BY <1>1
    <3> HIDE DEF T
    <3> QED  BY <3>1
  <2>2. <<j, i>> \in R
    BY <2>1 DEF OpToRel
  <2>3. j \notin T
    BY <1>1, <2>2
  <2> QED  BY <2>1, <2>3
<1> QED  BY <1>1, <1>2 DEF Listed, ListedAt

\* Filing an object in TaskDb, and listing it if it is not listed, changes nothing
\* about a task that was filed, and makes a task of one that was not.
LEMMA FiledTask ==
    ASSUME TypeOK, BInv, NEW p \in 1 .. Len(heap),
           taskDb' = [taskDb EXCEPT ![heap[p].id] = p],
           List(p) \/ UNCHANGED sortedTasks,
           UNCHANGED <<heap, remote, pollReports>>
    PROVE  BInv'
<1>1. PICK n \in Nat : n = Len(heap)
  BY Pointer
<1>2. \A q \in 1 .. n : heap[q].id \in Id
  BY <1>1, Pointer
<1>3. \A id \in Id : taskDb'[id] = IF id = heap[p].id THEN p ELSE taskDb[id]
  BY <1>1, <1>2 DEF TypeOK
<1>4. OneObject'
  BY DEF BInv, OneObject
<1>5. ObjectsAreTasks'
  BY <1>1, <1>2, <1>3 DEF BInv, OneObject, ObjectsAreTasks, Known, Seen
<1>6. \A q \in 1 .. n : taskDb[heap[q].id] = q => taskDb'[heap[q].id] = q
  BY <1>1, <1>2, <1>3 DEF BInv, OneObject
<1>7. taskDb'[heap[p].id] = p
  BY <1>1, <1>2, <1>3
<1>8. ASSUME UNCHANGED sortedTasks PROVE ListIsTaskDb'
  BY <1>1, <1>6, <1>8, Entry DEF BInv, ListIsTaskDb
<1>9. CASE \E i \in DOMAIN sortedTasks :
             /\ ListedAt(heap[p].id, i)
             /\ sortedTasks' = [sortedTasks EXCEPT ![i] = p]
  <2>1. PICK i \in DOMAIN sortedTasks :
          /\ heap[sortedTasks[i]].id = heap[p].id
          /\ sortedTasks' = [sortedTasks EXCEPT ![i] = p]
    BY <1>9 DEF ListedAt
  <2>2. sortedTasks[i] = p
    BY <2>1, Entry DEF BInv, OneObject
  <2>3. UNCHANGED sortedTasks
    BY <2>1, <2>2, ExceptSeq DEF TypeOK
  <2> QED  BY <1>4, <1>5, <1>8, <2>3 DEF BInv
<1>10. CASE ~Listed(heap[p].id) /\ InsertSorted(heap, p)
  <2>1. \A i \in DOMAIN sortedTasks : sortedTasks[i] # p
    BY <1>10, FirstEntry, Entry DEF HasEntry
  <2>2. sortedTasks \in Seq(1 .. n)
    BY <1>1 DEF TypeOK
  <2>3. /\ \A j \in DOMAIN sortedTasks' :
              \/ sortedTasks'[j] = p
              \/ \E i \in DOMAIN sortedTasks : sortedTasks'[j] = sortedTasks[i]
        /\ \A i, j \in DOMAIN sortedTasks' : sortedTasks'[i] = sortedTasks'[j] => i = j
    BY <1>1, <1>10, <2>1, <2>2, InsertedOnce DEF BInv, ListIsTaskDb
  <2>4. \A j \in DOMAIN sortedTasks' : taskDb'[heap[sortedTasks'[j]].id] = sortedTasks'[j]
    BY <1>1, <1>6, <1>7, <2>3, Entry DEF BInv, ListIsTaskDb
  <2> QED  BY <1>4, <1>5, <2>3, <2>4 DEF BInv, ListIsTaskDb
<1> QED  BY <1>4, <1>5, <1>8, <1>9, <1>10 DEF BInv, List
\* A step that makes the object of a task nobody filed, files it or leaves it with
\* a handler, and lists it if it files it.
LEMMA NewObject ==
    ASSUME TypeOK, BInv, NEW t \in Task, heap' = Append(heap, t), NoNews,
           \A q \in 1 .. Len(heap) : heap[q].id # t.id,
           \/ /\ UNCHANGED <<taskDb, sortedTasks>> /\ taskDb[t.id] = Nil
              /\ \A w \in Worker : \A r \in remote'[w] \cup pollReports'[w] : r.id # t.id
           \/ /\ taskDb' = [taskDb EXCEPT ![t.id] = Len(heap) + 1]
              /\ InsertSorted(Append(heap, t), Len(heap) + 1)
    PROVE  BInv'
<1>1. PICK n \in Nat : n = Len(heap)
  BY LenProperties DEF TypeOK
<1>2. /\ Len(heap') = n + 1
      /\ \A q \in 1 .. n : heap'[q] = heap[q]
      /\ heap'[n + 1] = t
  BY <1>1, AppendProperties DEF TypeOK
<1>3. \A q \in 1 .. n : heap[q].id \in Id /\ heap[q].id # t.id
  BY <1>1, Pointer
<1>4. t.id \in Id
  BY DEF Task
<1>5. OneObject'
  BY <1>1, <1>2, <1>3 DEF BInv, OneObject
<1>6. \A q \in 1 .. n : taskDb'[heap[q].id] = taskDb[heap[q].id]
  BY <1>1, <1>3, <1>4 DEF TypeOK
<1>7. ObjectsAreTasks'
  <2>1. ASSUME NEW q \in 1 .. n
        PROVE  \/ taskDb'[heap'[q].id] = q
               \/ /\ taskDb'[heap'[q].id] = Nil
                  /\ \A w \in Worker : \A r \in remote'[w] \cup pollReports'[w] : r.id # heap'[q].id
    BY <1>1, <1>2, <1>6 DEF BInv, ObjectsAreTasks, NoNews, Known
  <2>2. \/ taskDb'[t.id] = n + 1
        \/ /\ taskDb'[t.id] = Nil
           /\ \A w \in Worker : \A r \in remote'[w] \cup pollReports'[w] : r.id # t.id
    BY <1>1, <1>4 DEF TypeOK
  <2>3. \A q \in 1 .. n + 1 : q \in 1 .. n \/ q = n + 1
    OBVIOUS
  <2> QED  BY <1>2, <2>1, <2>2, <2>3 DEF ObjectsAreTasks, Known, Seen
<1>8. \A i \in DOMAIN sortedTasks :
         /\ sortedTasks[i] \in 1 .. n
         /\ taskDb'[heap'[sortedTasks[i]].id] = sortedTasks[i]
  BY <1>1, <1>2, <1>6, Entry DEF BInv, ListIsTaskDb
<1>9. CASE UNCHANGED sortedTasks
  BY <1>5, <1>7, <1>8, <1>9 DEF BInv, ListIsTaskDb
<1>10. CASE /\ taskDb' = [taskDb EXCEPT ![t.id] = Len(heap) + 1]
            /\ InsertSorted(Append(heap, t), Len(heap) + 1)
  <2>1. taskDb'[heap'[n + 1].id] = n + 1
    BY <1>1, <1>2, <1>4, <1>10 DEF TypeOK
  <2>2. sortedTasks \in Seq(1 .. n + 1) /\ n + 1 \in 1 .. n + 1 /\ n + 1 \in Nat
    <3>1. 1 .. n \subseteq 1 .. n + 1
      OBVIOUS
    <3> QED  BY <1>1, <3>1, SeqMonotonic DEF TypeOK
  <2>3. \A i \in DOMAIN sortedTasks : sortedTasks[i] # n + 1
    BY <1>8
  <2>4. InsertSorted(Append(heap, t), n + 1)
    BY <1>1, <1>10
  <2>5. /\ \A j \in DOMAIN sortedTasks' :
              \/ sortedTasks'[j] = n + 1
              \/ \E i \in DOMAIN sortedTasks : sortedTasks'[j] = sortedTasks[i]
        /\ \A i, j \in DOMAIN sortedTasks' : sortedTasks'[i] = sortedTasks'[j] => i = j
    BY <2>2, <2>3, <2>4, InsertedOnce DEF BInv, ListIsTaskDb
  <2>6. ASSUME NEW j \in DOMAIN sortedTasks'
        PROVE  taskDb'[heap'[sortedTasks'[j]].id] = sortedTasks'[j]
    <3>1. CASE sortedTasks'[j] = n + 1
      BY <2>1, <3>1
    <3>2. CASE \E i \in DOMAIN sortedTasks : sortedTasks'[j] = sortedTasks[i]
      BY <1>8, <3>2
    <3> QED  BY <2>5, <3>1, <3>2
  <2> QED  BY <1>5, <1>7, <2>5, <2>6 DEF BInv, ListIsTaskDb
<1> QED  BY <1>9, <1>10

\* Every step but a cleanup keeps it.
LEMMA BeforeNext ==
    ASSUME IInv, BInv, [NextBeforeCleanUp]_vars
    PROVE  BInv'
<1>1. TypeOK /\ AccountsIssued /\ StartTimesAgree /\ Tabled
  BY DEF IInv
<1>2. DOMAIN heap = 1 .. Len(heap) /\ heap \in Seq(Task) /\ Len(heap) \in Nat
  BY <1>1, LenProperties DEF TypeOK
<1>3. /\ \A p \in 1 .. Len(heap) : heap[p].id \in used
      /\ \A w \in Worker : \A r \in remote[w] \cup pollReports[w] : r.id \in used
  BY <1>1, <1>2 DEF AccountsIssued, Accounts
<1>4. ASSUME UNCHANGED heap PROVE Keeps /\ Len(heap') = Len(heap) /\ heap' \in Seq(Task)
  BY <1>2, <1>4 DEF Keeps
<1>5. ASSUME UNCHANGED <<heap, taskDb, sortedTasks>>, NoNews PROVE BInv'
  BY <1>1, <1>4, <1>5, QuietBefore
<1>6. ASSUME UNCHANGED <<heap, taskDb, sortedTasks, remote, pollReports>> PROVE BInv'
  BY <1>5, <1>6, FewerReports
<1>7. ASSUME NEW p \in 1 .. Len(heap), NEW st \in State, SetState(p, st),
             UNCHANGED <<taskDb, sortedTasks, remote, pollReports>>
      PROVE  BInv'
  BY <1>1, <1>7, SetStateKeeps, SetStateType, FewerReports, QuietBefore
<1>8. ASSUME NEW p \in 1 .. Len(heap), AddTask(p), UNCHANGED <<heap, remote, pollReports>>
      PROVE  BInv'
  BY <1>1, <1>8, FiledTask DEF AddTask
<1>9. ASSUME NEW h \in Handler, StartTask(h) PROVE BInv'
  <2>1. PICK id \in Id \ used, s \in Time :
          heap' = Append(heap, [id |-> id, state |-> "Pending", start |-> s])
    BY <1>9 DEF StartTask
  <2> DEFINE t == [id |-> id, state |-> "Pending", start |-> s]
  <2>2. t \in Task /\ t.id = id /\ heap' = Append(heap, t)
    BY <2>1 DEF Task, State
  <2> HIDE DEF t
  <2>3. UNCHANGED <<taskDb, sortedTasks, remote, pollReports>>
    BY <1>9 DEF StartTask, tables, poller
  <2>4. taskDb[id] = Nil
    <3>1. CASE Known(id)
      <4>1. taskDb[id] \in 1 .. Len(heap) /\ heap[taskDb[id]].id = id
        BY <1>1, <3>1, HeldPointers DEF Tabled, IndexesAgree
      <4> QED  BY <1>3, <4>1
    <3> QED  BY <3>1 DEF Known
  <2>5. /\ \A q \in 1 .. Len(heap) : heap[q].id # t.id
        /\ \A w \in Worker : \A r \in remote'[w] \cup pollReports'[w] : r.id # t.id
    BY <1>3, <2>2, <2>3
  <2> QED  BY <1>1, <2>2, <2>3, <2>4, <2>5, FewerReports, NewObject
<1>10. ASSUME NEW h \in Handler, StopTask(h) PROVE BInv'
  <2>1. PICK id \in Id : Known(id) /\ SetState(taskDb[id], "Completed")
    BY <1>10 DEF StopTask
  <2>2. taskDb[id] \in 1 .. Len(heap) /\ "Completed" \in State
    BY <1>1, <2>1, HeldPointers DEF State
  <2>3. UNCHANGED <<taskDb, sortedTasks, remote, pollReports>>
    BY <1>10 DEF StopTask, tables, poller, env
  <2> QED  BY <1>7, <2>1, <2>2, <2>3
<1>11. ASSUME NEW h \in Handler, HandlerAddTask(h) PROVE BInv'
  <2>1. handler[h] \in 1 .. Len(heap)
    BY <1>1, <1>2, <1>11 DEF TypeOK, HandlerAddTask, Nil
  <2>2. AddTask(handler[h]) /\ UNCHANGED <<heap, remote, pollReports>>
    BY <1>11 DEF HandlerAddTask, poller, env
  <2> QED  BY <1>8, <2>1, <2>2
<1>12. CASE SendDequeue \/ SendNoWorker \/ SendUnreadable
  BY <1>6, <1>12 DEF SendDequeue, SendNoWorker, SendUnreadable, tables, poller, env
<1>13. ASSUME NEW w \in Worker, SendSchedule(w) PROVE BInv'
  <2>1. sendTask \in 1 .. Len(heap) /\ "Scheduled" \in State
    BY <1>1, <1>2, <1>13 DEF TypeOK, SendSchedule, Nil, State
  <2>2. SetState(sendTask, "Scheduled") /\ UNCHANGED <<taskDb, sortedTasks, remote, pollReports>>
    BY <1>13 DEF SendSchedule, tables, poller, env
  <2> QED  BY <1>7, <2>1, <2>2
<1>14. CASE SendCreated
  <2>1. sendTask \in 1 .. Len(heap)
    BY <1>1, <1>2, <1>14 DEF TypeOK, SendCreated, Nil
  <2>2. /\ taskDb' = [taskDb EXCEPT ![heap[sendTask].id] = sendTask]
        /\ UNCHANGED <<heap, sortedTasks, remote, pollReports>>
    BY <1>14 DEF SendCreated, poller, env
  <2> QED  BY <1>1, <2>1, <2>2, FiledTask
<1>15. CASE SendRequeue
  <2>1. sendTask \in 1 .. Len(heap)
    BY <1>1, <1>2, <1>15 DEF TypeOK, SendRequeue, Nil
  <2>2. AddTask(sendTask) /\ UNCHANGED <<heap, remote, pollReports>>
    BY <1>15 DEF SendRequeue, poller, env
  <2> QED  BY <1>8, <2>1, <2>2
<1>16. CASE PollStart
  BY <1>6, <1>16 DEF PollStart, tables, env
<1>17. ASSUME NEW w \in Worker, PollFail(w) \/ PollLock(w) \/ PollDone(w) PROVE BInv'
  BY <1>6, <1>17 DEF PollFail, PollLock, PollDone, tables, env
<1>18. ASSUME NEW w \in Worker, PollAnswer(w) PROVE BInv'
  <2>1. PICK page \in SUBSET remote[w] : pollReports' = [pollReports EXCEPT ![w] = page]
    BY <1>18 DEF PollAnswer
  <2>2. UNCHANGED <<heap, taskDb, sortedTasks, remote>>
    BY <1>18 DEF PollAnswer, tables, env
  <2>3. \A v \in Worker : remote'[v] \cup pollReports'[v] \subseteq remote[v] \cup pollReports[v]
    BY <1>1, <2>1, <2>2 DEF TypeOK
  <2> QED  BY <1>5, <2>2, <2>3, FewerReports
<1>19. ASSUME NEW w \in Worker, PollUpdate(w) PROVE BInv'
  <2>1. Keeps /\ heap' \in Seq(Task) /\ Len(heap') = Len(heap)
    BY <1>1, <1>19, PollUpdateKeeps
  <2>2. PICK r \in pollReports[w] : Applied(w, r)
    BY <1>19 DEF PollUpdate
  <2>3. UNCHANGED <<taskDb, sortedTasks, remote>>
    BY <1>19 DEF PollUpdate, tables, env
  <2>4. \A v \in Worker : remote'[v] \cup pollReports'[v] \subseteq remote[v] \cup pollReports[v]
    BY <1>1, <2>2, <2>3 DEF TypeOK, Applied
  <2> QED  BY <1>1, <2>1, <2>3, <2>4, FewerReports, QuietBefore
<1>20. ASSUME NEW w \in Worker, PollAdopt(w) PROVE BInv'
  <2>1. PICK r \in pollReports[w] :
          /\ ~Known(r.id)
          /\ heap' = Append(heap, r)
          /\ taskDb' = [taskDb EXCEPT ![r.id] = Len(heap) + 1]
          /\ InsertSorted(Append(heap, r), Len(heap) + 1)
          /\ Applied(w, r)
    BY <1>20 DEF PollAdopt
  <2>2. r \in Task /\ UNCHANGED remote
    BY <1>1, <1>20 DEF TypeOK, PollAdopt, env
  <2>3. \A v \in Worker : remote'[v] \cup pollReports'[v] \subseteq remote[v] \cup pollReports[v]
    BY <1>1, <2>1, <2>2 DEF TypeOK, Applied
  <2>4. \A q \in 1 .. Len(heap) : heap[q].id # r.id
    <3>1. Seen(r.id)
      BY DEF Seen
    <3>2. \A q \in 1 .. Len(heap) : q # Nil
      BY DEF Nil
    <3> QED  BY <2>1, <3>1, <3>2 DEF BInv, ObjectsAreTasks, Known
  <2> QED  BY <1>1, <2>1, <2>2, <2>3, <2>4, FewerReports, NewObject
<1>21. CASE ManagerRestart
  <2>1. heap' = <<>> /\ sortedTasks' = <<>>
    BY <1>21 DEF ManagerRestart
  <2> QED  BY <2>1, EmptySeq DEF BInv, OneObject, ObjectsAreTasks, ListIsTaskDb
<1>22. ASSUME NEW w \in Worker, WorkerStarts(w) PROVE BInv'
  <2>1. PICK id \in Id \ used, s \in Time, st \in {"Running", "Failed"} :
          remote' = [remote EXCEPT ![w] = @ \cup {[id |-> id, state |-> st, start |-> s]}]
    BY <1>22 DEF WorkerStarts
  <2>2. UNCHANGED <<heap, taskDb, sortedTasks, pollReports>>
    BY <1>22 DEF WorkerStarts, tables, poller
  <2>3. \A v \in Worker : \A r \in remote'[v] \cup pollReports'[v] :
           r \in remote[v] \cup pollReports[v] \/ r.id = id
    BY <1>1, <2>1, <2>2 DEF TypeOK
  <2>4. NoNews
    BY <1>3, <2>3 DEF NoNews, Seen
  <2> QED  BY <1>5, <2>2, <2>4
<1>23. ASSUME NEW w \in Worker, WorkerEnds(w) PROVE BInv'
  <2>1. PICK r \in remote[w], st \in {"Completed", "Failed"} :
          remote' = [remote EXCEPT ![w] = (@ \ {r}) \cup {[r EXCEPT !.state = st]}]
    BY <1>23 DEF WorkerEnds
  <2>2. UNCHANGED <<heap, taskDb, sortedTasks, pollReports>>
    BY <1>23 DEF WorkerEnds, tables, poller
  <2>3. r \in Task
    BY <1>1 DEF TypeOK
  <2>4. \A v \in Worker : \A a \in remote'[v] \cup pollReports'[v] :
           a \in remote[v] \cup pollReports[v] \/ a.id = r.id
    BY <1>1, <2>1, <2>2, <2>3 DEF TypeOK, Task
  <2>5. NoNews
    BY <2>4 DEF NoNews, Seen
  <2> QED  BY <1>5, <2>2, <2>5
<1>24. ASSUME NEW w \in Worker, WorkerRestarts(w) PROVE BInv'
  <2>1. remote' = [remote EXCEPT ![w] = {}] /\ UNCHANGED <<heap, taskDb, sortedTasks, pollReports>>
    BY <1>24 DEF WorkerRestarts, tables, poller
  <2>2. \A v \in Worker : remote'[v] \cup pollReports'[v] \subseteq remote[v] \cup pollReports[v]
    BY <1>1, <2>1 DEF TypeOK
  <2> QED  BY <1>5, <2>1, <2>2, FewerReports
<1>25. CASE UNCHANGED vars
  BY <1>6, <1>25 DEF vars, tables, poller, env
<1> QED  BY <1>9, <1>10, <1>11, <1>12, <1>13, <1>14, <1>15, <1>16, <1>17, <1>18, <1>19, <1>20,
            <1>21, <1>22, <1>23, <1>24, <1>25
         DEF NextBeforeCleanUp, HandlerStep, SendStep, PollStep, EnvStep

\* Until the first cleanup GET /tasks pages over exactly TaskDb: every entry is the
\* object TaskDb has for the task, and no task is listed twice, whatever AddTask
\* replaces and updateTasks adopts, also after a crash.
THEOREM ListStaysTaskDb == SpecBeforeCleanUp => []ListIsTaskDb
<1>1. Init => BInv
  BY EmptySeq DEF Init, BInv, OneObject, ObjectsAreTasks, ListIsTaskDb
<1>2. [NextBeforeCleanUp]_vars => [Next]_vars
  BY DEF NextBeforeCleanUp, Next
<1>3. IInv /\ BInv /\ [NextBeforeCleanUp]_vars => (IInv /\ BInv)'
  BY <1>2, InvNext, BeforeNext
<1>4. IInv /\ BInv => ListIsTaskDb
  BY DEF BInv
<1> QED  BY InvInit, <1>1, <1>3, <1>4, PTL DEF SpecBeforeCleanUp

-----------------------------------------------------------------------------
(* The workers.  Manager's environment is WorkerReports, once per worker,  *)
(* with the uuids they and the manager make told apart.                    *)

Reports(w) == INSTANCE WorkerReports WITH reports <- remote[w]

\* Only what worker w would report changes, and which uuids there are.
OnlyReports(w) ==
    /\ \E reports : remote' = [remote EXCEPT ![w] = reports]
    /\ UNCHANGED <<heap, tables, mu, sender, handler, poller, restarts>>

\* The environment lets a worker do whatever WorkerReports, which Worker
\* implements, lets it do, and nothing else.
THEOREM EnvironmentIsWorkerReports ==
    ASSUME TypeOK, NEW w \in Worker
    PROVE  OnlyReports(w) /\ Reports(w)!Next <=>
              \/ WorkerStarts(w) \/ WorkerEnds(w) \/ WorkerRestarts(w)
              \/ remote[w] = {} /\ UNCHANGED vars
<1>1. remote \in [Worker -> SUBSET Task]
  BY DEF TypeOK
<1>2. ASSUME OnlyReports(w), Reports(w)!Next
      PROVE  \/ WorkerStarts(w) \/ WorkerEnds(w) \/ WorkerRestarts(w)
             \/ remote[w] = {} /\ UNCHANGED vars
  <2>1. remote' = [remote EXCEPT ![w] = remote'[w]]
    BY <1>1, <1>2 DEF OnlyReports
  <2>2. CASE Reports(w)!Starts
    BY <1>2, <2>1, <2>2 DEF OnlyReports, Reports!Starts, WorkerStarts
  <2>3. CASE Reports(w)!Ends
    BY <1>2, <2>1, <2>3 DEF OnlyReports, Reports!Ends, WorkerEnds
  <2>4. CASE Reports(w)!Restarts
    BY <1>1, <1>2, <2>1, <2>4 DEF OnlyReports, Reports!Restarts, WorkerRestarts, vars, env
  <2> QED  BY <1>2, <2>2, <2>3, <2>4 DEF Reports!Next
<1>3. ASSUME WorkerStarts(w) PROVE OnlyReports(w) /\ Reports(w)!Starts
  BY <1>1, <1>3 DEF OnlyReports, Reports!Starts, WorkerStarts
<1>4. ASSUME WorkerEnds(w) PROVE OnlyReports(w) /\ Reports(w)!Ends
  BY <1>1, <1>4 DEF OnlyReports, Reports!Ends, WorkerEnds
<1>5. ASSUME WorkerRestarts(w) PROVE OnlyReports(w) /\ Reports(w)!Restarts
  BY <1>1, <1>5 DEF OnlyReports, Reports!Restarts, WorkerRestarts
<1>6. ASSUME remote[w] = {}, UNCHANGED vars PROVE OnlyReports(w) /\ Reports(w)!Restarts
  BY <1>1, <1>6 DEF OnlyReports, Reports!Restarts, vars, env
<1> QED  BY <1>2, <1>3, <1>4, <1>5, <1>6 DEF Reports!Next
=============================================================================
