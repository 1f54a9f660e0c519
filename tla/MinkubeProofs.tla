----------------------------- MODULE MinkubeProofs -----------------------------
(***************************************************************************)
(* Theorems about Minkube, for any number of workers, requests, timeouts   *)
(* and crashes: its type (its ids suffice), what the manager's tables say  *)
(* of the workers, and that it implements Delivery.                        *)
(***************************************************************************)
EXTENDS Minkube, TLAPS, FunctionTheorems, FiniteSetTheorems, SequenceTheorems

-----------------------------------------------------------------------------
(* How often a task occurs in a queue.                                     *)

\* The places of a task in a queue are finitely many.
LEMMA CountType ==
    ASSUME NEW S, NEW q \in Seq(S), NEW id
    PROVE  /\ IsFiniteSet({i \in 1 .. Len(q) : q[i] = id})
           /\ Count(q, id) = Cardinality({i \in 1 .. Len(q) : q[i] = id})
           /\ Count(q, id) \in Nat
<1>1. IsFiniteSet(1 .. Len(q))
  BY FS_Interval
<1>2. DOMAIN q = 1 .. Len(q)
  OBVIOUS
<1>3. IsFiniteSet({i \in 1 .. Len(q) : q[i] = id})
  BY <1>1, FS_Subset
<1> QED  BY <1>2, <1>3, FS_CardinalityType DEF Count

\* A queue without the task counts none.
LEMMA CountZero ==
    ASSUME NEW S, NEW q \in Seq(S), NEW id
    PROVE  Count(q, id) = 0 <=> \A i \in 1 .. Len(q) : q[i] # id
<1> DEFINE At == {i \in 1 .. Len(q) : q[i] = id}
<1>1. IsFiniteSet(At) /\ Count(q, id) = Cardinality(At)
  BY CountType
<1>2. Cardinality(At) = 0 <=> At = {}
  BY <1>1, FS_EmptySet
<1> QED  BY <1>1, <1>2

\* A task that is queued counts once more, the others as before.
LEMMA CountAppend ==
    ASSUME NEW S, NEW q \in Seq(S), NEW e \in S, NEW id
    PROVE  Count(Append(q, e), id) = Count(q, id) + IF e = id THEN 1 ELSE 0
<1> DEFINE At == {i \in 1 .. Len(q) : q[i] = id}
           Then == {i \in 1 .. Len(q) + 1 : Append(q, e)[i] = id}
<1>1. /\ Append(q, e) \in Seq(S) /\ Len(Append(q, e)) = Len(q) + 1
      /\ Len(q) \in Nat
  OBVIOUS
<1>2. Count(Append(q, e), id) = Cardinality(Then)
  BY <1>1, CountType
<1>3. /\ IsFiniteSet(At) /\ Count(q, id) = Cardinality(At) /\ Count(q, id) \in Nat
      /\ Len(q) + 1 \notin At
  BY <1>1, CountType
<1>4. CASE e = id
  <2>1. Then = At \cup {Len(q) + 1}
    BY <1>1, <1>4
  <2>2. Cardinality(At \cup {Len(q) + 1}) = Cardinality(At) + 1
    BY <1>3, FS_AddElement
  <2> QED  BY <1>2, <1>3, <1>4, <2>1, <2>2
<1>5. CASE e # id
  <2>1. Then = At
    BY <1>1, <1>5
  <2> HIDE DEF At, Then
  <2> QED  BY <1>2, <1>3, <1>5, <2>1
<1> QED  BY <1>4, <1>5

\* A task that is dequeued counts once less.
LEMMA CountTail ==
    ASSUME NEW S, NEW q \in Seq(S), q # <<>>, NEW id
    PROVE  Count(q, id) = Count(Tail(q), id) + IF Head(q) = id THEN 1 ELSE 0
<1> DEFINE At == {i \in 1 .. Len(q) : q[i] = id}
           Then == {i \in 1 .. Len(q) - 1 : Tail(q)[i] = id}
           next == [i \in Then |-> i + 1]
<1>1. /\ Tail(q) \in Seq(S) /\ Len(Tail(q)) = Len(q) - 1 /\ Len(q) \in Nat \ {0}
      /\ Head(q) = q[1]
      /\ \A i \in 1 .. Len(q) - 1 : Tail(q)[i] = q[i + 1]
  OBVIOUS
<1>2. /\ IsFiniteSet(Then) /\ Count(Tail(q), id) = Cardinality(Then)
      /\ Cardinality(Then) \in Nat
  <2>1. {i \in 1 .. Len(Tail(q)) : Tail(q)[i] = id} = Then
    BY <1>1
  <2>2. /\ IsFiniteSet({i \in 1 .. Len(Tail(q)) : Tail(q)[i] = id})
        /\ Count(Tail(q), id) = Cardinality({i \in 1 .. Len(Tail(q)) : Tail(q)[i] = id})
        /\ Count(Tail(q), id) \in Nat
    <3> DEFINE t == Tail(q)
    <3>1. t \in Seq(S)
      BY <1>1
    <3> HIDE DEF t
    <3>2. /\ IsFiniteSet({i \in 1 .. Len(t) : t[i] = id})
          /\ Count(t, id) = Cardinality({i \in 1 .. Len(t) : t[i] = id})
          /\ Count(t, id) \in Nat
      BY <3>1, CountType
    <3> QED  BY <3>2 DEF t
  <2> HIDE DEF Then
  <2> QED  BY <2>1, <2>2
<1>3. IsFiniteSet(At) /\ Count(q, id) = Cardinality(At) /\ Cardinality(At) \in Nat
  BY CountType
<1>4. next \in Bijection(Then, At \ {1})
  <2>1. next \in [Then -> At \ {1}]
    BY <1>1
  <2>2. \A i, j \in Then : i # j => next[i] # next[j]
    OBVIOUS
  <2>3. \A k \in At \ {1} : \E i \in Then : next[i] = k
    <3> SUFFICES ASSUME NEW k \in At \ {1} PROVE k - 1 \in Then /\ next[k - 1] = k
      OBVIOUS
    <3> QED  BY <1>1
  <2> QED  BY <2>1, <2>2, <2>3, Fun_IsBij, Fun_IsInj, Fun_IsSurj
<1>5. Cardinality(At \ {1}) = Cardinality(Then)
  BY <1>2, <1>4, FS_Bijection DEF ExistsBijection
<1>6. Cardinality(At \ {1}) = IF 1 \in At THEN Cardinality(At) - 1 ELSE Cardinality(At)
  BY <1>3, FS_RemoveElement
<1>7. 1 \in At <=> Head(q) = id
  BY <1>1
<1> HIDE DEF At, Then
<1> QED  BY <1>2, <1>3, <1>5, <1>6, <1>7

-----------------------------------------------------------------------------
(* The inductive invariant.                                                *)

Asked == {asks[i] : i \in DOMAIN asks}
On == IF sendAt = "out" THEN 1 ELSE 0

\* The ids suffice: each is made for a request of a client, or for a request
\* to a worker, which is queued, on its way or given up before it is taken.
Budget ==
    /\ Len(asks) <= MaxAsks /\ Len(repeats) <= MaxTimeouts
    /\ IsFiniteSet(late)
    /\ \A r \in late : r.no < Len(repeats) + crashes
    /\ made + Len(pending) + On + Cardinality(late) <= 2 * Len(asks) + Len(repeats)

\* An id that is not made is nobody's; a worker's task has a home and a task
\* it was made from, and only such a task has a phase.
Fresh ==
    /\ \A id \in Id :
        /\ home[id] # NoWorker \/ record[id] # "none" \/ id \in Asked => id <= made
        /\ home[id] = NoWorker <=> phase[id] = "none"
        /\ home[id] = NoWorker <=> origin[id] = NoId

\* Only what clients asked for is queued or sent.
SentWasAsked ==
    /\ \A i \in DOMAIN pending : pending[i] \in Asked
    /\ sendAt # "idle" => sendId \in Asked
    /\ \A r \in late : r.id \in Asked

\* A request that was taken has made a task of its own at that worker.
TakenIsThere ==
    sendAt = "taken" => \E copy \in Copies(sendId) : home[copy] = sendTo

\* An answer that waits to be applied tells of tasks the worker has run, and
\* of each that still runs that it runs.
AnswersLag ==
    \A w \in Worker : \A r \in answer[w] :
        /\ home[r.id] = w
        /\ phase[r.id] \notin {"none", "queued"}
        /\ phase[r.id] = "Running" => r.state = "Running"

RecordFollows(id) ==
    id \notin Asked /\ record[id] # "none" =>
        /\ home[id] # NoWorker
        /\ phase[id] # "queued"
        /\ phase[id] = "Running" => record[id] = "Running"
RecordsFollow == \A id \in Id : RecordFollows(id)

IInv ==
    /\ TypeOK /\ Budget /\ Fresh /\ SentWasAsked /\ TakenIsThere
    /\ AnswersLag /\ RecordsFollow /\ AssignedWasTaken

-----------------------------------------------------------------------------

\* Before the first request there are no ids and no requests.
LEMMA InitInv == Init => IInv
<1> SUFFICES ASSUME Init PROVE IInv
  OBVIOUS
<1>1. NoWorker \notin Worker /\ NoId \notin Id /\ MaxAsks \in Nat /\ MaxTimeouts \in Nat
      /\ MaxIds \in Nat
  BY MinkubeAssumption DEF Id, NoId, MaxIds
<1>2. TypeOK
  BY <1>1 DEF Init, TypeOK
<1>3. Budget
  BY <1>1, FS_EmptySet DEF Init, Budget, On
<1>4. Fresh /\ SentWasAsked /\ TakenIsThere /\ AnswersLag /\ RecordsFollow /\ AssignedWasTaken
  BY <1>1 DEF Init, Fresh, SentWasAsked, TakenIsThere, AnswersLag, RecordsFollow,
     RecordFollows, AssignedWasTaken, Asked
<1> QED  BY <1>2, <1>3, <1>4 DEF IInv

\* A queue of tasks after Append and Tail.
LEMMA Queues ==
    ASSUME NEW S, NEW q \in Seq(S)
    PROVE  /\ Len(q) \in Nat /\ DOMAIN q = 1 .. Len(q)
           /\ \A e \in S :
                /\ Append(q, e) \in Seq(S) /\ Len(Append(q, e)) = Len(q) + 1
                /\ \A i \in DOMAIN Append(q, e) :
                      IF i = Len(q) + 1 THEN Append(q, e)[i] = e
                                        ELSE i \in DOMAIN q /\ Append(q, e)[i] = q[i]
                /\ {Append(q, e)[i] : i \in DOMAIN Append(q, e)} =
                      {q[i] : i \in DOMAIN q} \cup {e}
           /\ q # <<>> =>
                /\ Tail(q) \in Seq(S) /\ Len(Tail(q)) = Len(q) - 1
                /\ Head(q) \in S /\ Head(q) \in {q[i] : i \in DOMAIN q}
                /\ \A i \in DOMAIN Tail(q) : Tail(q)[i] \in {q[j] : j \in DOMAIN q}
<1>1. Len(q) \in Nat /\ DOMAIN q = 1 .. Len(q)
  OBVIOUS
<1>2. ASSUME NEW e \in S
      PROVE  /\ Append(q, e) \in Seq(S) /\ Len(Append(q, e)) = Len(q) + 1
             /\ \A i \in DOMAIN Append(q, e) :
                   IF i = Len(q) + 1 THEN Append(q, e)[i] = e
                                     ELSE i \in DOMAIN q /\ Append(q, e)[i] = q[i]
             /\ {Append(q, e)[i] : i \in DOMAIN Append(q, e)} =
                   {q[i] : i \in DOMAIN q} \cup {e}
  <2>1. /\ Append(q, e) \in Seq(S) /\ Len(Append(q, e)) = Len(q) + 1
        /\ Append(q, e)[Len(q) + 1] = e
        /\ \A i \in 1 .. Len(q) : Append(q, e)[i] = q[i]
        /\ DOMAIN Append(q, e) = 1 .. Len(q) + 1
    OBVIOUS
  <2> QED  BY <1>1, <2>1
<1>3. ASSUME q # <<>>
      PROVE  /\ Tail(q) \in Seq(S) /\ Len(Tail(q)) = Len(q) - 1
             /\ Head(q) \in S /\ Head(q) \in {q[i] : i \in DOMAIN q}
             /\ \A i \in DOMAIN Tail(q) : Tail(q)[i] \in {q[j] : j \in DOMAIN q}
  <2>1. /\ Tail(q) \in Seq(S) /\ Len(Tail(q)) = Len(q) - 1 /\ Len(q) \in Nat \ {0}
        /\ Head(q) = q[1] /\ q[1] \in S
        /\ DOMAIN Tail(q) = 1 .. Len(q) - 1
        /\ \A i \in 1 .. Len(q) - 1 : Tail(q)[i] = q[i + 1]
    BY <1>3
  <2>2. \A i \in 1 .. Len(q) - 1 : i + 1 \in 1 .. Len(q)
    BY <2>1
  <2> QED  BY <1>1, <2>1, <2>2
<1> QED  BY <1>1, <1>2, <1>3

\* Where an id is still to be made there is one.
LEMMA RoomForId ==
    ASSUME IInv
    PROVE  /\ MaxIds \in Nat
           /\ Len(asks) < MaxAsks => made + 1 \in Id
           /\ sendAt = "out" \/ late # {} => made + 1 \in Id
<1>1. /\ MaxAsks \in Nat /\ MaxTimeouts \in Nat /\ MaxIds = 2 * MaxAsks + MaxTimeouts
  BY MinkubeAssumption DEF MaxIds
<1>2. /\ made \in Nat /\ Len(pending) \in Nat /\ Len(asks) \in Nat /\ Len(repeats) \in Nat
      /\ On = IF sendAt = "out" THEN 1 ELSE 0
  BY Queues DEF IInv, TypeOK, On
<1>3. Cardinality(late) \in Nat /\ (late # {} => Cardinality(late) > 0)
  BY FS_CardinalityType, FS_EmptySet DEF IInv, Budget
<1>4. /\ Len(asks) <= MaxAsks /\ Len(repeats) <= MaxTimeouts
      /\ made + Len(pending) + On + Cardinality(late) <= 2 * Len(asks) + Len(repeats)
  BY DEF IInv, Budget
<1>5. sendAt = "out" \/ late # {} => made + 1 <= 2 * Len(asks) + Len(repeats)
  BY <1>2, <1>3, <1>4
<1>6. Len(asks) < MaxAsks => made + 1 <= 2 * (Len(asks) + 1) + Len(repeats)
  BY <1>2, <1>3, <1>4
<1> QED  BY <1>1, <1>2, <1>4, <1>5, <1>6 DEF Id

-----------------------------------------------------------------------------
(* Types.                                                                  *)

\* A task the worker's StartTaskHandler takes gets an id that is left.
LEMMA TypeTake ==
    ASSUME IInv, NEW id \in Id, NEW w \in Worker, Take(id, w), made + 1 \in Id
    PROVE  /\ made' \in 0 .. MaxIds
           /\ origin' \in [Id -> Id \cup {NoId}]
           /\ home' \in [Id -> Worker \cup {NoWorker}]
           /\ phase' \in [Id -> {"none", "queued", "gone"} \cup Reported]
           /\ queue' \in [Worker -> Seq(Id)]
<1>1. Append(queue[w], made + 1) \in Seq(Id)
  BY Queues DEF IInv, TypeOK
<1>2. made + 1 \in 0 .. MaxIds
  BY RoomForId DEF Id
<1> QED  BY <1>1, <1>2 DEF Take, IInv, TypeOK

\* What SendWork gives up on is a request.
LEMMA TypeGiveUp ==
    ASSUME IInv, GiveUp
    PROVE  late' \subseteq Request
<1>1. Len(repeats) + crashes \in Nat
  BY Queues DEF IInv, TypeOK
<1> QED  BY <1>1 DEF GiveUp, IInv, TypeOK, Request, NoId

\* An answer says of a task what one of its reports says.
LEMMA SaysOne ==
    ASSUME NEW reports, NEW id \in {r.id : r \in reports}
    PROVE  \E r \in reports : r.id = id /\ StateIn(reports, id) = r.state
<1>1. \E r \in reports : r.id = id
  OBVIOUS
<1>2. /\ (CHOOSE r \in reports : r.id = id) \in reports
      /\ (CHOOSE r \in reports : r.id = id).id = id
  BY <1>1
<1> QED  BY <1>2 DEF StateIn

\* Every step keeps every variable of its type.
LEMMA TypeNext == IInv /\ [Next]_vars => TypeOK'
<1> SUFFICES ASSUME IInv, [Next]_vars PROVE TypeOK'
  OBVIOUS
<1> USE DEF TypeOK, IInv, workers, manager, sender, history, counts
<1>a. NoWorker \notin Worker /\ NoId \notin Id
  BY MinkubeAssumption DEF Id, NoId
<1>b. /\ asks \in Seq(Id) /\ repeats \in Seq(Id) /\ pending \in Seq(Id)
      /\ \A w \in Worker : queue[w] \in Seq(Id)
      /\ pending # <<>> => Head(pending) \in Id /\ Tail(pending) \in Seq(Id)
      /\ \A id \in Id : Append(pending, id) \in Seq(Id) /\ Append(asks, id) \in Seq(Id)
                        /\ Append(repeats, id) \in Seq(Id)
  BY Queues
<1>1. CASE Submit
  <2>1. made + 1 \in Id /\ made + 1 \in 0 .. MaxIds
    BY <1>1, RoomForId DEF Submit, Ask, Id
  <2> QED  BY <1>1, <1>b, <2>1 DEF Submit, Ask, Enqueue, State
<1>2. ASSUME NEW id \in Id, Stop(id)  PROVE TypeOK'
  BY <1>2, <1>b DEF Stop, Ask, Enqueue, State, Reported
<1>3. ASSUME NEW w \in Worker, Send(w)  PROVE TypeOK'
  BY <1>3, <1>a, <1>b DEF Send, State
<1>4. CASE SendNoWorker
  BY <1>4, <1>b DEF SendNoWorker
<1>5. CASE SendCreated \/ SendUnreadable
  <2>1. CASE SendCreated
    <3>1. assigned' \in [Id -> Worker \cup {NoWorker}]
      BY <2>1 DEF SendCreated
    <3> QED  BY <2>1, <3>1 DEF SendCreated, SendIdle
  <2>2. CASE SendUnreadable
    BY <2>2 DEF SendUnreadable, SendIdle
  <2> QED  BY <1>5, <2>1, <2>2
<1>6. CASE SendFails
  BY <1>6, <1>a, <1>b DEF SendFails, SendIdle, Enqueue
<1>7. CASE SendTimesOut
  <2>1. late' \subseteq Request
    BY <1>7, TypeGiveUp DEF SendTimesOut
  <2> QED  BY <1>7, <1>a, <1>b, <2>1 DEF SendTimesOut, SendIdle, Enqueue
<1>8. ASSUME NEW id \in Id, TakeRequest(id)  PROVE TypeOK'
  <2>1. made + 1 \in Id
    BY <1>8, RoomForId DEF TakeRequest
  <2>2. sendTo \in Worker /\ Take(id, sendTo)
    BY <1>8 DEF TakeRequest
  <2> QED  BY <1>8, <2>1, <2>2, TypeTake DEF TakeRequest
<1>9. ASSUME NEW r \in late, TakeLate(r)  PROVE TypeOK'
  <2>1. made + 1 \in Id
    BY <1>9, RoomForId DEF TakeLate
  <2>2. r.id \in Id /\ r.to \in Worker /\ Take(r.id, r.to)
    BY <1>9 DEF TakeLate, Request
  <2> QED  BY <1>9, <2>1, <2>2, TypeTake DEF TakeLate
<1>10. ASSUME NEW r \in late, LoseLate(r)  PROVE TypeOK'
  BY <1>10 DEF LoseLate
<1>11. ASSUME NEW w \in Worker, WorkerRuns(w)  PROVE TypeOK'
  <2>1. /\ queue[w] # <<>> /\ queue[w] \in Seq(Id)
        /\ Head(queue[w]) \in Id /\ Tail(queue[w]) \in Seq(Id)
    BY <1>11, <1>b, Queues DEF WorkerRuns
  <2> QED  BY <1>11, <2>1 DEF WorkerRuns, Reported
<1>12. ASSUME NEW w \in Worker, WorkerMarks(w) \/ WorkerRestart(w)  PROVE TypeOK'
  <2>1. CASE WorkerMarks(w)
    BY <2>1 DEF WorkerMarks, Served, Reported
  <2>2. CASE WorkerRestart(w)
    <3>1. /\ queue' \in [Worker -> Seq(Id)]
          /\ phase' \in [Id -> {"none", "queued", "gone"} \cup Reported]
          /\ restarts' \in Nat /\ blocked' \subseteq Worker
      BY <2>2 DEF WorkerRestart
    <3> QED  BY <2>2, <3>1 DEF WorkerRestart
  <2> QED  BY <1>12, <2>1, <2>2
<1>13. ASSUME NEW w \in Worker, WorkerStops(w)  PROVE TypeOK'
  <2>1. PICK id \in Served(w) :
          /\ phase' = [phase EXCEPT ![id] = "Completed"]
          /\ queue' = [queue EXCEPT ![w] = Append(@, id)]
    BY <1>13 DEF WorkerStops
  <2>2. id \in Id /\ Append(queue[w], id) \in Seq(Id)
    BY <1>b, Queues DEF Served
  <2> QED  BY <1>13, <2>1, <2>2 DEF WorkerStops, Reported
<1>14. ASSUME NEW w \in Worker, PollAnswer(w)  PROVE TypeOK'
  <2>1. {[id |-> id, state |-> phase[id]] : id \in Served(w)} \in
            SUBSET [id : Id, state : Reported]
    BY DEF Served
  <2> QED  BY <1>14, <2>1 DEF PollAnswer
<1>15. ASSUME NEW w \in Worker, PollFails(w)  PROVE TypeOK'
  BY <1>15 DEF PollFails
<1>16. ASSUME NEW w \in Worker, PollApplies(w)  PROVE TypeOK'
  <2>1. \A id \in {r.id : r \in answer[w]} : StateIn(answer[w], id) \in State
    BY SaysOne DEF State
  <2>2. record' \in [Id -> State \cup {"none"}]
    BY <1>16, <2>1 DEF PollApplies
  <2> QED  BY <1>16, <2>2 DEF PollApplies
<1>17. CASE ManagerCrash
  <2>1. late' \subseteq Request /\ <<>> \in Seq(Id)
    BY <1>17, TypeGiveUp DEF ManagerCrash
  <2> QED  BY <1>17, <1>a, <2>1 DEF ManagerCrash, SendIdle
<1>18. CASE UNCHANGED vars
  BY <1>18 DEF vars
<1> QED
  BY <1>1, <1>2, <1>3, <1>4, <1>5, <1>6, <1>7, <1>8, <1>9, <1>10, <1>11, <1>12,
     <1>13, <1>14, <1>15, <1>16, <1>17, <1>18
     DEF Next, ClientStep, SendStep, RequestStep, WorkerStep, PollStep

-----------------------------------------------------------------------------
(* The ids suffice.                                                        *)

\* A request given up is one more that a worker may still take.
LEMMA GivesUp ==
    ASSUME IInv, GiveUp
    PROVE  /\ IsFiniteSet(late')
           /\ Cardinality(late') = Cardinality(late) + On
           /\ \A r \in late' : \/ r \in late
                               \/ sendAt = "out" /\ r.id = sendId /\ r.no = Len(repeats) + crashes
<1> DEFINE new == [id |-> sendId, to |-> sendTo, no |-> Len(repeats) + crashes]
<1>1. IsFiniteSet(late) /\ Cardinality(late) \in Nat /\ Len(repeats) + crashes \in Nat
  BY FS_CardinalityType, Queues DEF IInv, Budget, TypeOK
<1>2. new \notin late
  <2>1. \A r \in late : r.no < Len(repeats) + crashes
    BY DEF IInv, Budget
  <2> QED  BY <1>1, <2>1
<1>3. CASE sendAt = "out"
  <2>1. late' = late \cup {new}
    BY <1>3 DEF GiveUp
  <2>2. IsFiniteSet(late \cup {new}) /\ Cardinality(late \cup {new}) = Cardinality(late) + 1
    BY <1>1, <1>2, FS_AddElement
  <2> QED  BY <1>3, <2>1, <2>2 DEF On
<1>4. CASE sendAt # "out"
  BY <1>1, <1>4 DEF GiveUp, On
<1> QED  BY <1>3, <1>4

\* A request taken or lost is one less.
LEMMA TakesLate ==
    ASSUME IInv, NEW r \in late
    PROVE  IsFiniteSet(late \ {r}) /\ Cardinality(late \ {r}) = Cardinality(late) - 1
BY FS_RemoveElement DEF IInv, Budget

\* Every step pays for the id it makes: a request of a client pays for two, a
\* request that is given up for one.
LEMMA BudgetNext == IInv /\ [Next]_vars => Budget'
<1> SUFFICES ASSUME IInv, [Next]_vars PROVE Budget'
  OBVIOUS
<1> DEFINE M == made
           P == Len(pending)
           L == Cardinality(late)
           A == Len(asks)
           R == Len(repeats)
           O == On
<1>1. /\ IsFiniteSet(late) /\ L \in Nat /\ M \in Nat /\ crashes \in Nat
      /\ A \in Nat /\ R \in Nat /\ P \in Nat
      /\ O \in Nat /\ O <= 1 /\ (O = 1 <=> sendAt = "out")
      /\ \A r \in late : r.no \in Nat /\ r.no < R + crashes
  BY FS_CardinalityType, Queues DEF IInv, Budget, TypeOK, O, On, Request
<1>2. A <= MaxAsks /\ R <= MaxTimeouts /\ M + P + O + L <= 2 * A + R
  BY DEF IInv, Budget
<1>3. /\ pending # <<>> => Len(Tail(pending)) = P - 1
      /\ \A id \in Id : /\ Len(Append(pending, id)) = P + 1
                        /\ Len(Append(asks, id)) = A + 1
                        /\ Len(Append(repeats, id)) = R + 1
  BY Queues DEF IInv, TypeOK
<1>4. MaxAsks \in Nat /\ MaxTimeouts \in Nat
  BY MinkubeAssumption
<1>5. ASSUME late' = late, crashes' = crashes, R' >= R, R' \in Nat
      PROVE  IsFiniteSet(late') /\ \A r \in late' : r.no < R' + crashes'
  BY <1>1, <1>5
<1> HIDE DEF P, L, A, R, M, O
<1> USE DEF workers, manager, sender, history, counts
<1>6. ASSUME NEW id \in Id, Ask(id), Enqueue(id), made' \in {made, made + 1},
             UNCHANGED <<repeats, late, crashes, sendAt>>
      PROVE  Budget'
  <2>1. A' = A + 1 /\ P' = P + 1 /\ R' = R /\ L' = L /\ O' = O /\ M' \in {M, M + 1}
        /\ A < MaxAsks
    BY <1>3, <1>6 DEF Ask, Enqueue, A, P, R, L, M, O, On
  <2>2. IsFiniteSet(late') /\ \A r \in late' : r.no < R' + crashes'
    BY <1>1, <1>5, <1>6, <2>1
  <2>3. A' <= MaxAsks /\ R' <= MaxTimeouts /\ M' + P' + O' + L' <= 2 * A' + R'
    <3>1. CASE M' = M
      BY <1>1, <1>2, <1>4, <2>1, <3>1
    <3>2. CASE M' = M + 1
      BY <1>1, <1>2, <1>4, <2>1, <3>2
    <3> QED  BY <2>1, <3>1, <3>2
  <2> QED  BY <2>2, <2>3 DEF Budget, A, P, R, L, M, O
<1>7. ASSUME UNCHANGED <<asks, repeats, late, crashes>>, M' \in Nat, P' \in Nat,
             O' \in Nat, M' + P' + O' \in {M + P + O, M + P + O - 1}
      PROVE  Budget'
  <2>1. A' = A /\ R' = R /\ L' = L
    BY <1>7 DEF A, R, L
  <2>2. IsFiniteSet(late') /\ \A r \in late' : r.no < R' + crashes'
    BY <1>1, <1>5, <1>7, <2>1
  <2>3. A' <= MaxAsks /\ R' <= MaxTimeouts
    BY <1>2, <2>1
  <2>4. M' + P' + O' + L <= 2 * A + R
    <3>1. CASE M' + P' + O' = M + P + O
      BY <1>1, <1>2, <3>1
    <3>2. CASE M' + P' + O' = M + P + O - 1
      BY <1>1, <1>2, <3>2
    <3> QED  BY <1>7, <3>1, <3>2
  <2>5. M' + P' + O' + L' <= 2 * A' + R'
    BY <2>1, <2>4
  <2> QED  BY <2>2, <2>3, <2>5 DEF Budget, A, P, R, L, M, O
<1>8. CASE Submit
  BY <1>1, <1>6, <1>8, RoomForId DEF Submit, Ask, M
<1>9. ASSUME NEW id \in Id, Stop(id)  PROVE Budget'
  BY <1>1, <1>6, <1>9 DEF Stop, M
<1>10. ASSUME NEW w \in Worker, Send(w)  PROVE Budget'
  <2>1. P' = P - 1 /\ M' = M /\ O = 0 /\ O' = 1 /\ P' \in Nat
    BY <1>1, <1>3, <1>10, Queues DEF Send, P, M, O, On, IInv, TypeOK
  <2> QED  BY <1>1, <1>7, <1>10, <2>1 DEF Send
<1>11. CASE SendNoWorker
  <2>1. P' = P - 1 /\ M' = M /\ O' = O /\ P' \in Nat
    BY <1>1, <1>3, <1>11, Queues DEF SendNoWorker, P, M, O, On, IInv, TypeOK
  <2> QED  BY <1>1, <1>7, <1>11, <2>1 DEF SendNoWorker
<1>12. CASE SendCreated \/ SendUnreadable
  <2>1. P' = P /\ M' = M /\ O' = 0
    BY <1>12 DEF SendCreated, SendUnreadable, SendIdle, P, M, O, On
  <2> QED  BY <1>1, <1>7, <1>12, <2>1 DEF SendCreated, SendUnreadable
<1>13. CASE SendFails
  <2>1. sendId \in Id
    BY <1>13 DEF SendFails, IInv, TypeOK
  <2>2. P' = P + 1 /\ M' = M /\ O = 1 /\ O' = 0
    BY <1>3, <1>13, <2>1 DEF SendFails, SendIdle, Enqueue, P, M, O, On
  <2> QED  BY <1>1, <1>7, <1>13, <2>2 DEF SendFails
<1>14. CASE SendTimesOut
  <2>1. sendId \in Id
    BY <1>14 DEF SendTimesOut, IInv, TypeOK
  <2>2. P' = P + 1 /\ M' = M /\ A' = A /\ R' = R + 1 /\ R < MaxTimeouts /\ O' = 0
        /\ crashes' = crashes
    BY <1>3, <1>14, <2>1 DEF SendTimesOut, SendIdle, Enqueue, P, M, A, R, O, On
  <2>3. IsFiniteSet(late') /\ L' = L + O
    BY <1>14, GivesUp DEF SendTimesOut, L, O
  <2>4. \A r \in late' : r.no < R' + crashes'
    <3> SUFFICES ASSUME NEW r \in late' PROVE r.no < R + 1 + crashes
      BY <2>2
    <3>1. r \in late \/ r.no = R + crashes
      BY <1>14, GivesUp DEF SendTimesOut, R
    <3> QED  BY <1>1, <3>1
  <2>5. A' <= MaxAsks /\ R' <= MaxTimeouts /\ M' + P' + O' + L' <= 2 * A' + R'
    BY <1>1, <1>2, <1>4, <2>2, <2>3
  <2> QED  BY <2>3, <2>4, <2>5 DEF Budget, A, P, R, L, M, O
<1>15. ASSUME NEW id \in Id, TakeRequest(id)  PROVE Budget'
  <2>1. P' = P /\ M' = M + 1 /\ O = 1 /\ O' = 0
    BY <1>15 DEF TakeRequest, Take, P, M, O, On
  <2> QED  BY <1>1, <1>7, <1>15, <2>1 DEF TakeRequest
<1>16. ASSUME NEW r \in late, TakeLate(r) \/ LoseLate(r)  PROVE Budget'
  <2>1. /\ P' = P /\ M' \in {M, M + 1} /\ O' = O /\ A' = A /\ R' = R
        /\ late' = late \ {r} /\ crashes' = crashes
    BY <1>16 DEF TakeLate, LoseLate, Take, P, M, O, On, A, R
  <2>2. IsFiniteSet(late') /\ L' = L - 1
    BY <2>1, TakesLate DEF L
  <2>3. A' <= MaxAsks /\ R' <= MaxTimeouts /\ M' + P' + O' + L' <= 2 * A' + R'
    <3>1. CASE M' = M
      BY <1>1, <1>2, <2>1, <2>2, <3>1
    <3>2. CASE M' = M + 1
      BY <1>1, <1>2, <2>1, <2>2, <3>2
    <3> QED  BY <2>1, <3>1, <3>2
  <2> QED  BY <1>1, <2>1, <2>2, <2>3 DEF Budget, A, P, R, L, M, O
<1>17. ASSUME NEW w \in Worker,
              WorkerRuns(w) \/ WorkerMarks(w) \/ WorkerStops(w) \/ WorkerRestart(w)
       PROVE  Budget'
  <2>1. P' = P /\ M' = M /\ O' = O /\ UNCHANGED <<asks, repeats, late, crashes>>
    BY <1>17 DEF WorkerRuns, WorkerMarks, WorkerStops, WorkerRestart, P, M, O, On
  <2> QED  BY <1>1, <1>7, <2>1
<1>18. ASSUME NEW w \in Worker, PollAnswer(w) \/ PollFails(w) \/ PollApplies(w)
       PROVE  Budget'
  <2>1. P' = P /\ M' = M /\ O' = O /\ UNCHANGED <<asks, repeats, late, crashes>>
    BY <1>18 DEF PollAnswer, PollFails, PollApplies, P, M, O, On
  <2> QED  BY <1>1, <1>7, <2>1
<1>19. CASE ManagerCrash
  <2>1. P' = 0 /\ M' = M /\ A' = A /\ R' = R /\ O' = 0 /\ crashes' = crashes + 1
    BY <1>19 DEF ManagerCrash, SendIdle, P, M, A, R, O, On
  <2>2. IsFiniteSet(late') /\ L' = L + O
    BY <1>19, GivesUp DEF ManagerCrash, L, O
  <2>3. \A r \in late' : r.no < R' + crashes'
    <3> SUFFICES ASSUME NEW r \in late' PROVE r.no < R + (crashes + 1)
      BY <2>1
    <3>1. r \in late \/ r.no = R + crashes
      BY <1>19, GivesUp DEF ManagerCrash, R
    <3> QED  BY <1>1, <3>1
  <2>4. A' <= MaxAsks /\ R' <= MaxTimeouts /\ M' + P' + O' + L' <= 2 * A' + R'
    BY <1>1, <1>2, <2>1, <2>2
  <2> QED  BY <2>2, <2>3, <2>4 DEF Budget, A, P, R, L, M, O
<1>20. CASE UNCHANGED vars
  <2>1. P' = P /\ M' = M /\ O' = O /\ UNCHANGED <<asks, repeats, late, crashes>>
    BY <1>20 DEF vars, P, M, O, On
  <2> QED  BY <1>1, <1>7, <2>1
<1> QED
  BY <1>8, <1>9, <1>10, <1>11, <1>12, <1>13, <1>14, <1>15, <1>16, <1>17, <1>18, <1>19, <1>20
     DEF Next, ClientStep, SendStep, RequestStep, WorkerStep, PollStep

-----------------------------------------------------------------------------
(* What the steps do to the workers' tasks.                                *)

\* A client's request adds its task to those that were asked for.
LEMMA AskedGrows ==
    ASSUME IInv, NEW id \in Id, Ask(id)
    PROVE  Asked' = Asked \cup {id}
<1>1. asks \in Seq(Id) /\ asks' = Append(asks, id)
  BY DEF IInv, TypeOK, Ask
<1>2. /\ DOMAIN asks = 1 .. Len(asks) /\ DOMAIN asks' = 1 .. Len(asks) + 1
      /\ asks'[Len(asks) + 1] = id
      /\ \A i \in 1 .. Len(asks) : asks'[i] = asks[i]
      /\ Len(asks) \in Nat
  BY <1>1
<1> QED  BY <1>2 DEF Asked

\* A request that is taken makes a new task of that worker's.
LEMMA TakeAdds ==
    ASSUME IInv, NEW id \in Id, NEW w \in Worker, Take(id, w), made + 1 \in Id
    PROVE  /\ made' = made + 1 /\ made \in Nat
           /\ home[made + 1] = NoWorker /\ record[made + 1] = "none" /\ made + 1 \notin Asked
           /\ home'[made + 1] = w /\ origin'[made + 1] = id
           /\ phase'[made + 1] \in {"queued", "gone"}
           /\ \A c \in Id \ {made + 1} :
                 home'[c] = home[c] /\ origin'[c] = origin[c] /\ phase'[c] = phase[c]
BY DEF Take, IInv, TypeOK, Fresh

\* A worker moves its own tasks on: never back to the queue, and to Running
\* only from there.
LEMMA PhasesMove ==
    ASSUME IInv, WorkerStep
    PROVE  /\ \A id \in Id :
                /\ phase[id] = "none" <=> phase'[id] = "none"
                /\ phase'[id] = "queued" => phase[id] = "queued"
                /\ phase'[id] = "Running" => phase[id] \in {"Running", "queued"}
           /\ UNCHANGED <<made, origin, home, manager, sender, late, answer, asks, dropped>>
<1> USE DEF IInv, TypeOK, manager, sender, history, counts, Reported
<1>1. ASSUME NEW w \in Worker, WorkerRuns(w)
      PROVE  \A id \in Id :
                /\ phase[id] = "none" <=> phase'[id] = "none"
                /\ phase'[id] = "queued" => phase[id] = "queued"
                /\ phase'[id] = "Running" => phase[id] \in {"Running", "queued"}
  BY <1>1 DEF WorkerRuns
<1>2. ASSUME NEW w \in Worker, WorkerMarks(w) \/ WorkerStops(w)
      PROVE  \A id \in Id :
                /\ phase[id] = "none" <=> phase'[id] = "none"
                /\ phase'[id] = "queued" => phase[id] = "queued"
                /\ phase'[id] = "Running" => phase[id] \in {"Running", "queued"}
  BY <1>2 DEF WorkerMarks, WorkerStops, Served
<1>3. ASSUME NEW w \in Worker, WorkerRestart(w)
      PROVE  \A id \in Id :
                /\ phase[id] = "none" <=> phase'[id] = "none"
                /\ phase'[id] = "queued" => phase[id] = "queued"
                /\ phase'[id] = "Running" => phase[id] \in {"Running", "queued"}
  <2>1. \A id \in Id : home[id] = w => phase[id] # "none"
    BY MinkubeAssumption DEF Fresh
  <2>2. \A id \in Id : phase'[id] = IF home[id] = w THEN "gone" ELSE phase[id]
    BY <1>3 DEF WorkerRestart
  <2> QED  BY <2>1, <2>2
<1>4. UNCHANGED <<made, origin, home, manager, sender, late, answer, asks, dropped>>
  BY DEF WorkerStep, WorkerRuns, WorkerMarks, WorkerStops, WorkerRestart
<1> QED  BY <1>1, <1>2, <1>3, <1>4 DEF WorkerStep

\* An id is fresh until it is made.
LEMMA FreshNext == IInv /\ [Next]_vars => Fresh'
<1> SUFFICES ASSUME IInv, [Next]_vars PROVE Fresh'
  OBVIOUS
<1> USE DEF workers, manager, sender, history, counts
<1>0. /\ made \in Nat /\ Id \subseteq Nat /\ NoId \notin Id /\ NoWorker \notin Worker
      /\ Fresh /\ TypeOK
  BY MinkubeAssumption DEF IInv, TypeOK, Id, NoId
<1>1. ASSUME UNCHANGED <<made, origin, home, asks>>,
             \A id \in Id : phase[id] = "none" <=> phase'[id] = "none",
             \A id \in Id : record'[id] # "none" => record[id] # "none" \/ id <= made
      PROVE  Fresh'
  BY <1>0, <1>1 DEF Fresh, Asked
<1>2. CASE Submit
  <2>1. made + 1 \in Id /\ made' = made + 1
    BY <1>2, RoomForId DEF Submit, Ask
  <2>2. Asked' = Asked \cup {made + 1}
    BY <1>2, <2>1, AskedGrows DEF Submit
  <2>3. record' = [record EXCEPT ![made + 1] = "Pending"] /\ UNCHANGED <<origin, home, phase>>
    BY <1>2 DEF Submit
  <2> QED  BY <1>0, <2>1, <2>2, <2>3 DEF Fresh, TypeOK
<1>3. ASSUME NEW id \in Id, Stop(id)  PROVE Fresh'
  <2>1. id <= made /\ Asked' = Asked \cup {id}
    BY <1>0, <1>3, AskedGrows DEF Stop, Fresh
  <2>2. record' = [record EXCEPT ![id] = "Completed"] /\ UNCHANGED <<made, origin, home, phase>>
    BY <1>3 DEF Stop
  <2> QED  BY <1>0, <2>1, <2>2 DEF Fresh, TypeOK
<1>4. ASSUME NEW w \in Worker, Send(w)  PROVE Fresh'
  <2>1. Head(pending) \in Id /\ Head(pending) \in Asked
    BY <1>4, Queues DEF Send, IInv, TypeOK, SentWasAsked
  <2>2. Head(pending) <= made
    BY <1>0, <2>1 DEF Fresh
  <2> QED  BY <1>0, <1>1, <1>4, <2>1, <2>2 DEF Send, TypeOK
<1>5. CASE SendNoWorker \/ SendCreated \/ SendFails \/ SendUnreadable \/ SendTimesOut
  BY <1>1, <1>5 DEF SendNoWorker, SendCreated, SendFails, SendUnreadable, SendTimesOut
<1>6. ASSUME NEW id \in Id, NEW w \in Worker, Take(id, w), made + 1 \in Id,
             UNCHANGED <<record, asks>>
      PROVE  Fresh'
  <2>1. /\ made' = made + 1 /\ made \in Nat /\ made + 1 \in Id
        /\ home[made + 1] = NoWorker /\ record[made + 1] = "none" /\ made + 1 \notin Asked
    BY <1>6, TakeAdds
  <2>2. home'[made + 1] = w /\ origin'[made + 1] = id /\ phase'[made + 1] # "none"
    BY <1>6, TakeAdds
  <2>3. \A c \in Id \ {made + 1} :
           home'[c] = home[c] /\ origin'[c] = origin[c] /\ phase'[c] = phase[c]
    BY <1>6, TakeAdds
  <2>4. record' = record /\ Asked' = Asked
    BY <1>6 DEF Asked
  <2>5. w # NoWorker /\ id # NoId
    BY <1>0
  <2>6. Fresh
    BY <1>0
  <2>7. ASSUME NEW c \in Id
        PROVE  /\ (home'[c] # NoWorker \/ record'[c] # "none" \/ c \in Asked') => c <= made'
               /\ home'[c] = NoWorker <=> phase'[c] = "none"
               /\ home'[c] = NoWorker <=> origin'[c] = NoId
    <3>1. CASE c = made + 1
      BY <2>1, <2>2, <2>5, <3>1
    <3>2. CASE c # made + 1
      <4>1. c \in Nat
        BY <1>0
      <4> QED  BY <2>1, <2>3, <2>4, <2>6, <3>2, <4>1 DEF Fresh
    <3> QED  BY <3>1, <3>2
  <2> QED  BY <2>7 DEF Fresh
<1>7. ASSUME NEW id \in Id, TakeRequest(id)  PROVE Fresh'
  <2>1. sendTo \in Worker /\ made + 1 \in Id
    BY <1>7, RoomForId DEF TakeRequest, IInv, TypeOK
  <2> QED  BY <1>6, <1>7, <2>1 DEF TakeRequest
<1>8. ASSUME NEW r \in late, TakeLate(r)  PROVE Fresh'
  <2>1. r.id \in Id /\ r.to \in Worker /\ made + 1 \in Id
    BY <1>8, RoomForId DEF IInv, TypeOK, Request
  <2> QED  BY <1>6, <1>8, <2>1 DEF TakeLate
<1>9. ASSUME NEW r \in late, LoseLate(r)  PROVE Fresh'
  BY <1>1, <1>9 DEF LoseLate
<1>10. CASE WorkerStep
  BY <1>1, <1>10, PhasesMove
<1>11. ASSUME NEW w \in Worker, PollAnswer(w) \/ PollFails(w)  PROVE Fresh'
  BY <1>1, <1>11 DEF PollAnswer, PollFails
<1>12. ASSUME NEW w \in Worker, PollApplies(w)  PROVE Fresh'
  <2>1. \A r \in answer[w] : r.id \in Id /\ home[r.id] # NoWorker
    BY <1>0 DEF IInv, TypeOK, AnswersLag
  <2>2. \A r \in answer[w] : r.id <= made
    BY <1>0, <2>1 DEF Fresh
  <2>3. \A id \in Id : id \notin {r.id : r \in answer[w]} => record'[id] = record[id]
    BY <1>12 DEF PollApplies
  <2> QED  BY <1>1, <1>12, <2>2, <2>3 DEF PollApplies
<1>13. CASE ManagerCrash
  BY <1>1, <1>13 DEF ManagerCrash
<1>14. CASE UNCHANGED vars
  BY <1>1, <1>14 DEF vars
<1> QED
  BY <1>2, <1>3, <1>4, <1>5, <1>7, <1>8, <1>9, <1>10, <1>11, <1>12, <1>13, <1>14
     DEF Next, ClientStep, SendStep, RequestStep, PollStep

-----------------------------------------------------------------------------
(* What the sender sends.                                                  *)

\* AddTask of a task clients asked for keeps the queue one of such tasks.
LEMMA EnqueueAsked ==
    ASSUME IInv, NEW id \in Id, Enqueue(id), Asked \subseteq Asked', id \in Asked'
    PROVE  \A i \in DOMAIN pending' : pending'[i] \in Asked'
<1>1. pending \in Seq(Id) /\ pending' = Append(pending, id)
  BY DEF IInv, TypeOK, Enqueue
<1>2. /\ DOMAIN pending = 1 .. Len(pending) /\ DOMAIN pending' = 1 .. Len(pending) + 1
      /\ pending'[Len(pending) + 1] = id
      /\ \A i \in 1 .. Len(pending) : pending'[i] = pending[i]
      /\ Len(pending) \in Nat
  BY <1>1
<1>3. \A i \in DOMAIN pending : pending[i] \in Asked
  BY DEF IInv, SentWasAsked
<1> QED  BY <1>2, <1>3

\* What SendWork takes off the queue was asked for, and so is what stays.
LEMMA DequeueAsked ==
    ASSUME IInv, pending # <<>>
    PROVE  /\ Head(pending) \in Asked /\ Head(pending) \in Id
           /\ \A i \in DOMAIN Tail(pending) : Tail(pending)[i] \in Asked
<1>1. pending \in Seq(Id)
  BY DEF IInv, TypeOK
<1>2. /\ DOMAIN pending = 1 .. Len(pending) /\ DOMAIN Tail(pending) = 1 .. Len(pending) - 1
      /\ Head(pending) = pending[1] /\ Head(pending) \in Id
      /\ \A i \in 1 .. Len(pending) - 1 : Tail(pending)[i] = pending[i + 1]
      /\ Len(pending) \in Nat \ {0}
  BY <1>1
<1>3. \A i \in DOMAIN pending : pending[i] \in Asked
  BY DEF IInv, SentWasAsked
<1>4. \A i \in 1 .. Len(pending) - 1 : i + 1 \in 1 .. Len(pending)
  BY <1>2
<1> QED  BY <1>2, <1>3, <1>4

\* Nothing is queued or sent but what clients asked for.
LEMMA SentNext == IInv /\ [Next]_vars => SentWasAsked'
<1> SUFFICES ASSUME IInv, [Next]_vars PROVE SentWasAsked'
  OBVIOUS
<1> USE DEF workers, manager, sender, history, counts
<1>0. SentWasAsked
  BY DEF IInv
<1>1. ASSUME UNCHANGED <<asks, pending, sendId>>, late' \subseteq late,
             sendAt' # "idle" => sendAt # "idle"
      PROVE  SentWasAsked'
  BY <1>0, <1>1 DEF SentWasAsked, Asked
<1>2. ASSUME NEW id \in Id, Ask(id), Enqueue(id), UNCHANGED <<sendId, sendAt, late>>
      PROVE  SentWasAsked'
  <2>1. Asked' = Asked \cup {id}
    BY <1>2, AskedGrows
  <2>2. \A i \in DOMAIN pending' : pending'[i] \in Asked'
    BY <1>2, <2>1, EnqueueAsked
  <2> QED  BY <1>0, <1>2, <2>1, <2>2 DEF SentWasAsked
<1>3. CASE Submit
  BY <1>2, <1>3, RoomForId DEF Submit, Ask
<1>4. ASSUME NEW id \in Id, Stop(id)  PROVE SentWasAsked'
  BY <1>2, <1>4 DEF Stop
<1>5. ASSUME NEW w \in Worker, Send(w)  PROVE SentWasAsked'
  BY <1>0, <1>5, DequeueAsked DEF Send, SentWasAsked, Asked
<1>6. CASE SendNoWorker
  BY <1>0, <1>6, DequeueAsked DEF SendNoWorker, SentWasAsked, Asked
<1>7. CASE SendCreated \/ SendUnreadable
  BY <1>0, <1>7 DEF SendCreated, SendUnreadable, SendIdle, SentWasAsked, Asked
<1>8. ASSUME sendAt # "idle", Enqueue(sendId), SendIdle, asks' = asks,
             \A r \in late' : r \in late \/ r.id = sendId
      PROVE  SentWasAsked'
  <2>1. sendId \in Id /\ sendId \in Asked /\ Asked' = Asked
    BY <1>0, <1>8 DEF IInv, TypeOK, SentWasAsked, Asked
  <2>2. \A i \in DOMAIN pending' : pending'[i] \in Asked'
    BY <1>8, <2>1, EnqueueAsked
  <2> QED  BY <1>0, <1>8, <2>1, <2>2 DEF SentWasAsked, SendIdle
<1>9. CASE SendFails
  BY <1>8, <1>9 DEF SendFails
<1>10. CASE SendTimesOut
  BY <1>8, <1>10, GivesUp DEF SendTimesOut
<1>11. ASSUME NEW id \in Id, TakeRequest(id)  PROVE SentWasAsked'
  BY <1>1, <1>11 DEF TakeRequest
<1>12. ASSUME NEW r \in late, TakeLate(r) \/ LoseLate(r)  PROVE SentWasAsked'
  BY <1>1, <1>12 DEF TakeLate, LoseLate
<1>13. CASE WorkerStep
  BY <1>1, <1>13, PhasesMove
<1>14. ASSUME NEW w \in Worker, PollAnswer(w) \/ PollFails(w) \/ PollApplies(w)
       PROVE  SentWasAsked'
  BY <1>1, <1>14 DEF PollAnswer, PollFails, PollApplies
<1>15. CASE ManagerCrash
  <2>1. ASSUME NEW r \in late'  PROVE r \in late \/ (sendAt = "out" /\ r.id = sendId)
    <3>1. GiveUp
      BY <1>15 DEF ManagerCrash
    <3> QED  BY <2>1, <3>1, GivesUp
  <2> QED  BY <1>0, <1>15, <2>1 DEF ManagerCrash, SendIdle, SentWasAsked, Asked
<1>16. CASE UNCHANGED vars
  BY <1>1, <1>16 DEF vars
<1> QED
  BY <1>3, <1>4, <1>5, <1>6, <1>7, <1>9, <1>10, <1>11, <1>12, <1>13, <1>14, <1>15, <1>16
     DEF Next, ClientStep, SendStep, RequestStep, PollStep

\* The tasks that were made of a request stay where they are.
LEMMA CopiesStay ==
    ASSUME IInv, [Next]_vars
    PROVE  \A id, c \in Id : c \in Copies(id) => c \in Copies(id)' /\ home'[c] = home[c]
<1> USE DEF workers, manager, sender, history, counts
<1>1. CASE UNCHANGED <<origin, home>>
  BY <1>1 DEF Copies
<1>2. ASSUME NEW id \in Id, NEW w \in Worker, Take(id, w), made + 1 \in Id
      PROVE  \A i, c \in Id : c \in Copies(i) => c \in Copies(i)' /\ home'[c] = home[c]
  <2>1. origin[made + 1] = NoId /\ NoId \notin Id
    BY <1>2, TakeAdds DEF IInv, Fresh, Id, NoId
  <2> QED  BY <1>2, <2>1, TakeAdds DEF Copies
<1>3. ASSUME NEW id \in Id, TakeRequest(id)
      PROVE  \A i, c \in Id : c \in Copies(i) => c \in Copies(i)' /\ home'[c] = home[c]
  <2>1. sendTo \in Worker /\ made + 1 \in Id
    BY <1>3, RoomForId DEF TakeRequest, IInv, TypeOK
  <2> QED  BY <1>2, <1>3, <2>1 DEF TakeRequest
<1>4. ASSUME NEW r \in late, TakeLate(r)
      PROVE  \A i, c \in Id : c \in Copies(i) => c \in Copies(i)' /\ home'[c] = home[c]
  <2>1. r.id \in Id /\ r.to \in Worker /\ made + 1 \in Id
    BY <1>4, RoomForId DEF IInv, TypeOK, Request
  <2> QED  BY <1>2, <1>4, <2>1 DEF TakeLate
<1>5. CASE ClientStep \/ SendStep
  BY <1>1, <1>5 DEF ClientStep, Submit, Stop, SendStep, SendNoWorker, Send, SendCreated,
     SendFails, SendUnreadable, SendTimesOut
<1>6. CASE WorkerStep
  BY <1>1, <1>6, PhasesMove
<1>7. CASE PollStep \/ ManagerCrash
  BY <1>1, <1>7 DEF PollStep, PollAnswer, PollFails, PollApplies, ManagerCrash
<1>8. CASE UNCHANGED vars
  BY <1>1, <1>8 DEF vars
<1>9. ASSUME NEW r \in late, LoseLate(r)  PROVE UNCHANGED <<origin, home>>
  BY <1>9 DEF LoseLate
<1> QED  BY <1>1, <1>3, <1>4, <1>5, <1>6, <1>7, <1>8, <1>9 DEF Next, RequestStep

\* 201 is the answer to a request that was taken.
LEMMA TakenNext == IInv /\ [Next]_vars => TakenIsThere'
<1> SUFFICES ASSUME IInv, [Next]_vars PROVE TakenIsThere'
  OBVIOUS
<1> USE DEF workers, manager, sender, history, counts
<1>1. ASSUME UNCHANGED sender  PROVE TakenIsThere'
  <2>1. CASE sendAt = "taken"
    <3>1. sendId \in Id /\ sendId' = sendId /\ sendTo' = sendTo
      BY <1>1, <2>1 DEF IInv, TypeOK
    <3>2. PICK copy \in Copies(sendId) : home[copy] = sendTo
      BY <2>1 DEF IInv, TakenIsThere
    <3>3. copy \in Copies(sendId)' /\ home'[copy] = sendTo'
      BY <3>1, <3>2, CopiesStay DEF Copies
    <3> QED  BY <3>3 DEF TakenIsThere
  <2> QED  BY <1>1, <2>1 DEF TakenIsThere
<1>2. ASSUME NEW id \in Id, TakeRequest(id)  PROVE TakenIsThere'
  <2>1. sendTo \in Worker /\ made + 1 \in Id /\ Take(id, sendTo) /\ sendId = id
    BY <1>2, RoomForId DEF TakeRequest, IInv, TypeOK
  <2>2. origin'[made + 1] = id /\ home'[made + 1] = sendTo
    BY <2>1, TakeAdds
  <2>3. sendId' = id /\ sendTo' = sendTo
    BY <1>2, <2>1 DEF TakeRequest
  <2> QED  BY <2>1, <2>2, <2>3 DEF TakenIsThere, Copies
<1>3. ASSUME sendAt' # "taken"  PROVE TakenIsThere'
  BY <1>3 DEF TakenIsThere
<1>4. CASE ClientStep
  BY <1>1, <1>4 DEF ClientStep, Submit, Stop
<1>5. CASE SendStep \/ ManagerCrash
  <2>1. sendAt' # "taken" \/ UNCHANGED sender
    BY <1>5 DEF SendStep, SendNoWorker, Send, SendCreated, SendFails, SendUnreadable,
       SendTimesOut, ManagerCrash, SendIdle
  <2> QED  BY <1>1, <1>3, <2>1
<1>6. ASSUME NEW r \in late, TakeLate(r) \/ LoseLate(r)  PROVE TakenIsThere'
  BY <1>1, <1>6 DEF TakeLate, LoseLate
<1>7. CASE WorkerStep
  BY <1>1, <1>7, PhasesMove
<1>8. CASE PollStep
  BY <1>1, <1>8 DEF PollStep, PollAnswer, PollFails, PollApplies
<1>9. CASE UNCHANGED vars
  BY <1>1, <1>9 DEF vars
<1> QED  BY <1>2, <1>4, <1>5, <1>6, <1>7, <1>8, <1>9 DEF Next, RequestStep

-----------------------------------------------------------------------------
(* What the manager knows.                                                 *)

\* An answer on its way never says more than what its worker has got to.
LEMMA AnswersNext == IInv /\ [Next]_vars => AnswersLag'
<1> SUFFICES ASSUME IInv, [Next]_vars PROVE AnswersLag'
  OBVIOUS
<1> USE DEF workers, manager, sender, history, counts
<1>0. /\ AnswersLag /\ TypeOK
      /\ \A w \in Worker : \A r \in answer[w] : r.id \in Id
  BY DEF IInv, TypeOK
<1>1. ASSUME UNCHANGED <<home, phase>>, \A w \in Worker : answer'[w] \subseteq answer[w]
      PROVE  AnswersLag'
  BY <1>0, <1>1 DEF AnswersLag
<1>2. ASSUME NEW id \in Id, NEW w \in Worker, Take(id, w), made + 1 \in Id, answer' = answer
      PROVE  AnswersLag'
  <2>1. \A v \in Worker : \A r \in answer[v] : r.id # made + 1
    BY <1>0, <1>2, TakeAdds, MinkubeAssumption DEF AnswersLag
  <2>2. \A v \in Worker : \A r \in answer[v] :
           r.id \in Id /\ home'[r.id] = home[r.id] /\ phase'[r.id] = phase[r.id]
    BY <1>0, <1>2, <2>1, TakeAdds
  <2> QED  BY <1>0, <1>2, <2>2 DEF AnswersLag
<1>3. ASSUME NEW id \in Id, TakeRequest(id)  PROVE AnswersLag'
  <2>1. sendTo \in Worker /\ made + 1 \in Id
    BY <1>3, RoomForId DEF TakeRequest, IInv, TypeOK
  <2> QED  BY <1>2, <1>3, <2>1 DEF TakeRequest
<1>4. ASSUME NEW r \in late, TakeLate(r)  PROVE AnswersLag'
  <2>1. r.id \in Id /\ r.to \in Worker /\ made + 1 \in Id
    BY <1>4, RoomForId DEF IInv, TypeOK, Request
  <2> QED  BY <1>2, <1>4, <2>1 DEF TakeLate
<1>5. ASSUME NEW r \in late, LoseLate(r)  PROVE AnswersLag'
  BY <1>1, <1>5 DEF LoseLate
<1>6. CASE ClientStep \/ SendStep
  BY <1>1, <1>6 DEF ClientStep, Submit, Stop, SendStep, SendNoWorker, Send, SendCreated,
     SendFails, SendUnreadable, SendTimesOut
<1>7. CASE WorkerStep
  <2>1. /\ home' = home /\ answer' = answer
        /\ \A id \in Id :
              /\ phase[id] = "none" <=> phase'[id] = "none"
              /\ phase'[id] = "queued" => phase[id] = "queued"
              /\ phase'[id] = "Running" => phase[id] \in {"Running", "queued"}
    BY <1>7, PhasesMove
  <2> QED  BY <1>0, <2>1 DEF AnswersLag
<1>8. ASSUME NEW w \in Worker, PollAnswer(w)  PROVE AnswersLag'
  <2>1. /\ \A v \in Worker : v # w => answer'[v] = answer[v]
        /\ answer'[w] = {[id |-> id, state |-> phase[id]] : id \in Served(w)}
        /\ home' = home /\ phase' = phase
    BY <1>0, <1>8 DEF PollAnswer, TypeOK
  <2>2. ASSUME NEW r \in answer'[w]
        PROVE  home[r.id] = w /\ phase[r.id] \in Reported /\ r.state = phase[r.id]
    BY <2>1, <2>2 DEF Served
  <2> QED  BY <1>0, <2>1, <2>2 DEF AnswersLag, Reported
<1>9. ASSUME NEW w \in Worker, PollFails(w) \/ PollApplies(w)  PROVE AnswersLag'
  <2>1. \A v \in Worker : answer'[v] \subseteq answer[v]
    BY <1>0, <1>9 DEF PollFails, PollApplies, TypeOK
  <2> QED  BY <1>1, <1>9, <2>1 DEF PollFails, PollApplies
<1>10. CASE ManagerCrash
  BY <1>1, <1>10 DEF ManagerCrash
<1>11. CASE UNCHANGED vars
  BY <1>1, <1>11 DEF vars
<1> QED
  BY <1>3, <1>4, <1>5, <1>6, <1>7, <1>8, <1>9, <1>10, <1>11
     DEF Next, RequestStep, PollStep

\* The manager's record never runs ahead of the worker.
LEMMA RecordsNext == IInv /\ [Next]_vars => RecordsFollow'
<1> SUFFICES ASSUME IInv, [Next]_vars PROVE RecordsFollow'
  OBVIOUS
<1> USE DEF workers, manager, sender, history, counts
<1>0. RecordsFollow /\ TypeOK /\ Fresh /\ NoWorker \notin Worker
  BY MinkubeAssumption DEF IInv
<1>1. ASSUME UNCHANGED <<home, phase, asks>>,
             \A id \in Id : record'[id] \in {record[id], "none"} \/ id \in Asked
      PROVE  RecordsFollow'
  BY <1>0, <1>1 DEF RecordsFollow, RecordFollows, Asked
<1>2. ASSUME NEW id \in Id, Ask(id), UNCHANGED <<home, phase>>,
             \A i \in Id : i # id => record'[i] = record[i]
      PROVE  RecordsFollow'
  <2>1. Asked' = Asked \cup {id}
    BY <1>2, AskedGrows
  <2> QED  BY <1>0, <1>2, <2>1 DEF RecordsFollow, RecordFollows
<1>3. CASE Submit
  <2>1. made + 1 \in Id /\ \A i \in Id : i # made + 1 => record'[i] = record[i]
    BY <1>0, <1>3, RoomForId DEF Submit, Ask, TypeOK
  <2> QED  BY <1>2, <1>3, <2>1 DEF Submit
<1>4. ASSUME NEW id \in Id, Stop(id)  PROVE RecordsFollow'
  <2>1. \A i \in Id : i # id => record'[i] = record[i]
    BY <1>0, <1>4 DEF Stop, TypeOK
  <2> QED  BY <1>2, <1>4, <2>1 DEF Stop
<1>5. ASSUME NEW w \in Worker, Send(w)  PROVE RecordsFollow'
  <2>1. Head(pending) \in Asked
    BY <1>5, DequeueAsked DEF Send
  <2>2. \A i \in Id : i # Head(pending) => record'[i] = record[i]
    BY <1>0, <1>5 DEF Send, TypeOK
  <2> QED  BY <1>1, <1>5, <2>1, <2>2 DEF Send
<1>6. CASE SendNoWorker \/ SendCreated \/ SendFails \/ SendUnreadable \/ SendTimesOut
  BY <1>1, <1>6 DEF SendNoWorker, SendCreated, SendFails, SendUnreadable, SendTimesOut
<1>7. ASSUME NEW id \in Id, NEW w \in Worker, Take(id, w), made + 1 \in Id,
             UNCHANGED <<record, asks>>
      PROVE  RecordsFollow'
  <2>1. Asked' = Asked
    BY <1>7 DEF Asked
  <2>2. record'[made + 1] = "none"
    BY <1>7, TakeAdds
  <2>3. \A i \in Id \ {made + 1} :
           home'[i] = home[i] /\ phase'[i] = phase[i] /\ record'[i] = record[i]
    BY <1>7, TakeAdds
  <2> QED  BY <1>0, <2>1, <2>2, <2>3 DEF RecordsFollow, RecordFollows
<1>8. ASSUME NEW id \in Id, TakeRequest(id)  PROVE RecordsFollow'
  <2>1. sendTo \in Worker /\ made + 1 \in Id
    BY <1>8, RoomForId DEF TakeRequest, IInv, TypeOK
  <2> QED  BY <1>7, <1>8, <2>1 DEF TakeRequest
<1>9. ASSUME NEW r \in late, TakeLate(r)  PROVE RecordsFollow'
  <2>1. r.id \in Id /\ r.to \in Worker /\ made + 1 \in Id
    BY <1>9, RoomForId DEF IInv, TypeOK, Request
  <2> QED  BY <1>7, <1>9, <2>1 DEF TakeLate
<1>10. ASSUME NEW r \in late, LoseLate(r)  PROVE RecordsFollow'
  BY <1>1, <1>10 DEF LoseLate
<1>11. CASE WorkerStep
  <2>1. /\ UNCHANGED <<home, asks, record>>
        /\ \A id \in Id :
              /\ phase[id] = "none" <=> phase'[id] = "none"
              /\ phase'[id] = "queued" => phase[id] = "queued"
              /\ phase'[id] = "Running" => phase[id] \in {"Running", "queued"}
    BY <1>11, PhasesMove
  <2> QED  BY <1>0, <2>1 DEF RecordsFollow, RecordFollows, Asked
<1>12. ASSUME NEW w \in Worker, PollAnswer(w) \/ PollFails(w)  PROVE RecordsFollow'
  BY <1>1, <1>12 DEF PollAnswer, PollFails
<1>13. ASSUME NEW w \in Worker, PollApplies(w)  PROVE RecordsFollow'
  <2>1. UNCHANGED <<home, phase, asks>> /\ Asked' = Asked
    BY <1>13 DEF PollApplies, Asked
  <2>2. ASSUME NEW id \in Id, id \in {r.id : r \in answer[w]}
        PROVE  RecordFollows(id)'
    <3>1. PICK r \in answer[w] : r.id = id /\ StateIn(answer[w], id) = r.state
      BY <2>2, SaysOne
    <3>2. record'[id] = r.state
      BY <1>13, <2>2, <3>1 DEF PollApplies
    <3>3. /\ home[id] = w /\ phase[id] \notin {"none", "queued"}
          /\ phase[id] = "Running" => r.state = "Running"
      BY <3>1 DEF IInv, AnswersLag
    <3> QED  BY <1>0, <2>1, <3>2, <3>3 DEF RecordFollows
  <2>3. ASSUME NEW id \in Id, id \notin {r.id : r \in answer[w]}
        PROVE  RecordFollows(id)'
    <3>1. record'[id] = record[id]
      BY <1>13, <2>3 DEF PollApplies
    <3> QED  BY <1>0, <2>1, <3>1 DEF RecordsFollow, RecordFollows
  <2> QED  BY <2>2, <2>3 DEF RecordsFollow
<1>14. CASE ManagerCrash
  BY <1>1, <1>14 DEF ManagerCrash
<1>15. CASE UNCHANGED vars
  BY <1>1, <1>15 DEF vars
<1> QED
  BY <1>3, <1>4, <1>5, <1>6, <1>8, <1>9, <1>10, <1>11, <1>12, <1>13, <1>14, <1>15
     DEF Next, ClientStep, SendStep, RequestStep, PollStep

\* An assignment names the worker that took the task or reports it.
LEMMA AssignedNext == IInv /\ [Next]_vars => AssignedWasTaken'
<1> SUFFICES ASSUME IInv, [Next]_vars PROVE AssignedWasTaken'
  OBVIOUS
<1> USE DEF workers, manager, sender, history, counts
<1>0. AssignedWasTaken /\ TypeOK /\ Fresh /\ NoWorker \notin Worker
  BY MinkubeAssumption DEF IInv
<1>1. \A id \in Id : home[id] # NoWorker => home'[id] = home[id]
  <2>1. \A id \in Id : home[id] # NoWorker => origin[id] \in Id
    BY <1>0 DEF TypeOK, Fresh
  <2> QED  BY <2>1, CopiesStay DEF Copies
<1>2. ASSUME \A id \in Id :
                 \/ assigned'[id] \in {assigned[id], NoWorker}
                 \/ home'[id] = assigned'[id]
                 \/ \E copy \in Copies(id)' : home'[copy] = assigned'[id]
      PROVE  AssignedWasTaken'
  <2> SUFFICES ASSUME NEW id \in Id, assigned'[id] # NoWorker, assigned'[id] = assigned[id]
               PROVE  \/ home'[id] = assigned'[id]
                      \/ \E copy \in Copies(id)' : home'[copy] = assigned'[id]
    BY <1>2 DEF AssignedWasTaken
  <2>1. CASE home[id] = assigned[id]
    BY <1>1, <2>1
  <2>2. CASE \E copy \in Copies(id) : home[copy] = assigned[id]
    <3>1. PICK copy \in Copies(id) : home[copy] = assigned[id]
      BY <2>2
    <3>2. copy \in Copies(id)' /\ home'[copy] = home[copy]
      BY CopiesStay DEF Copies
    <3> QED  BY <3>1, <3>2
  <2> QED  BY <1>0, <2>1, <2>2 DEF AssignedWasTaken
<1>3. CASE assigned' = assigned
  BY <1>2, <1>3
<1>4. CASE SendCreated
  <2>1. sendAt = "taken" /\ assigned' = [assigned EXCEPT ![sendId] = sendTo]
    BY <1>4 DEF SendCreated
  <2>2. PICK sent \in Id : sent = sendId
    BY <1>0, <2>1 DEF TypeOK
  <2>3. PICK copy \in Copies(sent) : home[copy] = sendTo
    BY <2>1, <2>2 DEF IInv, TakenIsThere
  <2>4. copy \in Copies(sent)' /\ home'[copy] = sendTo
    <3>1. copy \in Id
      BY DEF Copies
    <3> QED  BY <2>2, <2>3, <3>1, CopiesStay
  <2>5. ASSUME NEW id \in Id, id # sent  PROVE assigned'[id] = assigned[id]
    BY <1>0, <2>1, <2>2, <2>5 DEF TypeOK
  <2>6. assigned'[sent] = sendTo
    BY <1>0, <2>1, <2>2 DEF TypeOK
  <2> QED  BY <1>2, <2>4, <2>5, <2>6
<1>5. ASSUME NEW w \in Worker, PollApplies(w)  PROVE AssignedWasTaken'
  <2>1. \A r \in answer[w] : home[r.id] = w
    BY DEF IInv, AnswersLag
  <2>2. \A id \in Id : assigned'[id] = IF id \in {r.id : r \in answer[w]} /\ record[id] = "none"
                                       THEN w ELSE assigned[id]
    BY <1>5 DEF PollApplies
  <2>3. home' = home
    BY <1>5 DEF PollApplies
  <2> QED  BY <1>2, <2>1, <2>2, <2>3
<1>6. CASE ManagerCrash
  BY <1>2, <1>6 DEF ManagerCrash
<1>7. ASSUME NEW w \in Worker, PollAnswer(w) \/ PollFails(w)  PROVE assigned' = assigned
  BY <1>7 DEF PollAnswer, PollFails
<1>8. CASE SendNoWorker \/ (\E w \in Worker : Send(w)) \/ SendFails \/ SendUnreadable \/ SendTimesOut
  BY <1>3, <1>8 DEF SendNoWorker, Send, SendFails, SendUnreadable, SendTimesOut
<1>9. CASE ClientStep \/ RequestStep
  BY <1>3, <1>9 DEF ClientStep, Submit, Stop, RequestStep, TakeRequest, TakeLate, LoseLate
<1>10. CASE WorkerStep
  BY <1>3, <1>10, PhasesMove
<1>11. CASE UNCHANGED vars
  BY <1>3, <1>11 DEF vars
<1> QED
  BY <1>3, <1>4, <1>5, <1>6, <1>7, <1>8, <1>9, <1>10, <1>11 DEF Next, SendStep, PollStep

-----------------------------------------------------------------------------

\* The invariant is inductive: every step, and stuttering, keeps it.
LEMMA InvNext == IInv /\ [Next]_vars => IInv'
BY TypeNext, BudgetNext, FreshNext, SentNext, TakenNext, AnswersNext, RecordsNext, AssignedNext
   DEF IInv

\* The inductive invariant holds in every state.
THEOREM Invariance == Spec => []IInv
BY InitInv, InvNext, PTL DEF Spec

\* Every table holds what it is made for, and the ids suffice for every order
\* of requests, retries and late answers.
THEOREM TypeCorrect == Spec => []TypeOK
<1>1. IInv => TypeOK
  BY DEF IInv
<1> QED  BY <1>1, Invariance, PTL

\* TaskWorkerMap names a worker that took the task or reports it as its own.
THEOREM AssignmentsWereTaken == Spec => []AssignedWasTaken
<1>1. IInv => AssignedWasTaken
  BY DEF IInv
<1> QED  BY <1>1, Invariance, PTL

\* What the manager knows of a worker's task never runs ahead of the worker,
\* whatever answers are late, lost or applied after a crash.
THEOREM RecordsNeverAhead == Spec => []RecordsLag
<1>1. ASSUME IInv, NEW id \in Id, Count(asks, id) = 0  PROVE id \notin Asked
  <2>1. asks \in Seq(Id) /\ DOMAIN asks = 1 .. Len(asks)
    BY <1>1, Queues DEF IInv, TypeOK
  <2> QED  BY <1>1, <2>1, CountZero DEF Asked
<1>2. IInv => RecordsLag
  BY <1>1 DEF IInv, RecordsFollow, RecordFollows, RecordsLag
<1> QED  BY <1>2, Invariance, PTL

-----------------------------------------------------------------------------
(* Minkube implements Delivery.                                            *)

Given == [id \in Id |-> Count(asks, id) + Count(repeats, id)]
Open == [id \in Id |-> Count(pending, id) + Outstanding(id) + LateFor(id)]
Taken == [id \in Id |-> Cardinality(Copies(id))]

\* All that is counted is finite.
LEMMA Counts ==
    ASSUME IInv, NEW id \in Id
    PROVE  /\ Count(asks, id) \in Nat /\ Count(repeats, id) \in Nat /\ Count(pending, id) \in Nat
           /\ Outstanding(id) \in Nat
           /\ IsFiniteSet({r \in late : r.id = id}) /\ LateFor(id) \in Nat
           /\ IsFiniteSet(Copies(id)) /\ Cardinality(Copies(id)) \in Nat
<1>1. asks \in Seq(Id) /\ repeats \in Seq(Id) /\ pending \in Seq(Id) /\ IsFiniteSet(late)
  BY DEF IInv, TypeOK, Budget
<1>2. Count(asks, id) \in Nat /\ Count(repeats, id) \in Nat /\ Count(pending, id) \in Nat
  BY <1>1, CountType
<1>3. IsFiniteSet({r \in late : r.id = id}) /\ LateFor(id) \in Nat
  BY <1>1, FS_Subset, FS_CardinalityType DEF LateFor
<1>4. IsFiniteSet(Id)
  BY RoomForId, FS_Interval DEF Id
<1>5. IsFiniteSet(Copies(id)) /\ Cardinality(Copies(id)) \in Nat
  BY <1>4, FS_Subset, FS_CardinalityType DEF Copies
<1> QED  BY <1>2, <1>3, <1>5 DEF Outstanding

\* A request that is given up is late instead of on its way.
LEMMA GivesUpCounts ==
    ASSUME IInv, GiveUp, NEW id \in Id
    PROVE  LateFor(id)' = LateFor(id) + Outstanding(id)
<1> DEFINE new == [id |-> sendId, to |-> sendTo, no |-> Len(repeats) + crashes]
           Of == {r \in late : r.id = id}
<1>1. IsFiniteSet(Of) /\ LateFor(id) = Cardinality(Of) /\ Cardinality(Of) \in Nat
      /\ LateFor(id)' = Cardinality({r \in late' : r.id = id})
  BY Counts DEF LateFor
<1>2. CASE sendAt = "out" /\ sendId = id
  <2>1. new \notin Of
    <3>1. Len(repeats) + crashes \in Nat /\ \A r \in late : r.no < Len(repeats) + crashes
      BY Queues DEF IInv, TypeOK, Budget
    <3> QED  BY <3>1
  <2>2. {r \in late' : r.id = id} = Of \cup {new}
    BY <1>2 DEF GiveUp
  <2> HIDE DEF Of, new
  <2>3. Cardinality(Of \cup {new}) = Cardinality(Of) + 1
    BY <1>1, <2>1, FS_AddElement
  <2> QED  BY <1>1, <1>2, <2>2, <2>3 DEF Outstanding
<1>3. CASE ~(sendAt = "out" /\ sendId = id)
  <2>1. {r \in late' : r.id = id} = Of
    BY <1>3 DEF GiveUp
  <2>2. Outstanding(id) = 0
    BY <1>3 DEF Outstanding
  <2> HIDE DEF Of
  <2>3. LateFor(id)' = LateFor(id) /\ LateFor(id) \in Nat
    BY <1>1, <2>1
  <2> QED  BY <2>2, <2>3
<1> QED  BY <1>2, <1>3

\* A request that is taken or lost is late no more.
LEMMA LateCounts ==
    ASSUME IInv, NEW r \in late, late' = late \ {r}, NEW id \in Id
    PROVE  LateFor(id)' = IF r.id = id THEN LateFor(id) - 1 ELSE LateFor(id)
<1> DEFINE Of == {x \in late : x.id = id}
<1>1. IsFiniteSet(Of) /\ LateFor(id) = Cardinality(Of) /\ Cardinality(Of) \in Nat
      /\ LateFor(id)' = Cardinality({x \in late' : x.id = id})
  BY Counts DEF LateFor
<1>2. {x \in late' : x.id = id} = Of \ {r}
  OBVIOUS
<1>3. r \in Of <=> r.id = id
  OBVIOUS
<1> HIDE DEF Of
<1>4. Cardinality(Of \ {r}) = IF r \in Of THEN Cardinality(Of) - 1 ELSE Cardinality(Of)
  BY <1>1, FS_RemoveElement
<1> QED  BY <1>1, <1>2, <1>3, <1>4

\* A request that is taken makes one more task of what was asked for.
LEMMA TakeCounts ==
    ASSUME IInv, NEW id \in Id, NEW w \in Worker, Take(id, w), made + 1 \in Id, NEW i \in Id
    PROVE  Cardinality(Copies(i)') =
              IF i = id THEN Cardinality(Copies(i)) + 1 ELSE Cardinality(Copies(i))
<1>1. IsFiniteSet(Copies(i)) /\ Cardinality(Copies(i)) \in Nat
  BY Counts
<1>2. origin[made + 1] = NoId /\ NoId \notin Id /\ origin'[made + 1] = id
      /\ \A c \in Id \ {made + 1} : origin'[c] = origin[c]
  BY TakeAdds DEF IInv, Fresh, Id, NoId
<1>3. CASE i = id
  <2>1. Copies(i)' = Copies(i) \cup {made + 1} /\ made + 1 \notin Copies(i)
    BY <1>2, <1>3 DEF Copies
  <2> QED  BY <1>1, <1>3, <2>1, FS_AddElement
<1>4. CASE i # id
  <2>1. Copies(i)' = Copies(i)
    BY <1>2, <1>4 DEF Copies
  <2> QED  BY <1>4, <2>1
<1> QED  BY <1>3, <1>4

\* At first nothing was given to a worker, nothing is open and nothing taken.
LEMMA InitPromise == Init => Promise!Init
<1> SUFFICES ASSUME Init PROVE Promise!Init
  OBVIOUS
<1>1. ASSUME NEW id \in Id
      PROVE  /\ Count(asks, id) = 0 /\ Count(repeats, id) = 0 /\ Count(pending, id) = 0
             /\ Outstanding(id) = 0 /\ LateFor(id) = 0 /\ Cardinality(Copies(id)) = 0
  <2>1. asks = <<>> /\ repeats = <<>> /\ pending = <<>> /\ late = {} /\ sendAt = "idle"
    BY DEF Init
  <2>2. {i \in DOMAIN <<>> : <<>>[i] = id} = {}
    OBVIOUS
  <2>3. Count(<<>>, id) = 0
    BY <2>2, FS_EmptySet DEF Count
  <2>4. Copies(id) = {}
    BY DEF Init, Copies, Id, NoId
  <2>5. {r \in late : r.id = id} = {}
    BY <2>1
  <2> QED  BY <2>1, <2>3, <2>4, <2>5, FS_EmptySet DEF Outstanding, LateFor
<1> QED  BY <1>1 DEF Promise!Init

\* One more is given, for a worker to take.
LEMMA Gives ==
    ASSUME NEW id \in Id,
           \A i \in Id :
              /\ Given'[i] = IF i = id THEN Given[i] + 1 ELSE Given[i]
              /\ Open'[i] = IF i = id THEN Open[i] + 1 ELSE Open[i],
           Taken' = Taken
    PROVE  Promise!Give(id)
<1>1. Given' = [Given EXCEPT ![id] = @ + 1]
  BY DEF Given
<1>2. Open' = [Open EXCEPT ![id] = @ + 1]
  BY DEF Open
<1> QED  BY <1>1, <1>2 DEF Promise!Give, Given, Open, Taken

\* One that was given is taken.
LEMMA Takes ==
    ASSUME NEW id \in Id, Open[id] > 0,
           \A i \in Id :
              /\ Open'[i] = IF i = id THEN Open[i] - 1 ELSE Open[i]
              /\ Taken'[i] = IF i = id THEN Taken[i] + 1 ELSE Taken[i],
           Given' = Given
    PROVE  Promise!Take(id)
<1>1. Open' = [Open EXCEPT ![id] = @ - 1]
  BY DEF Open
<1>2. Taken' = [Taken EXCEPT ![id] = @ + 1]
  BY DEF Taken
<1> QED  BY <1>1, <1>2 DEF Promise!Take, Given, Open, Taken

\* Some are lost.
LEMMA Loses ==
    ASSUME \A i \in Id : Open'[i] \in Nat /\ Open'[i] <= Open[i],
           Given' = Given, Taken' = Taken
    PROVE  Promise!Lose
<1>1. Open' \in [Id -> Nat]
  BY DEF Open
<1> QED  BY <1>1 DEF Promise!Lose, Given, Open, Taken

\* What SendWork queues again counts once more.
LEMMA EnqueueCounts ==
    ASSUME IInv, NEW id \in Id, Enqueue(id), NEW i \in Id
    PROVE  Count(pending, i)' = IF i = id THEN Count(pending, i) + 1 ELSE Count(pending, i)
<1>1. pending \in Seq(Id) /\ pending' = Append(pending, id) /\ Count(pending, i) \in Nat
  BY Counts DEF IInv, TypeOK, Enqueue
<1>2. Count(Append(pending, id), i) = Count(pending, i) + IF id = i THEN 1 ELSE 0
  BY <1>1, CountAppend
<1>3. Count(pending, i)' = Count(Append(pending, id), i)
  BY <1>1 DEF Count
<1> QED  BY <1>1, <1>2, <1>3

\* A step of minkube gives a task once more, has one taken or loses some, or
\* Delivery does not see it.
LEMMA StepPromise == IInv /\ [Next]_vars => [Promise!Next]_(Promise!vars)
<1> SUFFICES ASSUME IInv, [Next]_vars
             PROVE  Promise!Next \/ UNCHANGED <<Given, Open, Taken>>
  BY DEF Promise!vars, Given, Open, Taken
<1> USE DEF workers, manager, sender, history, counts
<1>a. asks' = asks /\ repeats' = repeats => Given' = Given
  BY DEF Given
<1>b. origin' = origin => Taken' = Taken
  BY DEF Taken, Copies
<1>c. UNCHANGED <<pending, sendId, sendAt, late>> => Open' = Open
  BY DEF Open, Outstanding, LateFor
<1>d. \A i \in Id :
         /\ Given[i] = Count(asks, i) + Count(repeats, i)
         /\ Given'[i] = Count(asks, i)' + Count(repeats, i)'
         /\ Open[i] = Count(pending, i) + Outstanding(i) + LateFor(i)
         /\ Open'[i] = Count(pending, i)' + Outstanding(i)' + LateFor(i)'
         /\ Taken[i] = Cardinality(Copies(i)) /\ Taken'[i] = Cardinality(Copies(i)')
  BY DEF Given, Open, Taken
<1>1. ASSUME NEW id \in Id, Ask(id), Enqueue(id), UNCHANGED <<repeats, origin, sendId, sendAt, late>>
      PROVE  Promise!Next
  <2>1. ASSUME NEW i \in Id
        PROVE  /\ Given'[i] = IF i = id THEN Given[i] + 1 ELSE Given[i]
               /\ Open'[i] = IF i = id THEN Open[i] + 1 ELSE Open[i]
    <3>a. /\ Count(pending, i) \in Nat /\ Outstanding(i) \in Nat /\ LateFor(i) \in Nat
          /\ Count(asks, i) \in Nat /\ Count(repeats, i) \in Nat
          /\ Cardinality(Copies(i)) \in Nat
      BY Counts
    <3>1. Count(asks, i)' = Count(asks, i) + IF id = i THEN 1 ELSE 0
      <4>1. asks \in Seq(Id) /\ asks' = Append(asks, id)
        BY <1>1 DEF IInv, TypeOK, Ask
      <4>2. Count(Append(asks, id), i) = Count(asks, i) + IF id = i THEN 1 ELSE 0
        BY <4>1, CountAppend
      <4> QED  BY <4>1, <4>2 DEF Count
    <3>2. Count(pending, i)' = IF i = id THEN Count(pending, i) + 1 ELSE Count(pending, i)
      BY <1>1, EnqueueCounts
    <3>3. /\ Count(repeats, i)' = Count(repeats, i)
          /\ Outstanding(i)' = Outstanding(i) /\ LateFor(i)' = LateFor(i)
      BY <1>1 DEF Count, Outstanding, LateFor
    <3> QED  BY <1>d, <3>1, <3>2, <3>3, <3>a
  <2>2. Promise!Give(id)
    BY <1>1, <1>b, <2>1, Gives
  <2> QED  BY <2>2 DEF Promise!Next
<1>2. CASE Submit
  BY <1>1, <1>2, RoomForId DEF Submit, Ask
<1>3. ASSUME NEW id \in Id, Stop(id)  PROVE Promise!Next
  BY <1>1, <1>3 DEF Stop
<1>4. ASSUME NEW w \in Worker, Send(w)  PROVE UNCHANGED <<Given, Open, Taken>>
  <2>1. pending \in Seq(Id) /\ pending # <<>> /\ pending' = Tail(pending)
    BY <1>4 DEF Send, IInv, TypeOK
  <2>2. ASSUME NEW i \in Id
        PROVE  Count(pending, i)' + Outstanding(i)' + LateFor(i)' =
                  Count(pending, i) + Outstanding(i) + LateFor(i)
    <3>a. /\ Count(pending, i) \in Nat /\ Outstanding(i) \in Nat /\ LateFor(i) \in Nat
          /\ Count(asks, i) \in Nat /\ Count(repeats, i) \in Nat
          /\ Cardinality(Copies(i)) \in Nat
      BY Counts
    <3>1. Count(pending, i) = Count(Tail(pending), i) + IF Head(pending) = i THEN 1 ELSE 0
      BY <2>1, CountTail
    <3>2. Count(pending, i)' = Count(Tail(pending), i) /\ Count(Tail(pending), i) \in Nat
      <4>1. Tail(pending) \in Seq(Id)
        BY <2>1
      <4>2. Count(Tail(pending), i) \in Nat
        BY <4>1, CountType
      <4> QED  BY <2>1, <4>2 DEF Count
    <3>3. Outstanding(i) = 0 /\ Outstanding(i)' = (IF Head(pending) = i THEN 1 ELSE 0)
      BY <1>4 DEF Send, Outstanding
    <3>4. LateFor(i)' = LateFor(i)
      BY <1>4 DEF Send, LateFor
    <3> QED  BY <3>1, <3>2, <3>3, <3>4, <3>a
  <2>3. Open' = Open
    BY <2>2 DEF Open
  <2> QED  BY <1>4, <1>a, <1>b, <2>3 DEF Send
<1>5. CASE SendNoWorker
  <2>1. pending \in Seq(Id) /\ pending # <<>> /\ pending' = Tail(pending)
    BY <1>5 DEF SendNoWorker, IInv, TypeOK
  <2>2. ASSUME NEW i \in Id  PROVE Open'[i] \in Nat /\ Open'[i] <= Open[i]
    <3>a. /\ Count(pending, i) \in Nat /\ Outstanding(i) \in Nat /\ LateFor(i) \in Nat
          /\ Count(asks, i) \in Nat /\ Count(repeats, i) \in Nat
          /\ Cardinality(Copies(i)) \in Nat
      BY Counts
    <3>1. Count(pending, i) = Count(Tail(pending), i) + IF Head(pending) = i THEN 1 ELSE 0
      BY <2>1, CountTail
    <3>2. Count(pending, i)' = Count(Tail(pending), i) /\ Count(Tail(pending), i) \in Nat
      <4>1. Tail(pending) \in Seq(Id)
        BY <2>1
      <4>2. Count(Tail(pending), i) \in Nat
        BY <4>1, CountType
      <4> QED  BY <2>1, <4>2 DEF Count
    <3>3. Outstanding(i)' = Outstanding(i) /\ LateFor(i)' = LateFor(i)
      BY <1>5 DEF SendNoWorker, Outstanding, LateFor
    <3> QED  BY <1>d, <3>1, <3>2, <3>3, <3>a
  <2>3. Promise!Lose
    BY <1>5, <1>a, <1>b, <2>2, Loses DEF SendNoWorker
  <2> QED  BY <2>3 DEF Promise!Next
<1>6. CASE SendCreated
  <2>1. ASSUME NEW i \in Id
        PROVE  UNCHANGED <<Count(pending, i), Outstanding(i), LateFor(i)>>
    BY <1>6 DEF SendCreated, SendIdle, Count, Outstanding, LateFor
  <2>2. Open' = Open
    BY <2>1 DEF Open
  <2> QED  BY <1>6, <1>a, <1>b, <2>2 DEF SendCreated
<1>7. CASE SendFails
  <2>1. PICK sent \in Id : sent = sendId /\ Enqueue(sent)
    BY <1>7 DEF SendFails, IInv, TypeOK
  <2>2. ASSUME NEW i \in Id
        PROVE  Count(pending, i)' + Outstanding(i)' + LateFor(i)' =
                  Count(pending, i) + Outstanding(i) + LateFor(i)
    <3>a. /\ Count(pending, i) \in Nat /\ Outstanding(i) \in Nat /\ LateFor(i) \in Nat
          /\ Count(asks, i) \in Nat /\ Count(repeats, i) \in Nat
          /\ Cardinality(Copies(i)) \in Nat
      BY Counts
    <3>1. Count(pending, i)' = IF i = sent THEN Count(pending, i) + 1 ELSE Count(pending, i)
      BY <2>1, EnqueueCounts
    <3>2. Outstanding(i)' = 0 /\ Outstanding(i) = (IF i = sent THEN 1 ELSE 0)
      BY <1>7, <2>1 DEF SendFails, SendIdle, Outstanding
    <3>3. LateFor(i)' = LateFor(i)
      BY <1>7 DEF SendFails, LateFor
    <3> QED  BY <3>1, <3>2, <3>3, <3>a
  <2>3. Open' = Open
    BY <2>2 DEF Open
  <2> QED  BY <1>7, <1>a, <1>b, <2>3 DEF SendFails
<1>8. CASE SendUnreadable
  <2>1. ASSUME NEW i \in Id  PROVE Open'[i] \in Nat /\ Open'[i] <= Open[i]
    <3>a. /\ Count(pending, i) \in Nat /\ Outstanding(i) \in Nat /\ LateFor(i) \in Nat
          /\ Count(asks, i) \in Nat /\ Count(repeats, i) \in Nat
          /\ Cardinality(Copies(i)) \in Nat
      BY Counts
    <3>1. Count(pending, i)' = Count(pending, i) /\ LateFor(i)' = LateFor(i) /\ Outstanding(i)' = 0
      BY <1>8 DEF SendUnreadable, SendIdle, Count, Outstanding, LateFor
    <3> QED  BY <1>d, <3>1, <3>a
  <2>2. Promise!Lose
    BY <1>8, <1>a, <1>b, <2>1, Loses DEF SendUnreadable
  <2> QED  BY <2>2 DEF Promise!Next
<1>9. CASE SendTimesOut
  <2>1. PICK sent \in Id : sent = sendId /\ Enqueue(sent) /\ repeats' = Append(repeats, sent)
    BY <1>9 DEF SendTimesOut, IInv, TypeOK
  <2>2. ASSUME NEW i \in Id
        PROVE  /\ Given'[i] = IF i = sent THEN Given[i] + 1 ELSE Given[i]
               /\ Open'[i] = IF i = sent THEN Open[i] + 1 ELSE Open[i]
    <3>a. /\ Count(pending, i) \in Nat /\ Outstanding(i) \in Nat /\ LateFor(i) \in Nat
          /\ Count(asks, i) \in Nat /\ Count(repeats, i) \in Nat
          /\ Cardinality(Copies(i)) \in Nat
      BY Counts
    <3>1. Count(repeats, i)' = Count(repeats, i) + IF sent = i THEN 1 ELSE 0
      <4>1. repeats \in Seq(Id)
        BY DEF IInv, TypeOK
      <4>2. Count(Append(repeats, sent), i) = Count(repeats, i) + IF sent = i THEN 1 ELSE 0
        BY <4>1, CountAppend
      <4> QED  BY <2>1, <4>2 DEF Count
    <3>2. Count(pending, i)' = IF i = sent THEN Count(pending, i) + 1 ELSE Count(pending, i)
      BY <2>1, EnqueueCounts
    <3>3. Count(asks, i)' = Count(asks, i) /\ Outstanding(i)' = 0
      BY <1>9 DEF SendTimesOut, SendIdle, Count, Outstanding
    <3>4. LateFor(i)' = LateFor(i) + Outstanding(i)
      BY <1>9, GivesUpCounts DEF SendTimesOut
    <3> QED  BY <1>d, <3>1, <3>2, <3>3, <3>4, <3>a
  <2>3. Promise!Give(sent)
    BY <1>9, <1>b, <2>2, Gives DEF SendTimesOut
  <2> QED  BY <2>3 DEF Promise!Next
<1>10. ASSUME NEW id \in Id, TakeRequest(id)  PROVE Promise!Next
  <2>1. sendTo \in Worker /\ made + 1 \in Id /\ Take(id, sendTo)
    BY <1>10, RoomForId DEF TakeRequest, IInv, TypeOK
  <2>2. ASSUME NEW i \in Id
        PROVE  /\ Open'[i] = IF i = id THEN Open[i] - 1 ELSE Open[i]
               /\ i = id => Open[i] > 0
               /\ Taken'[i] = IF i = id THEN Taken[i] + 1 ELSE Taken[i]
    <3>a. /\ Count(pending, i) \in Nat /\ Outstanding(i) \in Nat /\ LateFor(i) \in Nat
          /\ Count(asks, i) \in Nat /\ Count(repeats, i) \in Nat
          /\ Cardinality(Copies(i)) \in Nat
      BY Counts
    <3>1. Outstanding(i) = (IF i = id THEN 1 ELSE 0) /\ Outstanding(i)' = 0
      BY <1>10 DEF TakeRequest, Outstanding
    <3>2. Count(pending, i)' = Count(pending, i) /\ LateFor(i)' = LateFor(i)
      BY <1>10 DEF TakeRequest, Count, LateFor
    <3>3. Cardinality(Copies(i)') =
             IF i = id THEN Cardinality(Copies(i)) + 1 ELSE Cardinality(Copies(i))
      BY <2>1, TakeCounts
    <3> QED  BY <1>d, <3>1, <3>2, <3>3, <3>a
  <2>3. Promise!Take(id)
    BY <1>10, <1>a, <2>2, Takes DEF TakeRequest
  <2> QED  BY <2>3 DEF Promise!Next
<1>11. ASSUME NEW r \in late, TakeLate(r)  PROVE Promise!Next
  <2>1. /\ r.to \in Worker /\ made + 1 \in Id /\ Take(r.id, r.to) /\ late' = late \ {r}
        /\ r.id \in Id
    BY <1>11, RoomForId DEF TakeLate, IInv, TypeOK, Request
  <2>2. ASSUME NEW i \in Id
        PROVE  /\ Open'[i] = IF i = r.id THEN Open[i] - 1 ELSE Open[i]
               /\ i = r.id => Open[i] > 0
               /\ Taken'[i] = IF i = r.id THEN Taken[i] + 1 ELSE Taken[i]
    <3>a. /\ Count(pending, i) \in Nat /\ Outstanding(i) \in Nat /\ LateFor(i) \in Nat
          /\ Count(asks, i) \in Nat /\ Count(repeats, i) \in Nat
          /\ Cardinality(Copies(i)) \in Nat
      BY Counts
    <3>1. Outstanding(i)' = Outstanding(i) /\ Count(pending, i)' = Count(pending, i)
      BY <1>11 DEF TakeLate, Outstanding, Count
    <3>2. LateFor(i)' = IF r.id = i THEN LateFor(i) - 1 ELSE LateFor(i)
      BY <2>1, LateCounts
    <3>3. Cardinality(Copies(i)') =
             IF i = r.id THEN Cardinality(Copies(i)) + 1 ELSE Cardinality(Copies(i))
      BY <2>1, TakeCounts
    <3>4. i = r.id => LateFor(i) > 0
      <4>1. IsFiniteSet({x \in late : x.id = i}) /\ (i = r.id => {x \in late : x.id = i} # {})
        BY Counts
      <4> QED  BY <4>1, Counts, FS_EmptySet DEF LateFor
    <3> QED  BY <1>d, <3>1, <3>2, <3>3, <3>4, <3>a
  <2>3. Promise!Take(r.id)
    BY <1>11, <1>a, <2>1, <2>2, Takes DEF TakeLate
  <2> QED  BY <2>1, <2>3 DEF Promise!Next
<1>12. ASSUME NEW r \in late, LoseLate(r)  PROVE Promise!Next
  <2>1. ASSUME NEW i \in Id  PROVE Open'[i] \in Nat /\ Open'[i] <= Open[i]
    <3>a. /\ Count(pending, i) \in Nat /\ Outstanding(i) \in Nat /\ LateFor(i) \in Nat
          /\ Count(asks, i) \in Nat /\ Count(repeats, i) \in Nat
          /\ Cardinality(Copies(i)) \in Nat
      BY Counts
    <3>1. Outstanding(i)' = Outstanding(i) /\ Count(pending, i)' = Count(pending, i)
      BY <1>12 DEF LoseLate, Outstanding, Count
    <3>2. LateFor(i)' = IF r.id = i THEN LateFor(i) - 1 ELSE LateFor(i)
      BY <1>12, LateCounts DEF LoseLate
    <3>3. LateFor(i)' \in Nat
      <4>1. IsFiniteSet(late')
        BY <1>12, TakesLate DEF LoseLate
      <4> QED  BY <4>1, FS_Subset, FS_CardinalityType DEF LateFor
    <3> QED  BY <1>d, <3>1, <3>2, <3>3, <3>a
  <2>2. Promise!Lose
    BY <1>12, <1>a, <1>b, <2>1, Loses DEF LoseLate
  <2> QED  BY <2>2 DEF Promise!Next
<1>13. CASE WorkerStep
  <2>1. repeats' = repeats
    BY <1>13 DEF WorkerStep, WorkerRuns, WorkerMarks, WorkerStops, WorkerRestart
  <2> QED  BY <1>13, <1>a, <1>b, <1>c, <2>1, PhasesMove
<1>14. CASE PollStep
  BY <1>14, <1>a, <1>b, <1>c DEF PollStep, PollAnswer, PollFails, PollApplies
<1>15. CASE ManagerCrash
  <2>1. ASSUME NEW i \in Id  PROVE Open'[i] \in Nat /\ Open'[i] <= Open[i]
    <3>a. /\ Count(pending, i) \in Nat /\ Outstanding(i) \in Nat /\ LateFor(i) \in Nat
          /\ Count(asks, i) \in Nat /\ Count(repeats, i) \in Nat
          /\ Cardinality(Copies(i)) \in Nat
      BY Counts
    <3>1. Count(pending, i)' = 0
      <4>1. {k \in DOMAIN pending' : pending'[k] = i} = {}
        BY <1>15 DEF ManagerCrash
      <4> QED  BY <4>1, FS_EmptySet DEF Count
    <3>2. Outstanding(i)' = 0
      BY <1>15 DEF ManagerCrash, SendIdle, Outstanding
    <3>3. LateFor(i)' = LateFor(i) + Outstanding(i)
      BY <1>15, GivesUpCounts DEF ManagerCrash
    <3> QED  BY <1>d, <3>1, <3>2, <3>3, <3>a
  <2>2. Promise!Lose
    BY <1>15, <1>a, <1>b, <2>1, Loses DEF ManagerCrash
  <2> QED  BY <2>2 DEF Promise!Next
<1>16. CASE UNCHANGED vars
  BY <1>16, <1>a, <1>b, <1>c DEF vars
<1> QED
  BY <1>2, <1>3, <1>4, <1>5, <1>6, <1>7, <1>8, <1>9, <1>10, <1>11, <1>12, <1>13, <1>14,
     <1>15, <1>16 DEF Next, ClientStep, SendStep, RequestStep

\* Each time a task is given to the workers it is taken at most once: retries,
\* late answers and crashes lose deliveries but never add one.
THEOREM DeliveryKept == Spec => DeliversAsPromised
<1>1. Spec => Promise!Init
  BY InitPromise DEF Spec
<1>2. Spec => [][Promise!Next]_(Promise!vars)
  BY Invariance, StepPromise, PTL DEF Spec
<1> QED  BY <1>1, <1>2 DEF DeliversAsPromised, Promise!Spec
=============================================================================
