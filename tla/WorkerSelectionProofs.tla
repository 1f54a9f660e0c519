------------------------ MODULE WorkerSelectionProofs ------------------------
(***************************************************************************)
(* Theorems about WorkerSelection, for any number of workers and of        *)
(* overlapping probes.                                                     *)
(***************************************************************************)
EXTENDS WorkerSelection, FiniteSetTheorems, TLAPS

-----------------------------------------------------------------------------
(* Positions in a list of workers.                                         *)

\* A list of workers is finite, and shorter lists have fewer members.
LEMMA Lists ==
    ASSUME NEW list \in SUBSET Worker
    PROVE  /\ IsFiniteSet(list)
           /\ Cardinality(list) \in Nat
           /\ list # {} => Cardinality(list) > 0
<1>1. IsFiniteSet(1 .. N)
  BY SelectionAssumption, FS_Interval
<1>2. IsFiniteSet(list)
  BY <1>1, FS_Subset DEF Worker
<1>3. Cardinality(list) \in Nat
  BY <1>2, FS_CardinalityType
<1>4. list # {} => Cardinality(list) # 0
  BY <1>2, FS_EmptySet
<1> QED  BY <1>2, <1>3, <1>4

\* A proper part of a list is shorter.
LEMMA Shorter ==
    ASSUME NEW list \in SUBSET Worker, NEW part \in SUBSET list, part # list
    PROVE  Cardinality(part) \in Nat /\ Cardinality(part) < Cardinality(list)
<1>1. Cardinality(part) <= Cardinality(list) /\ Cardinality(part) # Cardinality(list)
  BY Lists, FS_Subset
<1>2. Cardinality(part) \in Nat /\ Cardinality(list) \in Nat
  BY Lists
<1> QED  BY <1>1, <1>2

\* The position of a worker is an index of its list.
LEMMA PositionIsIndex ==
    ASSUME NEW list \in SUBSET Worker, NEW w \in list
    PROVE  Position(w, list) \in Nat /\ Position(w, list) < Cardinality(list)
<1> DEFINE below == {v \in list : v < w}
<1>1. w \in Int
  BY SelectionAssumption DEF Worker
<1>2. below \in SUBSET list /\ below # list
  BY <1>1
<1> QED  BY <1>2, Shorter DEF Position

\* No two workers of a list have the same position.
LEMMA PositionIsInjective ==
    ASSUME NEW list \in SUBSET Worker, NEW v \in list, NEW w \in list, v # w
    PROVE  Position(v, list) # Position(w, list)
<1>1. \A x \in list : x \in Int
  BY SelectionAssumption DEF Worker
<1>2. ASSUME NEW x \in list, NEW y \in list, x < y
      PROVE  Position(x, list) < Position(y, list)
  <2> DEFINE a == {u \in list : u < x}
             b == {u \in list : u < y}
  <2>1. a \in SUBSET b /\ a # b /\ b \in SUBSET Worker
    BY <1>1, <1>2
  <2> HIDE DEF a, b
  <2>2. Cardinality(a) < Cardinality(b)
    BY <2>1, Shorter
  <2> QED  BY <2>2 DEF Position, a, b
<1>3. Position(v, list) \in Nat /\ Position(w, list) \in Nat
  BY PositionIsIndex
<1>4. v < w \/ w < v
  BY <1>1
<1>5. Position(v, list) < Position(w, list) \/ Position(w, list) < Position(v, list)
  BY <1>2, <1>4
<1> QED  BY <1>3, <1>5

-----------------------------------------------------------------------------
(* The inductive invariant.                                                *)

\* What has to hold of the history of the call: steady workers are healthy
\* now, and are on every list read so far.
SteadyIsListed ==
    /\ \A w \in steady : health[w]
    /\ pc = "ready" => steady \subseteq healthy
    /\ pc = "choose" => steady \subseteq candidates

\* How many choices ago the round robin came past w.
Behind(w) ==
    IF Position(w, listed) <= lastWorker
    THEN lastWorker - Position(w, listed)
    ELSE lastWorker - Position(w, listed) + Cardinality(listed)

TakesTurns ==
    \A w \in listed :
        /\ lastWorker < Cardinality(listed)
        /\ passed[w] <= Behind(w)

IInv == TypeOK /\ HealthTablesAgree /\ SteadyIsListed /\ TakesTurns

\* Manager.New.
LEMMA InvInit == Init => IInv
BY SelectionAssumption
   DEF Init, IInv, TypeOK, HealthTablesAgree, SteadyIsListed, TakesTurns, Limit, Worker, NoChoice

\* Each step keeps every variable of its type.
LEMMA TypeNext == TypeOK /\ [Next]_vars => TypeOK'
<1> SUFFICES ASSUME TypeOK, [Next]_vars PROVE TypeOK'
  OBVIOUS
<1> USE DEF TypeOK, tables, probes, call, choice
<1>1. CASE HealthCheckWorkers
  BY <1>1 DEF HealthCheckWorkers
<1>2. CASE GetHealthyWorkers
  BY <1>2 DEF GetHealthyWorkers
<1>3. CASE GetReadyWorkers
  BY <1>3 DEF GetReadyWorkers, Schedulable
<1>4. CASE SelectWorkerFails
  BY <1>4 DEF SelectWorkerFails
<1>5. ASSUME NEW w \in Worker, ProbeAnswered(w) PROVE TypeOK'
  BY <1>5 DEF ProbeAnswered
<1>51. ASSUME NEW w \in Worker, ProbeFailed(w) PROVE TypeOK'
  BY <1>51 DEF ProbeFailed
<1>52. ASSUME NEW w \in Worker, WorkerChanges(w) PROVE TypeOK'
  <2>1. (~ alive[w]) \in BOOLEAN
    OBVIOUS
  <2>2. alive' = [alive EXCEPT ![w] = ~ alive[w]]
    BY <1>52 DEF WorkerChanges
  <2>3. alive' \in [Worker -> BOOLEAN]
    BY <2>1, <2>2, Zenon
  <2> QED  BY <1>52, <2>3 DEF WorkerChanges
<1>6. ASSUME NEW w \in Worker, MarkWorkerUp(w) PROVE TypeOK'
  BY <1>6 DEF MarkWorkerUp, Limit
<1>7. ASSUME NEW w \in Worker, MarkWorkerDown(w) PROVE TypeOK'
  BY <1>7 DEF MarkWorkerDown, Counted, Limit
<1>8. ASSUME NEW w \in Worker, SelectWorker(w) PROVE TypeOK'
  <2>1. Cardinality(candidates) \in Nat /\ Cardinality(candidates) > 0
    BY <1>8, Lists DEF SelectWorker
  <2>2. (lastWorker + 1) % Cardinality(candidates) \in Nat
    BY <2>1
  <2>3. passed' \in [Worker -> Nat] /\ listed' \subseteq Worker
    BY <1>8 DEF SelectWorker, Pass
  <2> QED  BY <1>8, <2>2, <2>3 DEF SelectWorker
<1>9. CASE UNCHANGED vars
  BY <1>9 DEF vars
<1> QED  BY <1>1, <1>2, <1>3, <1>4, <1>5, <1>51, <1>52, <1>6, <1>7, <1>8, <1>9 DEF Next

\* A probe's result, whichever it is, keeps the three tables consistent.
LEMMA TablesNext == TypeOK /\ HealthTablesAgree /\ [Next]_vars => HealthTablesAgree'
<1> SUFFICES ASSUME TypeOK, HealthTablesAgree, [Next]_vars PROVE HealthTablesAgree'
  OBVIOUS
<1>1. ASSUME NEW w \in Worker, MarkWorkerUp(w) PROVE HealthTablesAgree'
  BY <1>1 DEF TypeOK, HealthTablesAgree, MarkWorkerUp, Limit
<1>2. ASSUME NEW w \in Worker, MarkWorkerDown(w) PROVE HealthTablesAgree'
  BY <1>2 DEF TypeOK, HealthTablesAgree, MarkWorkerDown, Counted, Limit
<1>3. CASE UNCHANGED tables
  BY <1>3 DEF HealthTablesAgree, tables
<1>4. \/ UNCHANGED tables
      \/ \E w \in Worker : MarkWorkerUp(w) \/ MarkWorkerDown(w)
  BY DEF Next, vars, HealthCheckWorkers, GetHealthyWorkers, GetReadyWorkers,
         SelectWorkerFails, ProbeAnswered, ProbeFailed, WorkerChanges, SelectWorker, tables
<1> QED  BY <1>1, <1>2, <1>3, <1>4

\* A healthy worker is Ready, so a steady one passes both reads.
LEMMA SteadyNext ==
    TypeOK /\ HealthTablesAgree /\ SteadyIsListed /\ [Next]_vars => SteadyIsListed'
<1> SUFFICES ASSUME TypeOK, HealthTablesAgree, SteadyIsListed, [Next]_vars
             PROVE  SteadyIsListed'
  OBVIOUS
<1> USE DEF SteadyIsListed
<1>1. CASE GetHealthyWorkers
  BY <1>1 DEF GetHealthyWorkers, tables
<1>2. CASE GetReadyWorkers
  BY <1>2 DEF TypeOK, HealthTablesAgree, GetReadyWorkers, Schedulable, tables
<1>3. CASE SelectWorkerFails
  BY <1>3 DEF SelectWorkerFails
<1>4. ASSUME NEW w \in Worker, MarkWorkerUp(w) PROVE SteadyIsListed'
  BY <1>4 DEF TypeOK, MarkWorkerUp, call
<1>5. ASSUME NEW w \in Worker, MarkWorkerDown(w) PROVE SteadyIsListed'
  BY <1>5 DEF TypeOK, MarkWorkerDown, call
<1>6. ASSUME NEW w \in Worker, SelectWorker(w) PROVE SteadyIsListed'
  BY <1>6 DEF SelectWorker
<1>7. CASE UNCHANGED <<tables, call, steady>>
  BY <1>7 DEF tables, call
<1>8. \/ UNCHANGED <<tables, call, steady>>
      \/ GetHealthyWorkers \/ GetReadyWorkers \/ SelectWorkerFails
      \/ \E w \in Worker : MarkWorkerUp(w) \/ MarkWorkerDown(w) \/ SelectWorker(w)
  BY DEF Next, vars, HealthCheckWorkers, ProbeAnswered, ProbeFailed, WorkerChanges
<1> QED  BY <1>1, <1>2, <1>3, <1>4, <1>5, <1>6, <1>7, <1>8

\* A choice from the same list moves every other worker one place back, and
\* the worker that is chosen has come to the front.
LEMMA TurnsNext == TypeOK /\ TakesTurns /\ [Next]_vars => TakesTurns'
<1> SUFFICES ASSUME TypeOK, TakesTurns, [Next]_vars PROVE TakesTurns'
  OBVIOUS
<1>1. CASE UNCHANGED choice
  BY <1>1 DEF TakesTurns, Behind, Position, choice
<1>2. ASSUME NEW w \in Worker, SelectWorker(w) PROVE TakesTurns'
  <2> DEFINE n == Cardinality(candidates)
  <2>1. candidates \in SUBSET Worker /\ w \in candidates /\ lastWorker \in Nat
    BY <1>2 DEF SelectWorker, TypeOK
  <2>2. n \in Nat /\ n > 0
    BY <2>1, Lists
  <2>3. /\ listed' = candidates
        /\ lastWorker' = (lastWorker + 1) % n
        /\ lastWorker' = Position(w, candidates)
        /\ \A v \in Worker : passed'[v] = IF v \in candidates \ {w} /\ listed = candidates
                                          THEN passed[v] + 1 ELSE 0
    BY <1>2, <2>1 DEF SelectWorker, Pass
  <2>4. lastWorker' \in Nat /\ lastWorker' < n
    BY <2>1, <2>2, <2>3
  <2> SUFFICES ASSUME NEW v \in candidates
               PROVE  lastWorker' < n /\ passed'[v] <= Behind(v)'
    BY <2>3 DEF TakesTurns
  <2>5. Position(v, candidates) \in Nat /\ Position(v, candidates) < n
    BY <2>1, PositionIsIndex
  <2>6. Behind(v)' = IF Position(v, candidates) <= lastWorker'
                     THEN lastWorker' - Position(v, candidates)
                     ELSE lastWorker' - Position(v, candidates) + n
    BY <2>3 DEF Behind, Position
  <2>7. Behind(v)' \in Nat
    <3> HIDE DEF n
    <3> QED  BY <2>2, <2>4, <2>5, <2>6
  <2>8. CASE v = w \/ listed # candidates
    <3>1. passed'[v] = 0
      BY <2>1, <2>3, <2>8
    <3> QED  BY <3>1, <2>4, <2>7
  <2>9. CASE v # w /\ listed = candidates
    <3>1. passed'[v] = passed[v] + 1 /\ passed[v] \in Nat
      BY <2>1, <2>3, <2>9 DEF TypeOK
    <3>2. lastWorker < n /\ passed[v] <= Behind(v)
      BY <2>9 DEF TakesTurns
    <3>3. Position(v, candidates) # lastWorker'
      BY <2>1, <2>3, <2>9, PositionIsInjective
    <3>4. lastWorker' = IF lastWorker + 1 = n THEN 0 ELSE lastWorker + 1
      <4> HIDE DEF n
      <4> QED  BY <2>1, <2>2, <2>3, <3>2
    <3>5. Behind(v) = IF Position(v, candidates) <= lastWorker
                      THEN lastWorker - Position(v, candidates)
                      ELSE lastWorker - Position(v, candidates) + n
      BY <2>9 DEF Behind
    <3>6. Behind(v)' = Behind(v) + 1
      <4> HIDE DEF n
      <4> QED  BY <2>1, <2>2, <2>5, <2>6, <3>2, <3>3, <3>4, <3>5
    <3>7. Behind(v) \in Nat
      <4> HIDE DEF n
      <4> QED  BY <2>1, <2>2, <2>5, <3>2, <3>5
    <3> QED  BY <2>4, <3>1, <3>2, <3>6, <3>7
  <2> QED  BY <2>8, <2>9
<1>3. UNCHANGED choice \/ \E w \in Worker : SelectWorker(w)
  BY DEF Next, vars, HealthCheckWorkers, GetHealthyWorkers, GetReadyWorkers,
         SelectWorkerFails, ProbeAnswered, ProbeFailed, MarkWorkerUp, MarkWorkerDown,
         WorkerChanges
<1> QED  BY <1>1, <1>2, <1>3

\* Each step of HealthCheckWorkers, of a probe and of SelectWorker keeps the
\* inductive invariant.
LEMMA InvNext == IInv /\ [Next]_vars => IInv'
BY TypeNext, TablesNext, SteadyNext, TurnsNext DEF IInv

-----------------------------------------------------------------------------

\* The inductive invariant holds in every state.
THEOREM Invariance == Spec => []IInv
BY InvInit, InvNext, PTL DEF Spec

\* Every variable has its type; in particular the modulus of the round robin
\* is never zero.
THEOREM TypeCorrect == Spec => []TypeOK
<1>1. IInv => TypeOK
  BY DEF IInv
<1> QED  BY <1>1, Invariance, PTL

\* The three health tables agree, whatever the order in which MarkWorkerUp and
\* MarkWorkerDown write the results of overlapping probes.
THEOREM TablesAgree == Spec => []HealthTablesAgree
<1>1. IInv => HealthTablesAgree
  BY DEF IInv
<1> QED  BY <1>1, Invariance, PTL

\* A worker that is up during the whole of SelectWorker is one of its
\* candidates, although the lists are read at different times.
THEOREM SteadyWorkersAreCandidates == Spec => []SteadyIsCandidate
<1>1. IInv => SteadyIsCandidate
  BY DEF IInv, TypeOK, HealthTablesAgree, SteadyIsListed, SteadyIsCandidate, Schedulable
<1> QED  BY <1>1, Invariance, PTL

\* While SelectWorker's candidates stay the same, each is chosen once in as
\* many calls as there are candidates, wherever lastWorker stood before.
THEOREM CandidatesTakeTurns == Spec => []RoundRobin
<1>1. IInv => RoundRobin
  <2> SUFFICES ASSUME IInv, NEW w \in listed PROVE passed[w] < Cardinality(listed)
    BY DEF RoundRobin
  <2>1. /\ listed \in SUBSET Worker /\ lastWorker \in Nat /\ passed[w] \in Nat
        /\ lastWorker < Cardinality(listed) /\ passed[w] <= Behind(w)
    BY DEF IInv, TypeOK, TakesTurns
  <2>2. Position(w, listed) \in Nat /\ Position(w, listed) < Cardinality(listed)
    BY <2>1, PositionIsIndex
  <2>3. Cardinality(listed) \in Nat
    BY <2>1, Lists
  <2>4. Behind(w) \in Nat /\ Behind(w) < Cardinality(listed)
    BY <2>1, <2>2, <2>3 DEF Behind
  <2> QED  BY <2>1, <2>3, <2>4
<1> QED  BY <1>1, Invariance, PTL
=============================================================================
