--------------------------- MODULE WorkerSelection ---------------------------
(***************************************************************************)
(* Which worker gets the next task: the health checks and SelectWorker of  *)
(* src/internal/manager/manager.go.                                        *)
(*                                                                         *)
(* cmd/manager starts a round of probes every 3 seconds without waiting    *)
(* for the last one, and a probe takes up to 5 seconds: probes of one      *)
(* worker overlap, and their results are written in any order.  SelectWorker *)
(* reads the health table, then the state table, then moves lastWorker,    *)
(* each under the lock but with the lock released in between.              *)
(*                                                                         *)
(* Workers are numbered in the order of MINKUBE_WORKERS.                   *)
(***************************************************************************)
EXTENDS Integers, FiniteSets

CONSTANTS
    N,          \* the number of workers
    MaxProbes   \* bound: probes of one worker that are not yet written

ASSUME SelectionAssumption == N \in Nat \ {0} /\ MaxProbes \in Nat \ {0}

Worker == 1 .. N
Limit == 5      \* failed checks a worker survives
NoChoice == 0

VARIABLES
    alive,        \* environment: does the worker answer at all
    health,       \* WorkerHealth
    state,        \* WorkerState
    failures,     \* WorkerHealthCheckFailures; all counts above Limit are one
    asked,        \* probes under way, per worker
    ups, downs,   \* probes that ended but have not taken the lock, per worker
    pc,           \* SelectWorker: which table it reads next
    healthy,      \* what GetHealthyWorkers returned
    candidates,   \* schedulable: the workers in both lists
    lastWorker,   \* the index used last
    chosen,       \* what SelectWorker returned last
    listed,       \* history: the candidates of the last choice
    passed,       \* history: choices from that same list since w was chosen
    steady        \* history: the workers marked up during the whole call so far

tables == <<health, state, failures>>
probes == <<asked, ups, downs>>
call == <<pc, healthy, candidates>>
choice == <<lastWorker, chosen, listed, passed>>
vars == <<alive, tables, probes, call, choice, steady>>

TypeOK ==
    /\ alive \in [Worker -> BOOLEAN]
    /\ health \in [Worker -> BOOLEAN]
    /\ state \in [Worker -> {"Ready", "Unhealthy"}]
    /\ failures \in [Worker -> 0 .. Limit + 1]
    /\ asked \in [Worker -> Nat]
    /\ ups \in [Worker -> Nat]
    /\ downs \in [Worker -> Nat]
    /\ pc \in {"idle", "ready", "choose"}
    /\ healthy \subseteq Worker
    /\ candidates \subseteq Worker
    /\ pc = "choose" => candidates # {}
    /\ lastWorker \in Nat
    /\ chosen \in Worker \cup {NoChoice}
    /\ listed \subseteq Worker
    /\ passed \in [Worker -> Nat]
    /\ steady \subseteq Worker

Init ==
    /\ alive \in [Worker -> BOOLEAN]
    /\ health = [w \in Worker |-> FALSE]
    /\ state = [w \in Worker |-> "Ready"]
    /\ failures = [w \in Worker |-> 0]
    /\ asked = [w \in Worker |-> 0]
    /\ ups = [w \in Worker |-> 0]
    /\ downs = [w \in Worker |-> 0]
    /\ pc = "idle"
    /\ healthy = {}
    /\ candidates = {}
    /\ lastWorker = 0
    /\ chosen = NoChoice
    /\ listed = {}
    /\ passed = [w \in Worker |-> 0]
    /\ steady = {}

-----------------------------------------------------------------------------
(* HealthCheckWorkers: a goroutine per worker and per round.               *)

InFlight(w) == asked[w] + ups[w] + downs[w]

\* Mutant: a worker that is down is not probed again.
HealthCheckUpOnly ==
    /\ \A w \in Worker : InFlight(w) < MaxProbes
    /\ asked' = [w \in Worker |-> IF failures[w] = 0 THEN asked[w] + 1 ELSE asked[w]]
    /\ UNCHANGED <<alive, tables, ups, downs, call, choice, steady>>

HealthCheckWorkers ==
    /\ \A w \in Worker : InFlight(w) < MaxProbes
    /\ asked' = [w \in Worker |-> asked[w] + 1]
    /\ UNCHANGED <<alive, tables, ups, downs, call, choice, steady>>

\* Any response will do; only a worker that is there gives one.
ProbeAnswered(w) ==
    /\ asked[w] > 0
    /\ alive[w]
    /\ asked' = [asked EXCEPT ![w] = @ - 1]
    /\ ups' = [ups EXCEPT ![w] = @ + 1]
    /\ UNCHANGED <<alive, tables, downs, call, choice, steady>>

\* No response within 5 s, from a worker that is gone or only slow.
ProbeFailed(w) ==
    /\ asked[w] > 0
    /\ asked' = [asked EXCEPT ![w] = @ - 1]
    /\ downs' = [downs EXCEPT ![w] = @ + 1]
    /\ UNCHANGED <<alive, tables, ups, call, choice, steady>>

\* Mutant: an Unhealthy worker stays Unhealthy.
MarkWorkerUpKeepsState(w) ==
    /\ ups[w] > 0
    /\ ups' = [ups EXCEPT ![w] = @ - 1]
    /\ health' = [health EXCEPT ![w] = TRUE]
    /\ failures' = [failures EXCEPT ![w] = 0]
    /\ UNCHANGED <<alive, state, asked, downs, call, choice, steady>>

MarkWorkerUp(w) ==
    /\ ups[w] > 0
    /\ ups' = [ups EXCEPT ![w] = @ - 1]
    /\ health' = [health EXCEPT ![w] = TRUE]
    /\ failures' = [failures EXCEPT ![w] = 0]
    /\ state' = [state EXCEPT ![w] = "Ready"]
    /\ UNCHANGED <<alive, asked, downs, call, choice, steady>>

Counted(n) == IF n > Limit THEN n ELSE n + 1

MarkWorkerDown(w) ==
    /\ downs[w] > 0
    /\ downs' = [downs EXCEPT ![w] = @ - 1]
    /\ health' = [health EXCEPT ![w] = FALSE]
    /\ failures' = [failures EXCEPT ![w] = Counted(@)]
    /\ state' = IF failures'[w] > Limit THEN [state EXCEPT ![w] = "Unhealthy"] ELSE state
    /\ steady' = steady \ {w}
    /\ UNCHANGED <<alive, asked, ups, call, choice>>

WorkerChanges(w) ==
    /\ alive' = [alive EXCEPT ![w] = ~@]
    /\ UNCHANGED <<tables, probes, call, choice, steady>>

-----------------------------------------------------------------------------
(* SelectWorker, called by the one ProcessTasks goroutine.                 *)

GetHealthyWorkers ==
    LET up == {w \in Worker : health[w]} IN
    /\ pc = "idle"
    /\ up # {}
    /\ pc' = "ready"
    /\ healthy' = up
    /\ steady' = up
    /\ UNCHANGED <<alive, tables, probes, candidates, choice>>

\* Mutant: the worker chosen last is left out.
SchedulableOther == healthy \cap {w \in Worker : state[w] = "Ready" /\ w # chosen}

Schedulable == healthy \cap {w \in Worker : state[w] = "Ready"}   \* workersInBoth

\* Mutant: an empty intersection is not an error.
GetReadyWorkersUnchecked ==
    /\ pc = "ready"
    /\ candidates' = Schedulable
    /\ pc' = "choose"
    /\ UNCHANGED <<alive, tables, probes, healthy, choice, steady>>

GetReadyWorkers ==
    /\ pc = "ready"
    /\ Schedulable # {}
    /\ candidates' = Schedulable
    /\ pc' = "choose"
    /\ UNCHANGED <<alive, tables, probes, healthy, choice, steady>>

\* No worker is Ready, or none of them was healthy.  When no worker is healthy
\* to begin with, SelectWorker fails and no variable changes.
SelectWorkerFails ==
    /\ pc = "ready"
    /\ Schedulable = {}
    /\ pc' = "idle"
    /\ healthy' = {}
    /\ steady' = {}
    /\ UNCHANGED <<alive, tables, probes, candidates, choice>>

Position(w, list) == Cardinality({v \in list : v < w})

Pass(w) ==
    /\ listed' = candidates
    /\ passed' = [v \in Worker |->
                    IF v \in candidates \ {w} /\ listed = candidates THEN passed[v] + 1 ELSE 0]

\* Mutant: the index advances once more than the choice.
SelectWorkerSkips(w) ==
    /\ pc = "choose"
    /\ w \in candidates
    /\ Position(w, candidates) = (lastWorker + 1) % Cardinality(candidates)
    /\ lastWorker' = (lastWorker + 2) % Cardinality(candidates)
    /\ chosen' = w
    /\ Pass(w)
    /\ pc' = "idle" /\ healthy' = {} /\ candidates' = {} /\ steady' = {}
    /\ UNCHANGED <<alive, tables, probes>>

SelectWorker(w) ==
    /\ pc = "choose"
    /\ w \in candidates
    /\ lastWorker' = (lastWorker + 1) % Cardinality(candidates)
    /\ Position(w, candidates) = lastWorker'
    /\ chosen' = w
    /\ Pass(w)
    /\ pc' = "idle" /\ healthy' = {} /\ candidates' = {} /\ steady' = {}
    /\ UNCHANGED <<alive, tables, probes>>

-----------------------------------------------------------------------------

Next ==
    \/ HealthCheckWorkers
    \/ GetHealthyWorkers
    \/ GetReadyWorkers
    \/ SelectWorkerFails
    \/ \E w \in Worker :
        \/ ProbeAnswered(w) \/ ProbeFailed(w)
        \/ MarkWorkerUp(w) \/ MarkWorkerDown(w)
        \/ WorkerChanges(w)
        \/ SelectWorker(w)

(* The probe loop runs for ever, every probe ends at its timeout, and every *)
(* goroutine that waits for the lock gets it.                              *)
Fairness ==
    /\ WF_vars(HealthCheckWorkers)
    /\ \A w \in Worker :
        /\ WF_vars(ProbeAnswered(w) \/ ProbeFailed(w))
        /\ WF_vars(MarkWorkerUp(w))
        /\ WF_vars(MarkWorkerDown(w))

Spec == Init /\ [][Next]_vars
FairSpec == Spec /\ Fairness

-----------------------------------------------------------------------------

\* The three health tables tell one story, in whatever order overlapping
\* probes of a worker are written: a healthy worker has no failures and is
\* Ready, and a worker is Unhealthy exactly after more than Limit failures.
HealthTablesAgree ==
    \A w \in Worker :
        /\ health[w] => failures[w] = 0 /\ state[w] = "Ready"
        /\ state[w] = "Unhealthy" <=> failures[w] > Limit

\* Although SelectWorker reads the two tables at different times, a worker
\* that is up during the whole call is a candidate, so that the call only
\* fails when every worker was down at some point of it.
SteadyIsCandidate ==
    /\ pc = "ready" => steady \subseteq Schedulable
    /\ pc = "choose" => steady \subseteq candidates

\* Round robin: as long as the candidates stay the same, each of them is
\* chosen at least once in as many calls as there are candidates.
RoundRobin == \A w \in listed : passed[w] < Cardinality(listed)

\* A worker that is gone for good is taken out, although answers it gave
\* before may be written after the first failure.
GoneIsExcluded ==
    \A w \in Worker : <>[](~alive[w]) => <>[](~health[w] /\ state[w] = "Unhealthy")

-----------------------------------------------------------------------------
(* What the repository says and the code does not do.                      *)

\* manager.go:571 "about 15 seconds(5 seconds times 3 to confirm a worker is
\* indeed unreachable": three failed checks in a row make it Unhealthy.
ConfirmedAfterThree == \A w \in Worker : failures[w] >= 3 => state[w] = "Unhealthy"

\* README.md:16 "It selects a Worker to receive a task using a round-robin
\* strategy": a worker is not chosen twice in a row while there is another.
TurnsAreTaken ==
    [][pc = "choose" /\ pc' = "idle" /\ Cardinality(candidates) > 1
        => chosen' # chosen]_vars

\* manager.go:212 "Schedule to workers that are both healthy (health check OK)
\* and ready (state == Ready)".
ChosenIsUp ==
    [][\A w \in Worker : pc = "choose" /\ pc' = "idle" /\ chosen' = w => health[w]]_vars
=============================================================================
