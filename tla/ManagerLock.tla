------------------------------ MODULE ManagerLock ------------------------------
(***************************************************************************)
(* Who waits for whom at Manager.mu (src/internal/manager/manager.go).     *)
(*                                                                         *)
(* mu is a sync.RWMutex.  A goroutine in Lock announces itself and waits   *)
(* for the readers that are inside; an RLock that comes after it waits for *)
(* that writer.  GetHealthyWorkers and GetReadyWorkers hold a read lock    *)
(* while IsWorkerHealthy and IsWorkerReady take another one, once per      *)
(* worker.  The modules Manager and WorkerSelection take for granted that  *)
(* whoever waits for mu gets it; this module says when.                    *)
(***************************************************************************)
EXTENDS Naturals

CONSTANTS
    Writer,   \* goroutines in AddTask, MarkWorkerUp and Down, CleanUpTasks,
              \* StopTaskHandler and the apply loop of updateTasks
    Reader,   \* goroutines in GetTask, GetTasksHandler and updateTasks
    Lister,   \* those in GetTasksHandler for a page whose offset is no int
    sender,   \* the ProcessTasks goroutine, in SendWork
    None,     \* nobody
    N         \* the number of workers

ASSUME LockAssumption ==
    /\ N \in Nat
    /\ sender \notin Writer \cup Reader /\ Writer \cap Reader = {}
    /\ Lister \subseteq Reader
    /\ None \notin Writer \cup Reader \cup {sender}

Goroutine == Writer \cup Reader \cup {sender}
Lockers == Writer \cup {sender}

VARIABLES
    pc,         \* what each goroutine is doing about mu
    announced,  \* the goroutine whose Lock keeps new readers out
    stage,      \* the critical section of SendWork that comes next
    nested      \* the IsWorker... calls left in this list of workers

vars == <<pc, announced, stage, nested>>

\* Mutant: a read lock a goroutine holds while it waits for another does not count.
InsideUnlessWaiting == {g \in Goroutine : pc[g] \in {"reading", "rereading", "panicked"}}

Inside == {g \in Goroutine : pc[g] \in {"reading", "rereading", "rewaiting", "panicked"}}

TypeOK ==
    /\ pc \in [Goroutine -> {"out", "queued", "announced", "writing",
                             "waiting", "reading", "rewaiting", "rereading", "panicked"}]
    /\ announced \in Lockers \cup {None}
    /\ stage \in {"dequeue", "healthy", "ready", "choose", "record"}
    /\ nested \in 0 .. N
    /\ \A g \in Writer : pc[g] \in {"out", "queued", "announced", "writing"}
    /\ \A g \in Reader : pc[g] \in {"out", "waiting", "reading", "panicked"}

Init ==
    /\ pc = [g \in Goroutine |-> "out"]
    /\ announced = None
    /\ stage = "dequeue"
    /\ nested = 0

Go(g, p) == pc' = [pc EXCEPT ![g] = p]

-----------------------------------------------------------------------------
(* sync.RWMutex.                                                           *)

Announce(g) ==
    /\ pc[g] = "queued"
    /\ announced = None
    /\ announced' = g
    /\ Go(g, "announced")
    /\ UNCHANGED <<stage, nested>>

Acquire(g) ==
    /\ pc[g] = "announced"
    /\ Inside = {}
    /\ Go(g, "writing")
    /\ UNCHANGED <<announced, stage, nested>>

\* Unlock admits every reader that waited for this writer.
Admitted(p) ==
    IF p = "waiting" THEN "reading" ELSE IF p = "rewaiting" THEN "rereading" ELSE p

Release(g) ==
    /\ announced' = None
    /\ pc' = [r \in Goroutine |-> IF r = g THEN "out" ELSE Admitted(pc[r])]

-----------------------------------------------------------------------------
(* The goroutines that lock mu once at a time.                             *)

Lock(g) == pc[g] = "out" /\ Go(g, "queued") /\ UNCHANGED <<announced, stage, nested>>

\* Mutant: an early return between Lock and Unlock.
UnlockForgotten(g) ==
    /\ pc[g] = "writing"
    /\ \/ Release(g)
       \/ Go(g, "out") /\ UNCHANGED announced
    /\ UNCHANGED <<stage, nested>>

Unlock(g) == pc[g] = "writing" /\ Release(g) /\ UNCHANGED <<stage, nested>>

\* Mutant: a reader does not look whether a writer is inside.
RLockUnchecked(g) == pc[g] = "out" /\ Go(g, "reading") /\ UNCHANGED <<announced, stage, nested>>

RLock(g) ==
    /\ pc[g] = "out"
    /\ Go(g, IF announced = None THEN "reading" ELSE "waiting")
    /\ UNCHANGED <<announced, stage, nested>>

RUnlock(g) == pc[g] = "reading" /\ Go(g, "out") /\ UNCHANGED <<announced, stage, nested>>

\* The slice expression of GetTasksHandler panics before RUnlock, which is not
\* deferred (module Paging says for which page); net/http ends the goroutine.
Panic(g) == pc[g] = "reading" /\ Go(g, "panicked") /\ UNCHANGED <<announced, stage, nested>>

-----------------------------------------------------------------------------
(* SendWork: lock to dequeue, SelectWorker's two lists and its choice, and *)
(* lock to record the assignment or to requeue the task.                   *)

SendLock ==
    /\ pc[sender] = "out"
    /\ stage \in {"dequeue", "choose", "record"}
    /\ Go(sender, "queued")
    /\ UNCHANGED <<announced, stage, nested>>

\* After an empty queue or an undecodable answer SendWork starts afresh.
SendUnlock ==
    /\ pc[sender] = "writing"
    /\ Release(sender)
    /\ \/ stage' = "dequeue"
       \/ stage = "dequeue" /\ stage' = "healthy"
       \/ stage = "choose" /\ stage' = "record"
    /\ UNCHANGED nested

SendRLock ==
    /\ pc[sender] = "out"
    /\ stage \in {"healthy", "ready"}
    /\ Go(sender, IF announced = None THEN "reading" ELSE "waiting")
    /\ nested' = N
    /\ UNCHANGED <<announced, stage>>

\* Mutant: one worker too many is looked up.
IsWorkerRLockOnceMore ==
    /\ pc[sender] = "reading"
    /\ Go(sender, IF announced = None THEN "rereading" ELSE "rewaiting")
    /\ UNCHANGED <<announced, stage, nested>>

IsWorkerRLock ==
    /\ pc[sender] = "reading"
    /\ nested > 0
    /\ Go(sender, IF announced = None THEN "rereading" ELSE "rewaiting")
    /\ UNCHANGED <<announced, stage, nested>>

IsWorkerRUnlock ==
    /\ pc[sender] = "rereading"
    /\ Go(sender, "reading")
    /\ nested' = nested - 1
    /\ UNCHANGED <<announced, stage>>

\* Without a worker on the list SelectWorker fails.
SendRUnlock ==
    /\ pc[sender] = "reading"
    /\ nested = 0
    /\ Go(sender, "out")
    /\ stage' \in {IF stage = "healthy" THEN "ready" ELSE "choose", "dequeue"}
    /\ UNCHANGED <<announced, nested>>

-----------------------------------------------------------------------------

Granting(g) == Announce(g) \/ Acquire(g)

SendStep ==
    \/ SendLock \/ Granting(sender) \/ SendUnlock
    \/ SendRLock \/ IsWorkerRLock \/ IsWorkerRUnlock \/ SendRUnlock

Next ==
    \/ \E g \in Writer : Lock(g) \/ Granting(g) \/ Unlock(g)
    \/ \E g \in Reader : RLock(g) \/ RUnlock(g)
    \/ \E g \in Lister : Panic(g)
    \/ SendStep

(* Critical sections end, ProcessTasks loops for ever, and a goroutine     *)
(* whose turn it is gets mu: the writers' own mutex is not starved.        *)
Fairness ==
    /\ WF_vars(SendStep)
    /\ SF_vars(Announce(sender))
    /\ \A g \in Writer : SF_vars(Announce(g)) /\ WF_vars(Acquire(g)) /\ WF_vars(Unlock(g))
    /\ \A g \in Reader : WF_vars(RUnlock(g))

Spec == Init /\ [][Next]_vars
FairSpec == Spec /\ Fairness

-----------------------------------------------------------------------------

\* A goroutine that changes the manager's tables is alone.
Exclusive ==
    \A g \in Lockers : pc[g] = "writing" =>
        Inside = {} /\ \A h \in Lockers : pc[h] = "writing" => h = g

\* The sender waits, inside its own read lock, for a writer that waits for the
\* sender to leave; or a reader has ended inside.
Stuck == pc[sender] = "rewaiting" \/ \E g \in Reader : pc[g] = "panicked"

\* There is no way out: once the manager is stuck no writer gets mu again, however
\* the others go on.  SelectWorker's read locks are given back only by the goroutine
\* that waits inside them, and a panicked handler's by nobody.
StuckForGood == [][Stuck => Stuck' /\ \A g \in Lockers : pc'[g] # "writing"]_vars

\* Whoever calls Lock or RLock gets mu, unless SelectWorker's nested read lock
\* met a writer or a handler panicked inside its own: there is no other way
\* for the manager to stop.
GrantedUnlessStuck ==
    \A g \in Goroutine :
        pc[g] \in {"queued", "announced", "waiting"}
            ~> (pc[g] \in {"writing", "reading"} \/ Stuck)

-----------------------------------------------------------------------------
(* What the repository says and the code does not do.                      *)

\* .github/copilot-instructions.md:12 "State Sync: Manager polls workers every
\* 15 seconds via updateTasks()": a goroutine that has a worker's answer gets
\* to apply it.
AnswersAreApplied == \A g \in Writer : pc[g] = "queued" ~> pc[g] = "writing"
=============================================================================
