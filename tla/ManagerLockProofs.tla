--------------------------- MODULE ManagerLockProofs ---------------------------
(***************************************************************************)
(* Theorems about ManagerLock, for any number of goroutines and of workers: *)
(* its type, and that a goroutine that changes the tables is alone.        *)
(***************************************************************************)
EXTENDS ManagerLock, TLAPS

-----------------------------------------------------------------------------
(* The inductive invariant.                                                *)

\* The announced writer is the only one past Announce, and it is there.
OneAnnounced ==
    \A g \in Lockers : pc[g] \in {"announced", "writing"} <=> announced = g

\* While a writer is inside nobody reads.
WritingAlone == \A g \in Lockers : pc[g] = "writing" => Inside = {}

\* SendWork locks in some of its critical sections and reads in the others;
\* it looks up no worker more than there are.
StageFits ==
    /\ pc[sender] \in {"queued", "announced", "writing"} =>
          stage \in {"dequeue", "choose", "record"}
    /\ pc[sender] \in {"waiting", "reading", "rewaiting", "rereading"} =>
          stage \in {"healthy", "ready"}
    /\ pc[sender] \in {"rewaiting", "rereading"} => nested > 0
    /\ pc[sender] # "panicked"

IInv == TypeOK /\ OneAnnounced /\ WritingAlone /\ StageFits

-----------------------------------------------------------------------------

\* Nobody is at the mutex when the manager starts.
LEMMA InvInit == Init => IInv
BY LockAssumption
   DEF Init, IInv, TypeOK, OneAnnounced, WritingAlone, StageFits, Goroutine, Lockers, Inside

\* A goroutine that is no writer moves: what the others do about mu is as it was.
LEMMA ReaderMoves ==
    ASSUME IInv, NEW g \in Goroutine, NEW p, Go(g, p), UNCHANGED announced,
           p \notin {"announced", "writing"},
           pc[g] \notin {"announced", "writing"},
           p \in {"reading", "rereading", "rewaiting", "panicked"} =>
              announced = None \/ g \in Inside
    PROVE  OneAnnounced' /\ WritingAlone'
<1> USE DEF IInv, TypeOK, Go
<1>1. \A h \in Goroutine : pc'[h] = IF h = g THEN p ELSE pc[h]
  OBVIOUS
<1>2. Lockers \subseteq Goroutine /\ None \notin Lockers
  BY LockAssumption DEF Lockers, Goroutine
<1>3. OneAnnounced'
  BY <1>1, <1>2 DEF OneAnnounced
<1>4. ASSUME NEW h \in Lockers, pc'[h] = "writing"  PROVE Inside' = {}
  <2>1. pc[h] = "writing" /\ announced = h
    BY <1>1, <1>2, <1>4 DEF OneAnnounced
  <2>2. Inside = {}
    BY <2>1, <1>4 DEF WritingAlone
  <2> QED  BY <1>1, <1>2, <2>1, <2>2 DEF Inside
<1> QED  BY <1>3, <1>4 DEF WritingAlone

\* Unlock: the writer leaves, and those that waited for it read.
LEMMA WriterLeaves ==
    ASSUME IInv, NEW g \in Lockers, pc[g] = "writing", Release(g)
    PROVE  OneAnnounced' /\ WritingAlone'
<1> USE DEF IInv, TypeOK
<1>1. /\ Lockers \subseteq Goroutine /\ None \notin Lockers
      /\ announced' = None
  BY LockAssumption DEF Lockers, Goroutine, Release
<1>2. announced = g
  BY DEF OneAnnounced
<1>3. \A h \in Goroutine : pc'[h] \notin {"announced", "writing"}
  <2> SUFFICES ASSUME NEW h \in Goroutine PROVE pc'[h] \notin {"announced", "writing"}
    OBVIOUS
  <2>1. h # g => pc[h] \notin {"announced", "writing"}
    BY <1>1, <1>2 DEF OneAnnounced, Goroutine, Lockers
  <2> QED  BY <2>1, <1>1 DEF Release, Admitted
<1> QED  BY <1>1, <1>3 DEF OneAnnounced, WritingAlone

\* The types and SendWork's stage, one step at a time.
LEMMA TypeNext == IInv /\ [Next]_vars => TypeOK' /\ StageFits'
<1> SUFFICES ASSUME IInv, [Next]_vars PROVE TypeOK' /\ StageFits'
  OBVIOUS
<1> USE LockAssumption DEF IInv, TypeOK, StageFits, Goroutine, Lockers, Go
<1>1. ASSUME NEW g \in Lockers, Granting(g)  PROVE TypeOK' /\ StageFits'
  BY <1>1 DEF Granting, Announce, Acquire
<1>2. ASSUME NEW g \in Writer, Lock(g) \/ Unlock(g)  PROVE TypeOK' /\ StageFits'
  BY <1>2 DEF Lock, Unlock, Release, Admitted
<1>3. ASSUME NEW g \in Reader, RLock(g) \/ RUnlock(g)  PROVE TypeOK' /\ StageFits'
  BY <1>3 DEF RLock, RUnlock
<1>4. ASSUME NEW g \in Lister, Panic(g)  PROVE TypeOK' /\ StageFits'
  BY <1>4 DEF Panic
<1>5. CASE SendLock \/ SendRLock
  BY <1>5 DEF SendLock, SendRLock
<1>6. CASE SendUnlock
  <2>1. /\ announced' = None /\ nested' = nested
        /\ stage' \in {"healthy", "dequeue", "record"}
        /\ pc'[sender] = "out"
    BY <1>6 DEF SendUnlock, Release, Admitted
  <2> QED  BY <1>6, <2>1 DEF SendUnlock, Release, Admitted
<1>7. CASE IsWorkerRLock \/ IsWorkerRUnlock \/ SendRUnlock
  BY <1>7 DEF IsWorkerRLock, IsWorkerRUnlock, SendRUnlock
<1>8. CASE UNCHANGED vars
  BY <1>8 DEF vars
<1> QED
  BY <1>1, <1>2, <1>3, <1>4, <1>5, <1>6, <1>7, <1>8 DEF Next, SendStep

\* Each step keeps writers alone.
LEMMA InvNext == IInv /\ [Next]_vars => IInv'
<1> SUFFICES ASSUME IInv, [Next]_vars PROVE OneAnnounced' /\ WritingAlone'
  BY TypeNext DEF IInv
<1>a. /\ Lockers \subseteq Goroutine /\ Reader \subseteq Goroutine /\ Writer \subseteq Lockers
      /\ sender \in Lockers /\ Lister \subseteq Reader
      /\ None \notin Goroutine /\ pc \in [Goroutine -> {"out", "queued", "announced",
            "writing", "waiting", "reading", "rewaiting", "rereading", "panicked"}]
  BY LockAssumption DEF Lockers, Goroutine, IInv, TypeOK
<1>1. ASSUME NEW g \in Lockers, Announce(g)  PROVE OneAnnounced' /\ WritingAlone'
  <2>1. \A h \in Lockers : pc[h] \notin {"announced", "writing"}
    BY <1>1, <1>a DEF IInv, OneAnnounced, Announce
  <2>2. \A h \in Goroutine : pc'[h] = IF h = g THEN "announced" ELSE pc[h]
    BY <1>1, <1>a DEF Announce, Go
  <2> QED  BY <1>1, <1>a, <2>1, <2>2 DEF Announce, OneAnnounced, WritingAlone
<1>2. ASSUME NEW g \in Lockers, Acquire(g)  PROVE OneAnnounced' /\ WritingAlone'
  <2>1. \A h \in Goroutine : pc'[h] = IF h = g THEN "writing" ELSE pc[h]
    BY <1>2, <1>a DEF Acquire, Go
  <2>2. OneAnnounced'
    BY <1>2, <1>a, <2>1 DEF IInv, OneAnnounced, Acquire
  <2>3. Inside' = {}
    BY <1>2, <1>a, <2>1 DEF Acquire, Inside
  <2> QED  BY <2>2, <2>3 DEF WritingAlone
<1>3. ASSUME NEW g \in Writer, Lock(g)  PROVE OneAnnounced' /\ WritingAlone'
  BY <1>3, <1>a, ReaderMoves DEF Lock
<1>4. ASSUME NEW g \in Lockers, pc[g] = "writing", Release(g)
      PROVE  OneAnnounced' /\ WritingAlone'
  BY <1>4, WriterLeaves
<1>5. ASSUME NEW g \in Reader, RLock(g)  PROVE OneAnnounced' /\ WritingAlone'
  BY <1>5, <1>a, ReaderMoves DEF RLock
<1>6. ASSUME NEW g \in Reader, RUnlock(g)  PROVE OneAnnounced' /\ WritingAlone'
  BY <1>6, <1>a, ReaderMoves DEF RUnlock
<1>7. ASSUME NEW g \in Lister, Panic(g)  PROVE OneAnnounced' /\ WritingAlone'
  <2>1. g \in Inside
    BY <1>7, <1>a DEF Panic, Inside
  <2> QED  BY <1>7, <1>a, <2>1, ReaderMoves DEF Panic
<1>8. CASE SendLock \/ SendRLock
  BY <1>8, <1>a, ReaderMoves DEF SendLock, SendRLock
<1>9. CASE IsWorkerRLock \/ IsWorkerRUnlock \/ SendRUnlock
  <2>1. sender \in Inside
    BY <1>9, <1>a DEF IsWorkerRLock, IsWorkerRUnlock, SendRUnlock, Inside
  <2> QED  BY <1>9, <1>a, <2>1, ReaderMoves DEF IsWorkerRLock, IsWorkerRUnlock, SendRUnlock
<1>10. CASE UNCHANGED vars
  BY <1>10 DEF vars, IInv, OneAnnounced, WritingAlone, Inside
<1>11. CASE SendUnlock
  BY <1>4, <1>11, <1>a DEF SendUnlock
<1>12. ASSUME NEW g \in Writer, Unlock(g)  PROVE OneAnnounced' /\ WritingAlone'
  BY <1>4, <1>12, <1>a DEF Unlock
<1> QED
  BY <1>a, <1>1, <1>2, <1>3, <1>5, <1>6, <1>7, <1>8, <1>9, <1>10, <1>11, <1>12
     DEF Next, SendStep, Granting

-----------------------------------------------------------------------------

\* The inductive invariant holds in every state of the manager's mutex.
THEOREM Invariance == Spec => []IInv
BY InvInit, InvNext, PTL DEF Spec

\* Every goroutine is at one of its places, for any number of them: SendWork
\* never looks up more workers than there are.
THEOREM TypeCorrect == Spec => []TypeOK
<1>1. IInv => TypeOK
  BY DEF IInv
<1> QED  BY <1>1, Invariance, PTL

\* A goroutine that changes the manager's tables is alone, whoever waits, reads
\* twice or has panicked inside.
THEOREM WritersAreAlone == Spec => []Exclusive
<1>1. IInv => Exclusive
  BY LockAssumption DEF IInv, TypeOK, OneAnnounced, WritingAlone, Exclusive, Lockers, Goroutine
<1> QED  BY <1>1, Invariance, PTL

\* Once SendWork waits inside its own read lock, or a handler has panicked inside
\* one, no writer gets mu again.
THEOREM NoWayOut == Spec => StuckForGood
<1>1. ASSUME IInv, Stuck, [Next]_vars
      PROVE  Stuck' /\ \A g \in Lockers : pc'[g] # "writing"
  <2> DEFINE Held(g) == \/ g = sender /\ pc[g] = "rewaiting"
                        \/ g \in Reader /\ pc[g] = "panicked"
  <2>1. /\ Lockers \subseteq Goroutine /\ Reader \subseteq Goroutine /\ Writer \subseteq Lockers
        /\ sender \in Lockers /\ Lister \subseteq Reader /\ sender \notin Writer \cup Reader
        /\ Writer \cap Reader = {}
        /\ pc \in [Goroutine -> {"out", "queued", "announced",
              "writing", "waiting", "reading", "rewaiting", "rereading", "panicked"}]
    BY <1>1, LockAssumption DEF Lockers, Goroutine, IInv, TypeOK
  <2>2. PICK g \in Goroutine : Held(g)
    BY <1>1, <2>1 DEF Stuck
  <2>3. Inside # {}
    BY <2>2 DEF Inside
  <2>4. \A h \in Lockers : pc[h] # "writing"
    BY <1>1, <2>3 DEF IInv, WritingAlone
  <2>5. ASSUME NEW h \in Goroutine, NEW p, Go(h, p), h # g, p # "writing"
        PROVE  pc'[g] = pc[g] /\ \A l \in Lockers : pc'[l] # "writing"
    BY <2>1, <2>4, <2>5 DEF Go
  <2>6. pc'[g] = pc[g] /\ \A l \in Lockers : pc'[l] # "writing"
    <3>1. CASE \E h \in Writer : Lock(h) \/ Granting(h) \/ Unlock(h)
      BY <2>1, <2>2, <2>3, <2>4, <2>5, <3>1 DEF Lock, Granting, Announce, Acquire, Unlock
    <3>2. CASE \E h \in Reader : RLock(h) \/ RUnlock(h)
      BY <2>1, <2>2, <2>5, <3>2 DEF RLock, RUnlock
    <3>3. CASE \E h \in Lister : Panic(h)
      BY <2>1, <2>2, <2>5, <3>3 DEF Panic
    <3>4. CASE SendLock \/ Granting(sender) \/ SendUnlock
      BY <2>1, <2>2, <2>3, <2>4, <2>5, <3>4
         DEF SendLock, Granting, Announce, Acquire, SendUnlock
    <3>5. CASE SendRLock \/ IsWorkerRLock \/ IsWorkerRUnlock \/ SendRUnlock
      BY <2>1, <2>2, <2>5, <3>5 DEF SendRLock, IsWorkerRLock, IsWorkerRUnlock, SendRUnlock
    <3>6. CASE UNCHANGED vars
      BY <2>4, <3>6 DEF vars
    <3> QED  BY <1>1, <3>1, <3>2, <3>3, <3>4, <3>5, <3>6 DEF Next, SendStep
  <2> QED  BY <2>2, <2>6 DEF Stuck
<1>2. IInv /\ [Next]_vars => [Stuck => Stuck' /\ \A g \in Lockers : pc'[g] # "writing"]_vars
  BY <1>1
<1> QED  BY Invariance, <1>2, PTL DEF Spec, StuckForGood
=============================================================================
