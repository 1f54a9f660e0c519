------------------------------- MODULE Delivery -------------------------------
(***************************************************************************)
(* What minkube promises of a client's request to start a task: each time  *)
(* it is given to the workers, it is taken at most once or lost.  It is    *)
(* given once when the client asks and once more each time the manager     *)
(* gives up on an answer.  Module Minkube implements it.                   *)
(***************************************************************************)
EXTENDS Naturals

CONSTANT Id     \* the ids of the tasks that are asked for

VARIABLES
    given,    \* how often each task was given to the workers
    open,     \* of these, how many a worker may still take
    taken     \* of these, how many a worker has taken

vars == <<given, open, taken>>

Init ==
    /\ given = [id \in Id |-> 0]
    /\ open = [id \in Id |-> 0]
    /\ taken = [id \in Id |-> 0]

Give(id) ==
    /\ given' = [given EXCEPT ![id] = @ + 1]
    /\ open' = [open EXCEPT ![id] = @ + 1]
    /\ UNCHANGED taken

Take(id) ==
    /\ open[id] > 0
    /\ open' = [open EXCEPT ![id] = @ - 1]
    /\ taken' = [taken EXCEPT ![id] = @ + 1]
    /\ UNCHANGED given

Lose ==
    /\ open' \in [Id -> Nat]
    /\ \A id \in Id : open'[id] <= open[id]
    /\ UNCHANGED <<given, taken>>

Next == Lose \/ \E id \in Id : Give(id) \/ Take(id)

Spec == Init /\ [][Next]_vars
=============================================================================
