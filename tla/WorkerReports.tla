---------------------------- MODULE WorkerReports ----------------------------
(***************************************************************************)
(* What the manager relies on in a worker's answers to GET /tasks: a task  *)
(* enters them once, already Running or Failed, never runs again after it  *)
(* ended, and keeps its StartTime; a restarted worker answers with nothing.*)
(* Manager's environment takes these steps, and Worker implements them.    *)
(***************************************************************************)

CONSTANTS
    Id,     \* the uuids that can be issued
    Time    \* the instants a StartTime can have

VARIABLES
    reports,   \* the tasks the worker would report
    used       \* the ids it has ever reported

vars == <<reports, used>>

Init == reports = {} /\ used = {}

Starts ==
    \E id \in Id \ used, st \in {"Running", "Failed"}, s \in Time :
        /\ reports' = reports \cup {[id |-> id, state |-> st, start |-> s]}
        /\ used' = used \cup {id}

Ends ==
    \E r \in reports, st \in {"Completed", "Failed"} :
        /\ reports' = (reports \ {r}) \cup {[r EXCEPT !.state = st]}
        /\ UNCHANGED used

Restarts == reports' = {} /\ UNCHANGED used

Next == Starts \/ Ends \/ Restarts

Spec == Init /\ [][Next]_vars
=============================================================================
