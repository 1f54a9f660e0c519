------------------------------ MODULE ManagerApi ------------------------------
(***************************************************************************)
(* A client of the manager's HTTP API and what its requests go through     *)
(* (src/internal/manager/http/api.go and handlers.go): the three           *)
(* middlewares of /tasks, then the handler, and back out through the       *)
(* middleware that called it.  Other clients, and the poll loop's          *)
(* adoptions, insert tasks into SortedTasks between any two of its steps.  *)
(*                                                                         *)
(* net/http sends the first status a request is given and drops the later  *)
(* ones; every document that is written is sent, but a 204 has none.       *)
(***************************************************************************)
EXTENDS Paging, FiniteSets, Sequences, SequencesExt

CONSTANTS
    MaxLimit,    \* the largest limit parsePaginationParams lets through
    MaxTasks     \* bound: entries of SortedTasks

\* The list fits in memory: an int counts it with a page to spare.
ASSUME ApiAssumption ==
    /\ MaxLimit \in Nat \ {0} /\ MaxTasks \in Nat
    /\ MaxTasks + MaxLimit < Half

\* What a request carries for a key, and loadAPIKeys.  "none" is a header
\* without a bearer token; the manager's own key has the rights of "admin".
Key == {"none", "unknown", "admin", "client", "readonly"}
Active == {"admin", "client"}
Granted(key) ==
    CASE key = "admin" -> {"admin:*"}
      [] key = "client" -> {"tasks:read", "tasks:write"}
      [] key = "readonly" -> {"tasks:read"}
      [] OTHER -> {}

\* The requests that /tasks routes, and the keys of the two endpoint maps.
Route == {"POST /tasks", "GET /tasks", "DELETE /tasks/id", "GET /tasks/", "PUT /tasks"}
MethodPath(route) == IF route = "DELETE /tasks/id" THEN "DELETE /tasks" ELSE route
RequiredPermission(route) ==
    CASE MethodPath(route) = "POST /tasks" -> "tasks:write"
      [] MethodPath(route) = "GET /tasks" -> "tasks:read"
      [] MethodPath(route) = "DELETE /tasks/*" -> "tasks:write"
      [] OTHER -> ""
RateLimit(route) ==
    CASE MethodPath(route) = "POST /tasks" -> 400
      [] MethodPath(route) = "GET /tasks" -> 5000
      [] MethodPath(route) = "DELETE /tasks/*" -> 400
      [] OTHER -> 0
CurrentRate == 0    \* nothing counts requests

\* A parameter of a listing: 0 stands for all that is no positive int.
Parameter == {0} \cup Positive

VARIABLES
    sorted,      \* SortedTasks: its entries, numbered in the order they came
    at,          \* where the request is
    route, key,  \* what was asked and with which key
    page, limit, \* its parameters
    status,      \* the status sent, 0 for none yet
    documents,   \* the JSON documents sent
    correlated,  \* the request's context has a correlation id
    ran,         \* how often a handler was called for it
    leaked,      \* a handler panicked inside mu.RLock
    more,        \* the HasNext of the page it was given
    walking,     \* the client follows HasNext from page 1
    before,      \* history: the entries listed when the walk began
    seen         \* history: the entries on the pages of the walk so far

request == <<at, route, key, page, limit>>
response == <<status, documents>>
walk == <<more, walking, before, seen>>
vars == <<sorted, request, response, correlated, ran, leaked, walk>>

TypeOK ==
    /\ sorted \in Seq(1 .. MaxTasks)
    /\ at \in {"idle", "auth", "rate", "correlation", "handler", "returned", "done"}
    /\ route \in Route /\ key \in Key
    /\ page \in Parameter /\ limit \in Parameter
    /\ status \in {0, 200, 201, 204, 400, 401, 403, 405, 429, 500}
    /\ documents \in Nat
    /\ correlated \in BOOLEAN /\ ran \in Nat /\ leaked \in BOOLEAN
    /\ more \in BOOLEAN /\ walking \in BOOLEAN
    /\ before \subseteq 1 .. MaxTasks /\ seen \subseteq 1 .. MaxTasks

Init ==
    /\ sorted = <<>> /\ leaked = FALSE
    /\ at = "idle" /\ route = "GET /tasks" /\ key = "none" /\ page = 1 /\ limit = 1
    /\ status = 0 /\ documents = 0 /\ correlated = FALSE /\ ran = 0
    /\ more = FALSE /\ walking = FALSE /\ before = {} /\ seen = {}

-----------------------------------------------------------------------------
(* The list.                                                               *)

\* Mutant: the gap InsertSorted makes is not filled.
InsertNil == \E i \in 1 .. Len(sorted) + 1 : sorted' = InsertAt(sorted, i, 0)

\* AddTask and adoption insert one entry; they wait for readers to leave.
\* (An id that is listed already has its entry replaced: no change here.)
Insert == \E i \in 1 .. Len(sorted) + 1 : sorted' = InsertAt(sorted, i, Len(sorted) + 1)

\* Mutant: CleanUpTasks takes the entries of removed tasks off the list.
ListShrinks ==
    /\ ~leaked
    /\ Len(sorted) < MaxTasks
    /\ \/ Insert
       \/ sorted # <<>> /\ sorted' = Tail(sorted)
    /\ UNCHANGED <<request, response, correlated, ran, leaked, walk>>

ListGrows ==
    /\ ~leaked
    /\ Len(sorted) < MaxTasks
    /\ Insert
    /\ UNCHANGED <<request, response, correlated, ran, leaked, walk>>

-----------------------------------------------------------------------------
(* The client.                                                             *)

Asks(r, k, p, l) ==
    /\ at' = "auth"
    /\ route' = r /\ key' = k /\ page' = p /\ limit' = l
    /\ status' = 0 /\ documents' = 0 /\ correlated' = FALSE /\ ran' = 0
    /\ UNCHANGED <<sorted, leaked>>

\* Any request; what is no listing has no use for page and limit.
Ask ==
    /\ at = "idle"
    /\ \E r \in Route, k \in Key, p, l \in Parameter :
        /\ r \notin {"GET /tasks", "GET /tasks/"} => p = 1 /\ l = 1
        /\ Asks(r, k, p, l)
    /\ UNCHANGED walk

\* The first page of a walk, and the next one while HasNext says so.
WalkGoesOn == walking /\ status = 200 /\ more

BeginWalk ==
    /\ at = "idle"
    /\ \E l \in 1 .. MaxLimit : Asks("GET /tasks", "client", 1, l)
    /\ walking' = TRUE
    /\ before' = 1 .. Len(sorted)
    /\ seen' = {}
    /\ UNCHANGED more

NextPage ==
    /\ at = "done"
    /\ WalkGoesOn
    /\ Asks("GET /tasks", "client", page + 1, limit)
    /\ UNCHANGED walk

\* The client has its answer, or lost its connection to a panic; the variables
\* of the request are reset.
Finish ==
    /\ at = "done"
    /\ ~WalkGoesOn
    /\ at' = "idle" /\ route' = "GET /tasks" /\ key' = "none" /\ page' = 1 /\ limit' = 1
    /\ status' = 0 /\ documents' = 0 /\ correlated' = FALSE /\ ran' = 0
    /\ more' = FALSE /\ walking' = FALSE /\ before' = {} /\ seen' = {}
    /\ UNCHANGED <<sorted, leaked>>

-----------------------------------------------------------------------------
(* The middlewares.                                                        *)

Write(s, document) ==
    /\ status' = IF status = 0 THEN s ELSE status
    /\ documents' = IF status' = 204 THEN documents ELSE documents + document

Pass(next) == at' = next /\ UNCHANGED response

Refuse(s) == at' = "done" /\ Write(s, 1)

HasPermissions == Granted(key) \cap {RequiredPermission(route), "admin:*"} # {}

Auth ==
    /\ at = "auth"
    /\ \/ key = "none" /\ Refuse(401)
       \/ key # "none" /\ RequiredPermission(route) = "" /\ Pass("rate")
       \/ /\ key # "none" /\ RequiredPermission(route) # ""
          /\ IF HasPermissions THEN Pass("rate") ELSE Refuse(403)
    /\ UNCHANGED <<sorted, route, key, page, limit, correlated, ran, leaked, walk>>

\* Mutant: a key may use up its limit.
BelowOrAtRateLimit == CurrentRate <= RateLimit(route)

BelowRateLimit == CurrentRate < RateLimit(route)

\* Mutant: no return after the error of an inactive key.
RateGoesOn ==
    /\ at = "rate"
    /\ at' = "correlation"
    /\ IF key \notin Active THEN Write(403, 1) ELSE UNCHANGED response
    /\ UNCHANGED <<sorted, route, key, page, limit, correlated, ran, leaked, walk>>

\* An endpoint without a limit is served first and compared with it then.
Rate ==
    /\ at = "rate"
    /\ IF key \notin Active THEN Refuse(403)
       ELSE IF RateLimit(route) = 0 \/ BelowRateLimit THEN Pass("correlation")
       ELSE Refuse(401)
    /\ UNCHANGED <<sorted, route, key, page, limit, correlated, ran, leaked, walk>>

RateReturned ==
    /\ at = "returned"
    /\ IF RateLimit(route) # 0 THEN Pass("done")
       ELSE IF BelowRateLimit THEN Pass("correlation") ELSE Refuse(401)
    /\ UNCHANGED <<sorted, route, key, page, limit, correlated, ran, leaked, walk>>

Correlate ==
    /\ at = "correlation"
    /\ correlated' = TRUE
    /\ Pass("handler")
    /\ UNCHANGED <<sorted, route, key, page, limit, ran, leaked, walk>>

-----------------------------------------------------------------------------
(* The handlers.                                                           *)

Called == at = "handler" /\ ran' = ran + 1

Answers(s, document) == Write(s, document) /\ at' = "returned"

\* After a panic nobody can write the tables, nor read them once somebody
\* wants to (module ManagerLock): the client's connection times out.
Hangs == leaked /\ at' = "done" /\ UNCHANGED response

\* The body is checked before the task is made; AddTask lists it.
StartTaskHandler ==
    /\ Called
    /\ route = "POST /tasks"
    /\ \/ Answers(400, 1) /\ UNCHANGED sorted
       \/ ~leaked /\ Len(sorted) < MaxTasks /\ Insert /\ Answers(201, 1)
       \/ Hangs /\ UNCHANGED sorted
    /\ UNCHANGED <<route, key, page, limit, correlated, leaked, walk>>

Page == {sorted[i] : i \in Positions(page, limit, Len(sorted))}

Lists ==
    /\ ~Panics(page, limit, Len(sorted))
    /\ Answers(200, 1)
    /\ more' = HasNext(page, limit, Len(sorted))
    /\ seen' = IF walking THEN seen \cup Page ELSE seen
    /\ UNCHANGED leaked

PanicsInside ==
    /\ Panics(page, limit, Len(sorted))
    /\ leaked' = TRUE
    /\ at' = "done"
    /\ UNCHANGED <<response, more, seen>>

\* parsePaginationParams: the page is looked at first, but either error is the
\* same answer.
ParamsAreValid == page \in Positive /\ limit \in 1 .. MaxLimit

GetTasksHandler ==
    /\ Called
    /\ route \in {"GET /tasks", "GET /tasks/"}
    /\ \/ ~ParamsAreValid /\ Answers(400, 1) /\ UNCHANGED <<leaked, more, seen>>
       \/ ParamsAreValid /\ (Lists \/ PanicsInside)
       \/ ParamsAreValid /\ Hangs /\ UNCHANGED <<leaked, more, seen>>
    /\ UNCHANGED <<sorted, route, key, page, limit, correlated, walking, before>>

\* Without an id that is known it says so under mu too; AddTask replaces the
\* entry of the task; a 204 has no document.
StopTaskHandler ==
    /\ Called
    /\ route = "DELETE /tasks/id"
    /\ \/ ~leaked /\ (Answers(400, 1) \/ Answers(204, 1))
       \/ Hangs
    /\ UNCHANGED <<sorted, route, key, page, limit, correlated, leaked, walk>>

\* chi's own answer to a method without a handler has no document.
MethodNotAllowed ==
    /\ Called
    /\ route = "PUT /tasks"
    /\ Write(405, 0)
    /\ at' = "returned"
    /\ UNCHANGED <<sorted, route, key, page, limit, correlated, leaked, walk>>

-----------------------------------------------------------------------------

Next ==
    \/ ListGrows
    \/ Ask \/ BeginWalk \/ NextPage \/ Finish
    \/ Auth \/ Rate \/ Correlate \/ RateReturned
    \/ StartTaskHandler \/ GetTasksHandler \/ StopTaskHandler \/ MethodNotAllowed

Spec == Init /\ [][Next]_vars

-----------------------------------------------------------------------------

\* The status a client sees tells whether its request was carried out: a
\* middleware's error means that no handler was called.  The rate middleware
\* writes its error after the handler where an endpoint has no limit.
StatusTellsTruth ==
    at = "done" => (status \in {401, 403, 429} <=> ran = 0)

\* A request is carried out at most once, with an active key and with the
\* correlation id StartTaskHandler takes for granted, although the rate
\* middleware has two calls of the next handler one after the other.
HandledOnce == ran <= 1 /\ (at = "handler" => correlated /\ key \in Active /\ ran = 0)

\* A client that follows HasNext from page 1 sees every task that was listed
\* when it began, although tasks are inserted anywhere in the list between
\* two of its pages, which moves entries to later pages.
WalkSeesAll ==
    walking /\ at = "done" /\ status = 200 /\ ~more => before \subseteq seen

\* The pages of both processes, for the positive parameters of any request.
PagesAreRight ==
    page \in Positive /\ limit \in Positive => PageIsRight(page, limit, Len(sorted))
WorkerPagesAreRight ==
    page \in Positive /\ limit \in Positive => WorkerPageIsRight(page, limit, Len(sorted))

-----------------------------------------------------------------------------
(* What the repository says and the code does not do.                      *)

\* manager/http/handlers.go:161 "handle empty page case or oob": a page far
\* beyond the end is an empty page.
OutOfBoundsIsHandled == ~leaked

\* manager/http/api.go:156 "does not exist in map so we assume it has no rate
\* limit": the answer is the handler's alone.
UnlimitedIsServed == at = "done" /\ RateLimit(route) = 0 /\ ran > 0 => documents <= 1
=============================================================================
