-------------------------------- MODULE Paging --------------------------------
(***************************************************************************)
(* Which tasks a page of GET /tasks holds: the index arithmetic of the two *)
(* GetTasksHandlers (src/internal/manager/http/handlers.go and             *)
(* src/internal/worker/http/handlers.go) in Go's int.                      *)
(***************************************************************************)
EXTENDS Integers

CONSTANT Half    \* an int is in -Half .. Half - 1: 2^63 in the program

ASSUME PagingAssumption == Half \in Nat \ {0}

Positive == 1 .. Half - 1

Wrap(x) == ((x + Half) % (2 * Half)) - Half

\* Go's division truncates; the divisor is a limit.
Quotient(x, limit) == IF x >= 0 THEN x \div limit ELSE -((-x) \div limit)

Smaller(x, y) == IF x <= y THEN x ELSE y

\* Mutant: pages counted from 0.
StartFromZero(page, limit) == Wrap(page * limit)

Start(page, limit) == Wrap(Wrap(page - 1) * limit)

TotalPages(limit, count) == Quotient(Wrap(Wrap(count + limit) - 1), limit)

-----------------------------------------------------------------------------
(* The manager: tasks[start:end] of the list, under its read lock.         *)

End(page, limit, count) == Smaller(Wrap(Start(page, limit) + limit), count)

Empty(page, limit, count) == Start(page, limit) >= count \/ count = 0

\* The slice expression panics when the offset has wrapped around.
Panics(page, limit, count) ==
    /\ ~Empty(page, limit, count)
    /\ ~(0 <= Start(page, limit) /\ Start(page, limit) <= End(page, limit, count))

Positions(page, limit, count) ==
    IF Empty(page, limit, count) THEN {}
    ELSE Start(page, limit) + 1 .. End(page, limit, count)

HasNext(page, limit, count) == End(page, limit, count) < count

-----------------------------------------------------------------------------
(* The worker: a slice of a copy, made in the random order of a map.       *)

WorkerStart(page, limit, count) == Smaller(Start(page, limit), count)

\* Mutant: the end of the page is not cut at the end of the tasks.
WorkerEndUncut(page, limit, count) ==
    IF Start(page, limit) >= count THEN count ELSE Wrap(Start(page, limit) + limit)

WorkerEnd(page, limit, count) ==
    IF Start(page, limit) >= count THEN count
    ELSE Smaller(Wrap(Start(page, limit) + limit), count)

WorkerPanics(page, limit, count) ==
    /\ WorkerStart(page, limit, count) < WorkerEnd(page, limit, count)
    /\ WorkerStart(page, limit, count) < 0

WorkerPositions(page, limit, count) ==
    WorkerStart(page, limit, count) + 1 .. WorkerEnd(page, limit, count)

WorkerHasNext(page, limit, count) == page < TotalPages(limit, count)

-----------------------------------------------------------------------------
(* What a page is.                                                         *)

PageOf(position, limit) == (position - 1) \div limit + 1

OnPage(page, limit, count) == {i \in 1 .. count : PageOf(i, limit) = page}

MoreAfter(page, limit, count) == \E i \in 1 .. count : PageOf(i, limit) > page

\* Neither the end of the page nor the number of pages leaves Go's int.
Fits(page, limit, count) == page * limit < Half /\ count + limit < Half

\* Where nothing overflows, a page of the manager holds the entries that
\* belong on it, and it has a next one when there are entries after it.
PageIsRight(page, limit, count) ==
    Fits(page, limit, count) =>
        /\ ~Panics(page, limit, count)
        /\ Positions(page, limit, count) = OnPage(page, limit, count)
        /\ HasNext(page, limit, count) <=> MoreAfter(page, limit, count)

\* The same of the worker, which computes both in another way.
WorkerPageIsRight(page, limit, count) ==
    Fits(page, limit, count) =>
        /\ ~WorkerPanics(page, limit, count)
        /\ WorkerPositions(page, limit, count) = OnPage(page, limit, count)
        /\ WorkerHasNext(page, limit, count) <=> MoreAfter(page, limit, count)
=============================================================================
