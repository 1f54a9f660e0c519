---------------------------- MODULE ManagerApiProofs ----------------------------
(***************************************************************************)
(* Theorems about Paging and ManagerApi, for ints of any width, any limit, *)
(* page and number of tasks.                                               *)
(***************************************************************************)
EXTENDS ManagerApi, InsertionProofs

-----------------------------------------------------------------------------
(* The arithmetic of a page.                                               *)

\* An int that fits is not changed.
LEMMA WrapFits ==
    ASSUME NEW x \in Int, -Half <= x, x < Half
    PROVE  Wrap(x) = x
<1>1. Half \in Nat /\ Half > 0
  BY PagingAssumption
<1>2. x + Half \in Nat /\ 2 * Half \in Nat /\ x + Half < 2 * Half
  BY <1>1
<1>3. ASSUME NEW a \in Nat, NEW b \in Nat, a < b  PROVE a % b = a
  BY <1>3
<1>4. (x + Half) % (2 * Half) = x + Half
  BY <1>2, <1>3
<1> QED  BY <1>1, <1>4 DEF Wrap

\* Division by a limit.
LEMMA Division ==
    ASSUME NEW a \in Nat, NEW l \in Nat, l > 0
    PROVE  a \div l \in Nat /\ (a \div l) * l <= a /\ a < (a \div l) * l + l
OBVIOUS

\* The quotient is the one number whose multiples enclose the dividend.
LEMMA DivisionIs ==
    ASSUME NEW a \in Nat, NEW l \in Nat, l > 0, NEW q \in Nat
    PROVE  a \div l = q <=> q * l <= a /\ a < (q + 1) * l
OBVIOUS

\* A quotient reaches a number when the dividend reaches its multiple.
LEMMA DivisionAtLeast ==
    ASSUME NEW a \in Nat, NEW l \in Nat, l > 0, NEW q \in Nat
    PROVE  a \div l >= q <=> q * l <= a
<1>1. PICK d \in Nat : d = a \div l /\ d * l <= a /\ a < (d + 1) * l
  OBVIOUS
<1>2. ASSUME NEW x \in Nat, NEW y \in Nat, x <= y PROVE x * l <= y * l
  BY <1>2
<1>3. CASE d >= q
  BY <1>1, <1>2, <1>3
<1>4. CASE d < q
  <2>1. d + 1 <= q
    BY <1>4
  <2> QED  BY <1>1, <1>2, <1>4, <2>1
<1> QED  BY <1>3, <1>4

\* What the two handlers compute when nothing overflows.
LEMMA Offsets ==
    ASSUME NEW p \in Positive, NEW lim \in Positive, NEW count \in Nat,
           Fits(p, lim, count)
    PROVE  /\ p \in Nat /\ p >= 1 /\ lim \in Nat /\ lim >= 1
           /\ p * lim \in Nat /\ (p - 1) * lim \in Nat
           /\ (p - 1) * lim + lim = p * lim
           /\ Start(p, lim) = (p - 1) * lim
           /\ Wrap(Start(p, lim) + lim) = p * lim
           /\ TotalPages(lim, count) = (count + lim - 1) \div lim
<1>1. /\ Half \in Nat /\ p \in Nat /\ p >= 1 /\ p < Half
      /\ lim \in Nat /\ lim >= 1 /\ lim < Half
  BY PagingAssumption DEF Positive
<1>2. p * lim < Half /\ count + lim < Half
  BY DEF Fits
<1>3. PICK r \in Nat, s \in Nat : r = (p - 1) * lim /\ s = p * lim /\ r + lim = s
  <2>1. p - 1 \in Nat
    BY <1>1
  <2>2. ASSUME NEW x \in Nat, NEW y \in Nat PROVE x * y \in Nat
    OBVIOUS
  <2>3. ASSUME NEW x \in Nat, NEW y \in Nat PROVE (x - 1) * y + y = x * y
    OBVIOUS
  <2>4. (p - 1) * lim \in Nat /\ p * lim \in Nat
    BY <1>1, <2>1, <2>2
  <2>5. (p - 1) * lim + lim = p * lim
    BY <1>1, <2>3
  <2> QED  BY <2>4, <2>5
<1>4. Wrap(p - 1) = p - 1
  <2>1. p - 1 \in Int /\ -Half <= p - 1 /\ p - 1 < Half
    BY <1>1
  <2> QED  BY <2>1, WrapFits
<1>5. Start(p, lim) = r
  <2>1. r \in Int /\ -Half <= r /\ r < Half
    BY <1>1, <1>2, <1>3
  <2> QED  BY <1>3, <1>4, <2>1, WrapFits DEF Start
<1>6. Wrap(r + lim) = s
  <2>1. s \in Int /\ -Half <= s /\ s < Half
    BY <1>1, <1>2, <1>3
  <2> QED  BY <1>3, <2>1, WrapFits
<1>7. PICK c \in Nat, d \in Nat : c = count + lim /\ d = c - 1 /\ c < Half
  <2>1. count + lim \in Nat /\ (count + lim) - 1 \in Nat
    BY <1>1
  <2> QED  BY <1>2, <2>1
<1>8. Wrap(c) = c /\ Wrap(d) = d
  <2>1. -Half <= c /\ -Half <= d /\ d < Half
    BY <1>1, <1>7
  <2> QED  BY <1>7, <2>1, WrapFits
<1>9. TotalPages(lim, count) = (count + lim - 1) \div lim
  <2>1. TotalPages(lim, count) = Quotient(d, lim)
    BY <1>7, <1>8 DEF TotalPages
  <2>2. Quotient(d, lim) = d \div lim
    BY DEF Quotient
  <2>3. d = count + lim - 1
    BY <1>1, <1>7
  <2> QED  BY <2>1, <2>2, <2>3, Zenon
<1> QED  BY <1>1, <1>3, <1>5, <1>6, <1>9

\* Which positions belong on a page, and when there are any after it.
LEMMA PageIsInterval ==
    ASSUME NEW p \in Nat, p >= 1, NEW lim \in Nat, lim >= 1, NEW count \in Nat,
           NEW r \in Nat, NEW s \in Nat, r = (p - 1) * lim, s = p * lim
    PROVE  /\ OnPage(p, lim, count) = {i \in 1 .. count : r < i /\ i <= s}
           /\ MoreAfter(p, lim, count) <=> s < count
<1>1. ASSUME NEW i \in Nat, i >= 1
      PROVE  /\ PageOf(i, lim) = p <=> r < i /\ i <= s
             /\ PageOf(i, lim) > p <=> s < i
  <2>1. i - 1 \in Nat /\ p - 1 \in Nat /\ (p - 1) + 1 = p
    BY <1>1
  <2>2. (i - 1) \div lim = p - 1 <=> r <= i - 1 /\ i - 1 < s
    BY <2>1, DivisionIs
  <2>3. (i - 1) \div lim >= p <=> s <= i - 1
    BY <2>1, DivisionAtLeast
  <2>4. PICK d \in Nat : d = (i - 1) \div lim
    BY <2>1, Division
  <2> QED  BY <1>1, <2>2, <2>3, <2>4 DEF PageOf
<1>2. OnPage(p, lim, count) = {i \in 1 .. count : r < i /\ i <= s}
  BY <1>1 DEF OnPage
<1>3. MoreAfter(p, lim, count) <=> s < count
  <2>1. CASE s < count
    <3>1. count \in 1 .. count /\ count \in Nat /\ count >= 1
      BY <2>1
    <3> QED  BY <1>1, <2>1, <3>1 DEF MoreAfter
  <2>2. CASE ~(s < count)
    <3>1. ASSUME NEW i \in 1 .. count PROVE ~(PageOf(i, lim) > p)
      BY <1>1, <2>2
    <3> QED  BY <2>2, <3>1 DEF MoreAfter
  <2> QED  BY <2>1, <2>2
<1> QED  BY <1>2, <1>3

\* The manager's pages hold the entries that belong on them, and HasNext tells
\* whether there are more, as long as the end of the page is an int.
THEOREM ManagerPages ==
    \A p, lim \in Positive, count \in Nat : PageIsRight(p, lim, count)
<1> SUFFICES ASSUME NEW p \in Positive, NEW lim \in Positive, NEW count \in Nat,
                    Fits(p, lim, count)
             PROVE  /\ ~Panics(p, lim, count)
                    /\ Positions(p, lim, count) = OnPage(p, lim, count)
                    /\ HasNext(p, lim, count) <=> MoreAfter(p, lim, count)
  BY DEF PageIsRight
<1>1. PICK r \in Nat, s \in Nat :
         /\ r = (p - 1) * lim /\ s = p * lim /\ r <= s
         /\ Start(p, lim) = r /\ Wrap(r + lim) = s
  BY Offsets
<1>2. End(p, lim, count) = Smaller(s, count)
  BY <1>1 DEF End
<1>3. /\ OnPage(p, lim, count) = {i \in 1 .. count : r < i /\ i <= s}
      /\ MoreAfter(p, lim, count) <=> s < count
  <2>1. p \in Nat /\ p >= 1 /\ lim \in Nat /\ lim >= 1
    BY Offsets
  <2> QED  BY <1>1, <2>1, PageIsInterval
<1>4. ~Panics(p, lim, count)
  BY <1>1, <1>2 DEF Panics, Empty, Smaller
<1>5. Positions(p, lim, count) = {i \in 1 .. count : r < i /\ i <= s}
  BY <1>1, <1>2 DEF Positions, Empty, Smaller
<1>6. HasNext(p, lim, count) <=> s < count
  BY <1>2 DEF HasNext, Smaller
<1> QED  BY <1>3, <1>4, <1>5, <1>6

\* The same of the worker's pages, whose number it computes by rounding up.
THEOREM WorkerPages ==
    \A p, lim \in Positive, count \in Nat : WorkerPageIsRight(p, lim, count)
<1> SUFFICES ASSUME NEW p \in Positive, NEW lim \in Positive, NEW count \in Nat,
                    Fits(p, lim, count)
             PROVE  /\ ~WorkerPanics(p, lim, count)
                    /\ WorkerPositions(p, lim, count) = OnPage(p, lim, count)
                    /\ WorkerHasNext(p, lim, count) <=> MoreAfter(p, lim, count)
  BY DEF WorkerPageIsRight
<1>1. PICK r \in Nat, s \in Nat :
         /\ r = (p - 1) * lim /\ s = p * lim /\ r <= s /\ s = r + lim
         /\ Start(p, lim) = r /\ Wrap(r + lim) = s
  BY Offsets
<1>2. /\ WorkerStart(p, lim, count) = Smaller(r, count)
      /\ WorkerEnd(p, lim, count) = IF r >= count THEN count ELSE Smaller(s, count)
  BY <1>1 DEF WorkerStart, WorkerEnd
<1>3. p \in Nat /\ p >= 1 /\ lim \in Nat /\ lim >= 1
  BY Offsets
<1>4. /\ OnPage(p, lim, count) = {i \in 1 .. count : r < i /\ i <= s}
      /\ MoreAfter(p, lim, count) <=> s < count
  BY <1>1, <1>3, PageIsInterval
<1>5. ~WorkerPanics(p, lim, count)
  BY <1>1, <1>2 DEF WorkerPanics, Smaller
<1>6. WorkerPositions(p, lim, count) = {i \in 1 .. count : r < i /\ i <= s}
  BY <1>1, <1>2 DEF WorkerPositions, Smaller
<1>7. WorkerHasNext(p, lim, count) <=> s < count
  <2>1. count + lim - 1 \in Nat /\ p + 1 \in Nat
    BY <1>3
  <2>2. (count + lim - 1) \div lim >= p + 1 <=> (p + 1) * lim <= count + lim - 1
    BY <1>3, <2>1, DivisionAtLeast
  <2>3. (p + 1) * lim = s + lim
    <3>1. ASSUME NEW x \in Nat, NEW y \in Nat PROVE (x + 1) * y = x * y + y
      OBVIOUS
    <3> QED  BY <1>1, <1>3, <3>1
  <2>4. PICK d \in Nat : d = (count + lim - 1) \div lim
    BY <1>3, <2>1, Division
  <2>5. WorkerHasNext(p, lim, count) <=> p < d
    BY <2>4, Offsets DEF WorkerHasNext
  <2> QED  BY <1>3, <2>2, <2>3, <2>4, <2>5
<1> QED  BY <1>4, <1>5, <1>6, <1>7

-----------------------------------------------------------------------------
(* The inductive invariant.                                                *)

\* Every entry that was added is on the list.
Numbered ==
    /\ Len(sorted) <= MaxTasks
    /\ \A e \in 1 .. Len(sorted) : \E i \in 1 .. Len(sorted) : sorted[i] = e

\* What was answered and how often a handler was called, by where the request
\* is.  Only the path through all three middlewares leads to a handler.
Stage ==
    /\ at \in {"idle", "auth", "rate", "correlation", "handler"} => status = 0 /\ ran = 0
    /\ at \in {"correlation", "handler"} => key \in Active
    /\ at = "handler" => correlated
    /\ at = "returned" => ran = 1 /\ status \in {200, 201, 204, 400, 405}
    /\ at = "done" => /\ ran \in {0, 1}
                      /\ status \in {401, 403, 429} <=> ran = 0

\* A walk asks for one page after the other of a list it began with; it never
\* asks for a page far beyond the end.
Walk ==
    /\ at = "idle" => ~walking
    /\ walking => /\ route = "GET /tasks" /\ page >= 1 /\ limit \in 1 .. MaxLimit
                  /\ before \subseteq 1 .. Len(sorted)
                  /\ (page - 1) * limit <= MaxTasks
                  /\ status = 200 /\ more => page * limit <= MaxTasks

PagesRead == IF status = 200 THEN page ELSE page - 1

\* What the walk has passed it has seen: an insertion only moves entries to
\* later positions.
SeenWhatItPassed ==
    walking =>
        /\ \A i \in 1 .. Len(sorted) :
               sorted[i] \in before /\ i <= PagesRead * limit => sorted[i] \in seen
        /\ status = 200 /\ ~more => before \subseteq seen

IInv == TypeOK /\ Numbered /\ Stage /\ Walk /\ SeenWhatItPassed

\* The numbers of the state.
LEMMA Numbers ==
    ASSUME IInv
    PROVE  /\ Half \in Nat /\ MaxTasks \in Nat /\ MaxLimit \in Nat /\ MaxLimit >= 1
           /\ MaxTasks + MaxLimit < Half /\ 1 \in Positive
           /\ page \in Nat /\ limit \in Nat /\ Positive \subseteq Parameter
           /\ walking => page >= 1 /\ limit >= 1
           /\ sorted \in Seq(1 .. MaxTasks) /\ Len(sorted) \in Nat
           /\ Len(sorted) <= MaxTasks
<1>1. /\ Half \in Nat /\ MaxTasks \in Nat /\ MaxLimit \in Nat /\ MaxLimit >= 1
      /\ MaxTasks + MaxLimit < Half
  BY ApiAssumption, PagingAssumption
<1>2. 1 \in Positive
  BY <1>1 DEF Positive
<1>3. page \in Parameter /\ limit \in Parameter /\ sorted \in Seq(1 .. MaxTasks)
  BY DEF IInv, TypeOK
<1>4. page \in Nat /\ limit \in Nat
  BY <1>1, <1>3 DEF Positive, Parameter
<1>5. Len(sorted) \in Nat
  BY <1>3
<1>6. Len(sorted) <= MaxTasks
  BY DEF IInv, Numbered
<1>7. Positive \subseteq Parameter
  BY DEF Parameter
<1>8. walking => page >= 1 /\ limit >= 1
  <2>1. walking => page >= 1 /\ limit \in 1 .. MaxLimit
    BY Zenon DEF IInv, Walk
  <2> QED  BY <1>1, <2>1
<1> QED  BY <1>1, <1>2, <1>3, <1>4, <1>5, <1>6, <1>7, <1>8

\* An idle client and an empty list satisfy the invariant.
LEMMA InitIInv == Init => IInv
<1> SUFFICES ASSUME Init PROVE IInv
  OBVIOUS
<1>1. MaxTasks \in Nat /\ 1 \in Positive
  BY ApiAssumption, PagingAssumption DEF Positive
<1>2. sorted = <<>> /\ Len(sorted) = 0 /\ sorted \in Seq(1 .. MaxTasks)
  <2>1. sorted = <<>>
    BY DEF Init
  <2> QED  BY <2>1, EmptySeq
<1>3. TypeOK
  BY <1>1, <1>2 DEF Init, TypeOK, Route, Key, Parameter
<1>4. Numbered
  BY <1>1, <1>2 DEF Numbered
<1>5. Stage /\ Walk /\ SeenWhatItPassed
  BY DEF Init, Stage, Walk, SeenWhatItPassed
<1> QED  BY <1>3, <1>4, <1>5 DEF IInv

\* What is written for a request that had no status yet, and for one that had.
LEMMA WriteIs ==
    ASSUME TypeOK, NEW s, s \in {200, 201, 204, 400, 401, 403, 405}, NEW d \in {0, 1},
           Write(s, d)
    PROVE  /\ status' = IF status = 0 THEN s ELSE status
           /\ status' \in {0, 200, 201, 204, 400, 401, 403, 405, 429, 500}
           /\ documents' \in Nat
<1>1. /\ documents \in Nat /\ d \in Nat
      /\ status \in {0, 200, 201, 204, 400, 401, 403, 405, 429, 500}
  BY DEF TypeOK
<1>2. documents + d \in Nat
  BY <1>1
<1> QED  BY <1>1, <1>2 DEF Write

\* A step that neither lists nor asks keeps the walk.
LEMMA NothingListed ==
    ASSUME IInv, UNCHANGED <<sorted, route, key, page, limit, walk>>,
           at' \in {"auth", "rate", "correlation", "handler", "returned", "done"},
           status' = status \/ (status # 200 /\ status' # 200),
           status' \in {0, 200, 201, 204, 400, 401, 403, 405, 429, 500},
           documents' \in Nat, correlated' \in BOOLEAN, ran' \in Nat,
           leaked' \in BOOLEAN, Stage'
    PROVE  IInv'
<1>1. TypeOK'
  BY DEF IInv, TypeOK, walk
<1>2. Numbered'
  BY DEF IInv, Numbered
<1>3. Walk'
  <2>1. at' # "idle" /\ (status' = 200 => status = 200) /\ Walk
    BY DEF IInv
  <2>2. /\ walking' = walking /\ more' = more /\ before' = before /\ sorted' = sorted
        /\ page' = page /\ limit' = limit /\ route' = route
    BY DEF walk
  <2> QED  BY <2>1, <2>2, ZenonT(30) DEF Walk
<1>4. PagesRead' = PagesRead /\ (status' = 200 <=> status = 200)
  BY DEF PagesRead
<1>5. SeenWhatItPassed'
  BY <1>4 DEF IInv, SeenWhatItPassed, walk
<1> QED  BY <1>1, <1>2, <1>3, <1>5 DEF IInv

-----------------------------------------------------------------------------
(* The middlewares.                                                        *)

\* ApiKeyAuthMiddleware answers 401 or 403 only instead of a handler.
LEMMA AuthKeeps == IInv /\ Auth => IInv'
<1> SUFFICES ASSUME IInv, Auth PROVE IInv'
  OBVIOUS
<1>1. /\ UNCHANGED <<sorted, route, key, page, limit, correlated, ran, leaked, walk>>
      /\ at = "auth"
      /\ Refuse(401) \/ Refuse(403) \/ Pass("rate")
  BY DEF Auth
<1>2. /\ status = 0 /\ ran = 0 /\ correlated \in BOOLEAN /\ leaked \in BOOLEAN
      /\ TypeOK /\ documents \in Nat
  BY <1>1 DEF IInv, Stage, TypeOK
<1>3. CASE Pass("rate")
  <2>1. at' = "rate" /\ status' = 0 /\ documents' = documents
    BY <1>2, <1>3 DEF Pass, response
  <2>2. Stage'
    BY <1>1, <1>2, <2>1 DEF Stage
  <2> QED  BY <1>1, <1>2, <2>1, <2>2, NothingListed
<1>4. CASE Refuse(401) \/ Refuse(403)
  <2>1. at' = "done" /\ status' \in {401, 403} /\ documents' \in Nat
    BY <1>2, <1>4, WriteIs DEF Refuse
  <2>2. Stage'
    BY <1>1, <1>2, <2>1 DEF Stage
  <2> QED  BY <1>1, <1>2, <2>1, <2>2, NothingListed
<1> QED  BY <1>1, <1>3, <1>4

\* ApiRateLimitMiddleware answers 429 only instead of a handler, on the way in.
LEMMA RateKeeps == IInv /\ Rate => IInv'
<1> SUFFICES ASSUME IInv, Rate PROVE IInv'
  OBVIOUS
<1>1. /\ UNCHANGED <<sorted, route, key, page, limit, correlated, ran, leaked, walk>>
      /\ at = "rate"
      /\ Refuse(403) \/ Refuse(401) \/ (key \in Active /\ Pass("correlation"))
  BY DEF Rate
<1>2. /\ status = 0 /\ ran = 0 /\ correlated \in BOOLEAN /\ leaked \in BOOLEAN
      /\ TypeOK /\ documents \in Nat
  BY <1>1 DEF IInv, Stage, TypeOK
<1>3. CASE key \in Active /\ Pass("correlation")
  <2>1. at' = "correlation" /\ status' = 0 /\ documents' = documents
    BY <1>2, <1>3 DEF Pass, response
  <2>2. Stage'
    BY <1>1, <1>2, <1>3, <2>1 DEF Stage
  <2> QED  BY <1>1, <1>2, <2>1, <2>2, NothingListed
<1>4. CASE Refuse(403) \/ Refuse(401)
  <2>1. at' = "done" /\ status' \in {401, 403} /\ documents' \in Nat
    BY <1>2, <1>4, WriteIs DEF Refuse
  <2>2. Stage'
    BY <1>1, <1>2, <2>1 DEF Stage
  <2> QED  BY <1>1, <1>2, <2>1, <2>2, NothingListed
<1> QED  BY <1>1, <1>3, <1>4

\* An endpoint without a limit has none to be below of, so the second call of
\* the next handler is never made.
LEMMA RateReturnedKeeps == IInv /\ RateReturned => IInv'
<1> SUFFICES ASSUME IInv, RateReturned PROVE IInv'
  OBVIOUS
<1>1. /\ UNCHANGED <<sorted, route, key, page, limit, correlated, ran, leaked, walk>>
      /\ at = "returned"
      /\ Pass("done") \/ Refuse(401)
  BY DEF RateReturned, BelowRateLimit, CurrentRate
<1>2. /\ status \in {200, 201, 204, 400, 405} /\ ran = 1
      /\ correlated \in BOOLEAN /\ leaked \in BOOLEAN
      /\ TypeOK /\ documents \in Nat
  BY <1>1 DEF IInv, Stage, TypeOK
<1>3. at' = "done" /\ status' = status /\ documents' \in Nat
  <2>1. CASE Pass("done")
    BY <1>2, <2>1 DEF Pass, response
  <2>2. CASE Refuse(401)
    BY <1>2, <2>2, WriteIs DEF Refuse
  <2> QED  BY <1>1, <2>1, <2>2
<1>4. Stage'
  BY <1>1, <1>2, <1>3 DEF Stage
<1> QED  BY <1>1, <1>2, <1>3, <1>4, NothingListed

\* CorrelationMiddleware passes the request on once.
LEMMA CorrelateKeeps == IInv /\ Correlate => IInv'
<1> SUFFICES ASSUME IInv, Correlate PROVE IInv'
  OBVIOUS
<1>1. /\ UNCHANGED <<sorted, route, key, page, limit, ran, leaked, walk, response>>
      /\ at = "correlation" /\ at' = "handler" /\ correlated' = TRUE
  BY DEF Correlate, Pass
<1>2. /\ status = 0 /\ ran = 0 /\ key \in Active /\ leaked \in BOOLEAN /\ documents \in Nat
  BY <1>1 DEF IInv, Stage, TypeOK
<1>3. status' = 0 /\ documents' = documents
  BY <1>1, <1>2 DEF response
<1>4. Stage'
  BY <1>1, <1>2, <1>3 DEF Stage
<1>5. correlated' \in BOOLEAN
  BY <1>1
<1> QED  BY <1>1, <1>2, <1>3, <1>4, <1>5, NothingListed

-----------------------------------------------------------------------------
(* The list.                                                               *)

\* An insertion adds the next number and moves entries only to later positions.
LEMMA InsertIs ==
    ASSUME IInv, Insert, Len(sorted) < MaxTasks
    PROVE  /\ sorted' \in Seq(1 .. MaxTasks) /\ Len(sorted') = Len(sorted) + 1
           /\ Numbered'
           /\ \A i \in 1 .. Len(sorted') :
                 \/ sorted'[i] = Len(sorted) + 1
                 \/ \E j \in 1 .. Len(sorted) : j <= i /\ sorted'[i] = sorted[j]
<1>1. PICK n \in Nat, m \in Nat : n = Len(sorted) /\ m = MaxTasks /\ n < m
  BY Numbers
<1>2. PICK i \in 1 .. n + 1 : sorted' = InsertAt(sorted, i, n + 1)
  BY <1>1 DEF Insert
<1>3. n + 1 \in 1 .. m
  BY <1>1
<1>4. sorted' \in Seq(1 .. m) /\ IsInsertion(sorted', sorted, i, n + 1)
  <2>1. sorted \in Seq(1 .. m)
    BY <1>1, Numbers
  <2> QED  BY <1>1, <1>2, <1>3, <2>1, InsertAtIs
<1>5. /\ Len(sorted') = n + 1 /\ sorted'[i] = n + 1
      /\ \A j \in 1 .. i - 1 : sorted'[j] = sorted[j]
      /\ \A j \in i + 1 .. n + 1 : sorted'[j] = sorted[j - 1]
  BY <1>1, <1>4 DEF IsInsertion
<1>6. \A j \in 1 .. n + 1 :
         \/ sorted'[j] = n + 1
         \/ \E k \in 1 .. n : k <= j /\ sorted'[j] = sorted[k]
  <2> SUFFICES ASSUME NEW j \in 1 .. n + 1
               PROVE  \/ sorted'[j] = n + 1
                      \/ \E k \in 1 .. n : k <= j /\ sorted'[j] = sorted[k]
    OBVIOUS
  <2>1. CASE j < i
    <3>1. j \in 1 .. i - 1 /\ j \in 1 .. n /\ j <= j
      BY <2>1
    <3> QED  BY <1>5, <3>1
  <2>2. CASE j > i
    <3>1. j \in i + 1 .. n + 1 /\ j - 1 \in 1 .. n /\ j - 1 <= j
      BY <2>2
    <3> QED  BY <1>5, <3>1
  <2>3. CASE j = i
    BY <1>5, <2>3
  <2> QED  BY <2>1, <2>2, <2>3
<1>7. \A e \in 1 .. n + 1 : \E j \in 1 .. n + 1 : sorted'[j] = e
  <2> SUFFICES ASSUME NEW e \in 1 .. n + 1 PROVE \E j \in 1 .. n + 1 : sorted'[j] = e
    OBVIOUS
  <2>1. CASE e = n + 1
    BY <1>5, <2>1
  <2>2. CASE e # n + 1
    <3>1. e \in 1 .. n
      BY <2>2
    <3>2. PICK k \in 1 .. n : sorted[k] = e
      BY <1>1, <3>1 DEF IInv, Numbered
    <3>3. CASE k < i
      <4>1. k \in 1 .. i - 1 /\ k \in 1 .. n + 1
        BY <3>3
      <4> QED  BY <1>5, <3>2, <4>1
    <3>4. CASE ~(k < i)
      <4>1. k + 1 \in i + 1 .. n + 1 /\ k + 1 \in 1 .. n + 1 /\ (k + 1) - 1 = k
        BY <3>4
      <4> QED  BY <1>5, <3>2, <4>1
    <3> QED  BY <3>3, <3>4
  <2> QED  BY <2>1, <2>2
<1>8. n + 1 <= m
  BY <1>1
<1>9. Numbered'
  BY <1>1, <1>5, <1>7, <1>8 DEF Numbered
<1> QED  BY <1>1, <1>4, <1>5, <1>6, <1>9

\* What a walk has passed stays passed.
LEMMA InsertKeepsWalk ==
    ASSUME IInv, Insert, Len(sorted) < MaxTasks,
           UNCHANGED <<route, page, limit, status, walk>>, at' = "idle" => at = "idle"
    PROVE  Walk' /\ SeenWhatItPassed'
<1>1. /\ walking' = walking /\ more' = more /\ before' = before /\ seen' = seen
  BY DEF walk
<1>2. PICK n \in Nat : n = Len(sorted) /\ Len(sorted') = n + 1
  BY InsertIs, Numbers
<1>3. walking => before \subseteq 1 .. n + 1 /\ n + 1 \notin before
  <2> SUFFICES ASSUME walking PROVE before \subseteq 1 .. n + 1 /\ n + 1 \notin before
    OBVIOUS
  <2>1. before \subseteq 1 .. n
    BY <1>2 DEF IInv, Walk
  <2> QED  BY <2>1
<1>4. Walk'
  BY <1>1, <1>2, <1>3 DEF IInv, Walk
<1>5. SeenWhatItPassed'
  <2> SUFFICES ASSUME walking
               PROVE  SeenWhatItPassed'
    BY <1>1 DEF SeenWhatItPassed
  <2>1. PICK r \in Int : r = PagesRead * limit /\ PagesRead' = PagesRead
    BY Numbers DEF PagesRead
  <2>2. ASSUME NEW i \in 1 .. n + 1, sorted'[i] \in before, i <= r
        PROVE  sorted'[i] \in seen
    <3>1. PICK j \in 1 .. n : j <= i /\ sorted'[i] = sorted[j]
      BY <1>2, <1>3, <2>2, InsertIs
    <3>2. j <= r
      BY <2>2, <3>1
    <3> QED  BY <1>2, <2>1, <2>2, <3>1, <3>2 DEF IInv, SeenWhatItPassed
  <2>3. status = 200 /\ ~more => before \subseteq seen
    BY DEF IInv, SeenWhatItPassed
  <2>4. \A i \in 1 .. Len(sorted') :
           sorted'[i] \in before' /\ i <= PagesRead' * limit' => sorted'[i] \in seen'
    BY <1>1, <1>2, <2>1, <2>2
  <2> QED  BY <1>1, <2>3, <2>4 DEF SeenWhatItPassed
<1> QED  BY <1>4, <1>5

\* An insertion anywhere moves entries to later positions only, so what a walk
\* has passed it has still seen.
LEMMA ListGrowsKeeps == IInv /\ ListGrows => IInv'
<1> SUFFICES ASSUME IInv, ListGrows PROVE IInv'
  OBVIOUS
<1>1. /\ Insert /\ Len(sorted) < MaxTasks
      /\ UNCHANGED <<request, response, correlated, ran, leaked, walk>>
  BY DEF ListGrows
<1>2. /\ UNCHANGED <<at, route, key, page, limit, status, documents>>
      /\ UNCHANGED <<correlated, ran, leaked, walk>>
      /\ UNCHANGED <<more, walking, before, seen>>
  BY <1>1 DEF request, response, walk
<1>3. sorted' \in Seq(1 .. MaxTasks) /\ Numbered'
  BY <1>1, InsertIs
<1>4. Walk' /\ SeenWhatItPassed'
  BY <1>1, <1>2, InsertKeepsWalk
<1>5. TypeOK'
  BY <1>2, <1>3 DEF IInv, TypeOK
<1>6. Stage'
  BY <1>2 DEF IInv, Stage
<1> QED  BY <1>3, <1>4, <1>5, <1>6 DEF IInv

-----------------------------------------------------------------------------
(* The client.                                                             *)

\* What asking does whatever is asked.
LEMMA AskedIs ==
    ASSUME IInv, sorted' = sorted, at' \in {"idle", "auth"}, status' = 0, ran' = 0
    PROVE  Stage' /\ Numbered' /\ PagesRead' = page' - 1
<1>1. Stage'
  BY DEF Stage
<1>2. Numbered'
  BY DEF IInv, Numbered
<1>3. PagesRead' = page' - 1
  BY DEF PagesRead
<1> QED  BY <1>1, <1>2, <1>3

\* A request outside a walk leaves the history of walks alone.
LEMMA AskKeeps == IInv /\ Ask => IInv'
<1> SUFFICES ASSUME IInv, Ask PROVE IInv'
  OBVIOUS
<1>1. PICK r \in Route, k \in Key, p \in Parameter, l \in Parameter : Asks(r, k, p, l)
  BY DEF Ask
<1>2. at = "idle" /\ UNCHANGED <<more, walking, before, seen>> /\ ~walking
  BY DEF Ask, walk, IInv, Walk
<1>3. /\ at' = "auth" /\ status' = 0 /\ documents' = 0 /\ correlated' = FALSE /\ ran' = 0
      /\ route' \in Route /\ key' \in Key /\ page' \in Parameter /\ limit' \in Parameter
      /\ UNCHANGED <<sorted, leaked>>
  BY <1>1 DEF Asks
<1>4. TypeOK'
  <2>1. TypeOK
    BY DEF IInv
  <2> QED  BY <1>2, <1>3, <2>1, ZenonT(30) DEF TypeOK
<1>5. Stage' /\ Numbered'
  BY <1>3 DEF Stage, IInv, Numbered
<1>6. Walk' /\ SeenWhatItPassed'
  BY <1>2, <1>3 DEF Walk, SeenWhatItPassed
<1> QED  BY <1>4, <1>5, <1>6 DEF IInv

\* A walk starts before page 1 and remembers what was listed.
LEMMA BeginWalkKeeps == IInv /\ BeginWalk => IInv'
<1> SUFFICES ASSUME IInv, BeginWalk PROVE IInv'
  OBVIOUS
<1>1. PICK l \in 1 .. MaxLimit : Asks("GET /tasks", "client", 1, l)
  BY DEF BeginWalk
<1>2. /\ more' = more /\ walking' = TRUE /\ before' = 1 .. Len(sorted) /\ seen' = {}
      /\ at' = "auth" /\ status' = 0 /\ documents' = 0 /\ correlated' = FALSE /\ ran' = 0
      /\ route' = "GET /tasks" /\ key' = "client" /\ page' = 1 /\ limit' = l
      /\ UNCHANGED <<sorted, leaked>>
  BY <1>1 DEF BeginWalk, Asks
<1>3. l \in Parameter /\ l \in Nat /\ 1 \in Parameter /\ MaxTasks \in Nat
  BY Numbers DEF Positive, Parameter
<1>4. 1 .. Len(sorted) \subseteq 1 .. MaxTasks
  BY Numbers
<1>5. TypeOK'
  <2>1. route' \in Route /\ key' \in Key
    BY <1>2 DEF Route, Key
  <2>2. before' \subseteq 1 .. MaxTasks /\ seen' \subseteq 1 .. MaxTasks
    BY <1>2, <1>4
  <2>3. TypeOK /\ page' \in Parameter /\ limit' \in Parameter
    BY <1>2, <1>3 DEF IInv
  <2> QED  BY <1>2, <2>1, <2>2, <2>3, ZenonT(30) DEF TypeOK
<1>6. sorted' = sorted /\ at' = "auth" /\ status' = 0 /\ ran' = 0
  BY <1>2
<1>7. Stage' /\ Numbered' /\ PagesRead' = page' - 1
  BY <1>6, AskedIs
<1>8. page' - 1 = 0 /\ (page' - 1) * limit' = 0
  <2>1. page' = 1 /\ limit' \in Nat
    BY <1>2, <1>3
  <2>2. page' - 1 = 0
    BY <2>1
  <2>3. \A x \in Nat : 0 * x = 0
    OBVIOUS
  <2> QED  BY <2>1, <2>2, <2>3
<1>9. Walk'
  <2>0. 1 >= 1
    OBVIOUS
  <2>1. /\ route' = "GET /tasks" /\ page' >= 1 /\ limit' \in 1 .. MaxLimit
        /\ before' \subseteq 1 .. Len(sorted')
    BY <1>2, <2>0
  <2>2. (page' - 1) * limit' <= MaxTasks
    BY <1>3, <1>8
  <2>3. at' # "idle" /\ status' # 200
    BY <1>6
  <2> QED  BY <2>1, <2>2, <2>3, Zenon DEF Walk
<1>10. SeenWhatItPassed'
  <2>1. PagesRead' * limit' = 0
    BY <1>7, <1>8
  <2>2. Len(sorted') \in Nat
    BY <1>6, Numbers
  <2>3. \A i \in 1 .. Len(sorted') : ~(i <= PagesRead' * limit')
    BY <2>1, <2>2
  <2> QED  BY <1>6, <2>3 DEF SeenWhatItPassed
<1> QED  BY <1>5, <1>7, <1>9, <1>10 DEF IInv

\* A walk that goes on was on a page that ended inside the list.
LEMMA NextPageKeeps == IInv /\ NextPage => IInv'
<1> SUFFICES ASSUME IInv, NextPage PROVE IInv'
  OBVIOUS
<1>1. /\ UNCHANGED <<more, walking, before, seen>>
      /\ at' = "auth" /\ status' = 0 /\ documents' = 0 /\ correlated' = FALSE /\ ran' = 0
      /\ route' = "GET /tasks" /\ key' = "client" /\ page' = page + 1 /\ limit' = limit
      /\ UNCHANGED <<sorted, leaked>>
      /\ walking /\ status = 200 /\ more
  BY DEF NextPage, Asks, WalkGoesOn, walk
<1>2. PICK p \in Nat, l \in Nat, m \in Nat :
         p = page /\ l = limit /\ m = MaxTasks /\ p >= 1 /\ l >= 1
  BY <1>1, Numbers
<1>3. p * l <= m
  BY <1>1, <1>2 DEF IInv, Walk
<1>4. p <= m
  <2>1. p <= p * l /\ p * l \in Nat
    BY <1>2
  <2> QED  BY <1>3, <2>1
<1>5. page' \in Parameter /\ page' >= 1
  <2>1. PICK h \in Nat, x \in Nat : h = Half /\ x = MaxLimit /\ x >= 1 /\ m + x < h
    BY <1>2, Numbers
  <2>2. p + 1 \in 1 .. h - 1
    BY <1>4, <2>1
  <2>3. page' = p + 1
    BY <1>1, <1>2
  <2>4. page' >= 1 /\ page' \in Positive
    BY <1>2, <2>1, <2>2, <2>3 DEF Positive
  <2> QED  BY <2>4 DEF Parameter
<1>6. TypeOK'
  <2>1. route' \in Route /\ key' \in Key
    BY <1>1 DEF Route, Key
  <2> QED  BY <1>1, <1>5, <2>1 DEF IInv, TypeOK
<1>7. Stage' /\ Numbered' /\ PagesRead' = page' - 1
  <2>1. sorted' = sorted /\ at' = "auth" /\ status' = 0 /\ ran' = 0
    BY <1>1
  <2> QED  BY <2>1, AskedIs
<1>8. page' - 1 = page /\ PagesRead' = page /\ PagesRead = page
  <2>1. page' = p + 1
    BY <1>1, <1>2
  <2>2. page' - 1 = p
    BY <2>1
  <2>3. PagesRead = page
    BY <1>1 DEF PagesRead
  <2> QED  BY <1>2, <1>7, <2>2, <2>3
<1>9. Walk'
  <2>1. /\ at' = "auth" /\ status' = 0 /\ walking /\ sorted' = sorted
        /\ route' = "GET /tasks" /\ limit' = limit /\ before' = before
    BY <1>1
  <2>2. (page' - 1) * limit' <= MaxTasks
    BY <1>2, <1>3, <1>8, <2>1
  <2>3. limit' \in 1 .. MaxLimit /\ before' \subseteq 1 .. Len(sorted')
    BY <2>1 DEF IInv, Walk
  <2>4. at' # "idle" /\ status' # 200
    <3>1. at' = "auth" /\ status' = 0
      BY <1>1
    <3> QED  BY <3>1
  <2> QED  BY <1>5, <2>1, <2>2, <2>3, <2>4, Zenon DEF Walk
<1>10. SeenWhatItPassed'
  <2>1. /\ status' = 0 /\ walking /\ sorted' = sorted
        /\ limit' = limit /\ before' = before /\ seen' = seen
    BY <1>1
  <2> QED  BY <1>8, <2>1 DEF IInv, SeenWhatItPassed
<1> QED  BY <1>6, <1>7, <1>9, <1>10 DEF IInv

\* The end of a request ends a walk that has no more pages, or was refused.
LEMMA FinishKeeps == IInv /\ Finish => IInv'
<1> SUFFICES ASSUME IInv, Finish PROVE IInv'
  OBVIOUS
<1>1. /\ at' = "idle" /\ route' = "GET /tasks" /\ key' = "none" /\ page' = 1 /\ limit' = 1
      /\ status' = 0 /\ documents' = 0 /\ correlated' = FALSE /\ ran' = 0
      /\ more' = FALSE /\ walking' = FALSE /\ before' = {} /\ seen' = {}
      /\ UNCHANGED <<sorted, leaked>>
  BY DEF Finish
<1>2. route' \in Route /\ key' \in Key /\ 1 \in Parameter
  BY <1>1, Numbers DEF Route, Key
<1>3. TypeOK'
  BY <1>1, <1>2, ZenonT(30) DEF IInv, TypeOK
<1>4. sorted' = sorted /\ at' = "idle" /\ status' = 0 /\ ran' = 0 /\ ~walking'
  BY <1>1
<1>5. Stage' /\ Numbered'
  BY <1>4, AskedIs
<1>6. Walk' /\ SeenWhatItPassed'
  BY <1>4 DEF Walk, SeenWhatItPassed
<1> QED  BY <1>3, <1>5, <1>6 DEF IInv

-----------------------------------------------------------------------------
(* The handlers.                                                           *)

\* What every handler finds: the middlewares let the request through once.
LEMMA AtHandler ==
    ASSUME IInv, Called
    PROVE  /\ at = "handler" /\ ran = 0 /\ ran' = 1 /\ status = 0
           /\ TypeOK /\ documents \in Nat /\ leaked \in BOOLEAN /\ correlated \in BOOLEAN
<1>1. at = "handler" /\ ran' = ran + 1
  BY DEF Called
<1>2. ran = 0 /\ status = 0
  BY <1>1 DEF IInv, Stage
<1>3. ran' = 1
  BY <1>1, <1>2
<1> QED  BY <1>1, <1>2, <1>3 DEF IInv, TypeOK

\* An answer of a handler that lists nothing, or none at all.
LEMMA AnswerKeeps ==
    ASSUME IInv, Called, UNCHANGED <<sorted, route, key, page, limit, correlated, walk>>,
           leaked' \in BOOLEAN,
           \/ \E s \in {201, 204, 400, 405}, d \in {0, 1} : Write(s, d) /\ at' = "returned"
           \/ at' = "done" /\ UNCHANGED response
    PROVE  IInv'
<1>1. CASE at' = "done" /\ UNCHANGED response
  <2>1. status' = 0 /\ documents' \in Nat
    BY <1>1, AtHandler DEF response
  <2>2. Stage'
    BY <1>1, <2>1, AtHandler DEF Stage
  <2>3. ran' \in Nat /\ correlated' \in BOOLEAN
    BY AtHandler
  <2> QED  BY <1>1, <2>1, <2>2, <2>3, AtHandler, NothingListed
<1>2. ASSUME NEW s \in {201, 204, 400, 405}, NEW d \in {0, 1},
             Write(s, d), at' = "returned"
      PROVE  IInv'
  <2>1. status' = s /\ documents' \in Nat
    BY <1>2, AtHandler, WriteIs
  <2>2. Stage'
    BY <1>2, <2>1, AtHandler DEF Stage
  <2>3. ran' \in Nat /\ correlated' \in BOOLEAN
    BY AtHandler
  <2> QED  BY <1>2, <2>1, <2>2, <2>3, AtHandler, NothingListed
<1> QED  BY <1>1, <1>2

\* StartTaskHandler answers once and leaves the page of the walk alone.
LEMMA StartTaskHandlerKeeps == IInv /\ StartTaskHandler => IInv'
<1> SUFFICES ASSUME IInv, StartTaskHandler PROVE IInv'
  OBVIOUS
<1>1. /\ Called /\ route = "POST /tasks"
      /\ UNCHANGED <<route, key, page, limit, correlated, leaked, walk>>
  BY DEF StartTaskHandler
<1>2. leaked' \in BOOLEAN
  BY <1>1, AtHandler
<1>3. CASE Answers(400, 1) /\ UNCHANGED sorted
  <2>1. Write(400, 1) /\ at' = "returned"
    BY <1>3 DEF Answers
  <2> QED  BY <1>1, <1>2, <1>3, <2>1, AnswerKeeps, ZenonT(30)
<1>4. CASE Hangs /\ UNCHANGED sorted
  <2>1. at' = "done" /\ UNCHANGED response
    BY <1>4 DEF Hangs
  <2> QED  BY <1>1, <1>2, <1>4, <2>1, AnswerKeeps
<1>5. CASE Len(sorted) < MaxTasks /\ Insert /\ Answers(201, 1)
  <2>1. Write(201, 1) /\ at' = "returned"
    BY <1>5 DEF Answers
  <2>2. status' = 201 /\ documents' \in Nat
    <3>1. TypeOK /\ status = 0 /\ 201 \in {200, 201, 204, 400, 401, 403, 405} /\ 1 \in {0, 1}
      BY <1>1, AtHandler
    <3> QED  BY <2>1, <3>1, WriteIs
  <2>3. sorted' \in Seq(1 .. MaxTasks) /\ Numbered'
    BY <1>5, InsertIs
  <2>4. UNCHANGED <<more, walking, before, seen>>
    BY <1>1 DEF walk
  <2>5. ran' \in Nat /\ status' \in {0, 200, 201, 204, 400, 401, 403, 405, 429, 500}
    <3>1. ran' = 1 /\ status' = 201
      BY <1>1, <2>2, AtHandler
    <3> QED  BY <3>1
  <2>6. TypeOK'
    <3>1. TypeOK /\ at' = "returned" /\ documents' \in Nat
      BY <2>1, <2>2 DEF IInv
    <3>2. /\ route' = route /\ key' = key /\ page' = page /\ limit' = limit
          /\ correlated' = correlated /\ leaked' = leaked
          /\ more' = more /\ walking' = walking /\ before' = before /\ seen' = seen
      BY <1>1, <2>4
    <3> QED  BY <2>3, <2>5, <3>1, <3>2 DEF TypeOK
  <2>7. Stage'
    BY <1>1, <2>1, <2>2, AtHandler DEF Stage
  <2>8. ~walking
    <3>1. route # "GET /tasks"
      BY <1>1
    <3> QED  BY <3>1 DEF IInv, Walk
  <2>9. Walk' /\ SeenWhatItPassed'
    BY <2>4, <2>8 DEF Walk, SeenWhatItPassed
  <2> QED  BY <2>3, <2>6, <2>7, <2>9 DEF IInv
<1> QED  BY <1>3, <1>4, <1>5 DEF StartTaskHandler

\* StopTaskHandler answers once.
LEMMA StopTaskHandlerKeeps == IInv /\ StopTaskHandler => IInv'
<1> SUFFICES ASSUME IInv, StopTaskHandler PROVE IInv'
  OBVIOUS
<1>1. /\ Called
      /\ UNCHANGED <<sorted, route, key, page, limit, correlated, leaked, walk>>
      /\ Answers(400, 1) \/ Answers(204, 1) \/ Hangs
  BY DEF StopTaskHandler
<1>2. \/ \E s \in {201, 204, 400, 405}, d \in {0, 1} : Write(s, d) /\ at' = "returned"
      \/ at' = "done" /\ UNCHANGED response
  BY <1>1 DEF Answers, Hangs
<1>3. leaked' \in BOOLEAN
  BY <1>1, AtHandler
<1> QED  BY <1>1, <1>2, <1>3, AnswerKeeps

\* A method without a handler is answered by the router.
LEMMA MethodNotAllowedKeeps == IInv /\ MethodNotAllowed => IInv'
<1> SUFFICES ASSUME IInv, MethodNotAllowed PROVE IInv'
  OBVIOUS
<1>1. /\ Called
      /\ UNCHANGED <<sorted, route, key, page, limit, correlated, leaked, walk>>
      /\ Write(405, 0) /\ at' = "returned"
  BY DEF MethodNotAllowed
<1>2. leaked' \in BOOLEAN
  BY <1>1, AtHandler
<1> QED  BY <1>1, <1>2, AnswerKeeps

\* A page that is not a panic holds entries of the list.
LEMMA PageIsListed ==
    ASSUME IInv, ~Panics(page, limit, Len(sorted))
    PROVE  Page \subseteq 1 .. MaxTasks
<1>1. PICK n \in Nat, m \in Nat : n = Len(sorted) /\ m = MaxTasks
  BY Numbers
<1>2. \A i \in 1 .. n : sorted[i] \in 1 .. m
  BY <1>1, Numbers
<1>3. Positions(page, limit, n) \subseteq 1 .. n
  <2>1. Start(page, limit) \in Int
    <3>1. \A x \in Int : Wrap(x) \in Int
      <4>1. Half \in Nat /\ Half > 0
        BY PagingAssumption
      <4> QED  BY <4>1 DEF Wrap
    <3>2. Wrap(page - 1) \in Int /\ limit \in Int
      BY <3>1, Numbers
    <3>3. Wrap(page - 1) * limit \in Int
      BY <3>2
    <3> QED  BY <3>1, <3>3 DEF Start
  <2>2. PICK a \in Int : a = Start(page, limit)
    BY <2>1
  <2>3. CASE Empty(page, limit, n)
    BY <2>3 DEF Positions
  <2>4. CASE ~Empty(page, limit, n)
    <3>1. 0 <= a /\ a <= End(page, limit, n)
      BY <1>1, <2>2, <2>4 DEF Panics
    <3>2. End(page, limit, n) <= n
      <4>1. Wrap(a + limit) \in Int
        <5>1. Half \in Nat /\ Half > 0 /\ a + limit \in Int
          BY Numbers, PagingAssumption
        <5> QED  BY <5>1 DEF Wrap
      <4> QED  BY <2>2, <4>1 DEF End, Smaller
    <3>3. Positions(page, limit, n) = a + 1 .. End(page, limit, n)
      BY <2>2, <2>4 DEF Positions
    <3>4. PICK b \in Int : b = End(page, limit, n)
      <4>1. Wrap(a + limit) \in Int
        <5>1. Half \in Nat /\ Half > 0 /\ a + limit \in Int
          BY Numbers, PagingAssumption
        <5> QED  BY <5>1 DEF Wrap
      <4> QED  BY <2>2, <4>1 DEF End, Smaller
    <3> QED  BY <3>1, <3>2, <3>3, <3>4
  <2> QED  BY <2>3, <2>4
<1> QED  BY <1>1, <1>2, <1>3 DEF Page

\* A page of a walk is inside int, and what it holds.
LEMMA PageOfWalk ==
    ASSUME IInv, walking,
           NEW r \in Nat, NEW s \in Nat, r = (page - 1) * limit, s = page * limit
    PROVE  /\ Positions(page, limit, Len(sorted)) =
                 {i \in 1 .. Len(sorted) : r < i /\ i <= s}
           /\ HasNext(page, limit, Len(sorted)) <=> s < Len(sorted)
<1>1. PICK p \in Nat, l \in Nat, n \in Nat :
         p = page /\ l = limit /\ n = Len(sorted) /\ p >= 1 /\ l >= 1
  BY Numbers
<1>2. PICK h \in Nat, m \in Nat, x \in Nat :
         /\ h = Half /\ m = MaxTasks /\ x = MaxLimit /\ m + x < h
         /\ n <= m /\ l <= x /\ r <= m
  <2>1. PICK h \in Nat, m \in Nat, x \in Nat :
           h = Half /\ m = MaxTasks /\ x = MaxLimit /\ m + x < h
    BY Numbers
  <2>2. n <= m
    BY <1>1, <2>1, Numbers
  <2>3. limit \in 1 .. MaxLimit /\ (page - 1) * limit <= MaxTasks
    BY DEF IInv, Walk
  <2>4. l <= x /\ r <= m
    BY <1>1, <2>1, <2>3
  <2> QED  BY <2>1, <2>2, <2>4
<1>3. s = r + l
  <2>1. ASSUME NEW a \in Nat, NEW b \in Nat PROVE (a - 1) * b + b = a * b
    OBVIOUS
  <2> QED  BY <1>1, <2>1
<1>4. Fits(p, l, n)
  <2>1. p * l < h /\ n + l < h
    BY <1>1, <1>2, <1>3
  <2> QED  BY <1>2, <2>1 DEF Fits
<1>5. p \in Positive /\ l \in Positive
  <2>1. p \in Parameter /\ l \in Parameter
    BY <1>1 DEF IInv, TypeOK
  <2> QED  BY <1>1, <2>1 DEF Parameter
<1>6. /\ Positions(p, l, n) = OnPage(p, l, n)
      /\ HasNext(p, l, n) <=> MoreAfter(p, l, n)
  BY <1>4, <1>5, ManagerPages DEF PageIsRight
<1>7. /\ OnPage(p, l, n) = {i \in 1 .. n : r < i /\ i <= s}
      /\ MoreAfter(p, l, n) <=> s < n
  BY <1>1, PageIsInterval
<1> QED  BY <1>1, <1>6, <1>7

\* A page is what comes after the pages before it, and only the last one says
\* that there is none after it.
LEMMA ListsKeeps ==
    ASSUME IInv, GetTasksHandler, Lists
    PROVE  IInv'
<1>0. /\ Called
      /\ UNCHANGED <<sorted, route, key, page, limit, correlated, walking, before>>
  BY DEF GetTasksHandler
<1>1. /\ ~Panics(page, limit, Len(sorted))
      /\ Write(200, 1) /\ at' = "returned" /\ leaked' = leaked
      /\ more' = HasNext(page, limit, Len(sorted))
      /\ seen' = IF walking THEN seen \cup Page ELSE seen
  BY DEF Lists, Answers
<1>2. status' = 200 /\ documents' \in Nat
  <2>1. TypeOK /\ status = 0 /\ 200 \in {200, 201, 204, 400, 401, 403, 405} /\ 1 \in {0, 1}
    BY <1>0, AtHandler
  <2> QED  BY <1>1, <2>1, WriteIs
<1>3. seen' \subseteq 1 .. MaxTasks /\ more' \in BOOLEAN
  <2>1. seen \subseteq 1 .. MaxTasks
    BY DEF IInv, TypeOK
  <2>2. Page \subseteq 1 .. MaxTasks
    BY <1>1, PageIsListed
  <2>3. HasNext(page, limit, Len(sorted)) \in BOOLEAN
    BY DEF HasNext
  <2> QED  BY <1>1, <2>1, <2>2, <2>3
<1>4. TypeOK'
  <2>1. ran' \in Nat /\ status' \in {0, 200, 201, 204, 400, 401, 403, 405, 429, 500}
    <3>1. ran' = 1 /\ status' = 200
      BY <1>0, <1>2, AtHandler
    <3> QED  BY <3>1
  <2> QED  BY <1>0, <1>1, <1>2, <1>3, <2>1 DEF IInv, TypeOK
<1>5. Numbered'
  BY <1>0 DEF IInv, Numbered
<1>6. Stage'
  BY <1>0, <1>1, <1>2, AtHandler DEF Stage
<1>7. CASE ~walking
  <2>1. Walk' /\ SeenWhatItPassed'
    BY <1>0, <1>7 DEF Walk, SeenWhatItPassed
  <2> QED  BY <1>4, <1>5, <1>6, <2>1 DEF IInv
<1>8. CASE walking
  <2>1. PICK n \in Nat, m \in Nat : n = Len(sorted) /\ m = MaxTasks /\ n <= m
    <3>1. PICK n \in Nat, m \in Nat : n = Len(sorted) /\ m = MaxTasks
      BY Numbers
    <3> QED  BY <3>1, Numbers
  <2>2. PICK r \in Nat, s \in Nat : r = (page - 1) * limit /\ s = page * limit
    <3>1. ASSUME NEW a \in Nat, NEW b \in Nat, a >= 1 PROVE (a - 1) * b \in Nat /\ a * b \in Nat
      <4>1. a - 1 \in Nat
        BY <3>1
      <4> QED  BY <4>1
    <3> QED  BY <1>8, <3>1, Numbers
  <2>3. /\ Positions(page, limit, n) = {i \in 1 .. n : r < i /\ i <= s}
        /\ more' <=> s < n
    BY <1>1, <1>8, <2>1, <2>2, PageOfWalk
  <2>4. seen' = seen \cup {sorted[i] : i \in {j \in 1 .. n : r < j /\ j <= s}}
    BY <1>1, <1>8, <2>1, <2>3 DEF Page
  <2>5. PagesRead * limit = r /\ PagesRead' * limit' = s
    <3>1. PagesRead = page - 1
      BY <1>0, AtHandler DEF PagesRead
    <3>2. PagesRead' = page /\ limit' = limit
      BY <1>0, <1>2 DEF PagesRead
    <3> QED  BY <2>2, <3>1, <3>2
  <2>6. ASSUME NEW i \in 1 .. n, sorted[i] \in before, i <= s
        PROVE  sorted[i] \in seen'
    <3>1. CASE i <= r
      <4>1. sorted[i] \in seen
        BY <1>8, <2>1, <2>5, <2>6, <3>1 DEF IInv, SeenWhatItPassed
      <4> QED  BY <2>4, <4>1
    <3>2. CASE ~(i <= r)
      <4>1. i \in {j \in 1 .. n : r < j /\ j <= s}
        BY <2>6, <3>2
      <4> QED  BY <2>4, <4>1
    <3> QED  BY <3>1, <3>2
  <2>7. ASSUME ~more' PROVE before \subseteq seen'
    <3> SUFFICES ASSUME NEW e \in before PROVE e \in seen'
      OBVIOUS
    <3>1. e \in 1 .. n
      BY <1>8, <2>1 DEF IInv, Walk
    <3>2. PICK i \in 1 .. n : sorted[i] = e
      BY <2>1, <3>1 DEF IInv, Numbered
    <3>3. i <= s
      BY <2>3, <2>7
    <3> QED  BY <2>6, <3>2, <3>3
  <2>8. SeenWhatItPassed'
    BY <1>0, <2>1, <2>5, <2>6, <2>7 DEF SeenWhatItPassed
  <2>9. Walk'
    <3>1. /\ route' = "GET /tasks" /\ page' >= 1 /\ limit' \in 1 .. MaxLimit
          /\ before' \subseteq 1 .. Len(sorted')
          /\ (page' - 1) * limit' <= MaxTasks
      BY <1>0, <1>8 DEF IInv, Walk
    <3>2. more' => page' * limit' <= MaxTasks
      <4> SUFFICES ASSUME more' PROVE s <= m
        BY <1>0, <2>1, <2>2
      <4>1. s < n
        BY <2>3
      <4> QED  BY <2>1, <4>1
    <3>3. at' # "idle"
      BY <1>1
    <3> QED  BY <3>1, <3>2, <3>3, Zenon DEF Walk
  <2> QED  BY <1>4, <1>5, <1>6, <2>8, <2>9 DEF IInv
<1> QED  BY <1>7, <1>8

\* GetTasksHandler adds the entries of the page to what the walk has seen.
LEMMA GetTasksHandlerKeeps == IInv /\ GetTasksHandler => IInv'
<1> SUFFICES ASSUME IInv, GetTasksHandler PROVE IInv'
  OBVIOUS
<1>1. /\ Called /\ route \in {"GET /tasks", "GET /tasks/"}
      /\ UNCHANGED <<sorted, route, key, page, limit, correlated, walking, before>>
      /\ \/ Answers(400, 1) /\ UNCHANGED <<leaked, more, seen>>
         \/ Lists \/ PanicsInside
         \/ Hangs /\ UNCHANGED <<leaked, more, seen>>
  BY DEF GetTasksHandler
<1>2. leaked \in BOOLEAN
  BY <1>1, AtHandler
<1>3. CASE Answers(400, 1) /\ UNCHANGED <<leaked, more, seen>>
  <2>1. Write(400, 1) /\ at' = "returned" /\ leaked' \in BOOLEAN /\ UNCHANGED walk
    BY <1>1, <1>2, <1>3 DEF Answers, walk
  <2> QED  BY <1>1, <2>1, AnswerKeeps, ZenonT(30)
<1>4. CASE Lists
  BY <1>4, ListsKeeps
<1>5. CASE PanicsInside
  <2>1. at' = "done" /\ UNCHANGED response /\ leaked' \in BOOLEAN /\ UNCHANGED walk
    BY <1>1, <1>5 DEF PanicsInside, walk
  <2> QED  BY <1>1, <2>1, AnswerKeeps
<1>6. CASE Hangs /\ UNCHANGED <<leaked, more, seen>>
  <2>1. at' = "done" /\ UNCHANGED response /\ leaked' \in BOOLEAN /\ UNCHANGED walk
    BY <1>1, <1>2, <1>6 DEF Hangs, walk
  <2> QED  BY <1>1, <2>1, AnswerKeeps
<1> QED  BY <1>1, <1>3, <1>4, <1>5, <1>6

-----------------------------------------------------------------------------
(* The theorems.                                                           *)

\* The invariant holds in every state of the manager's API.
THEOREM Invariance == Spec => []IInv
<1>1. Init => IInv
  BY InitIInv
<1>2. IInv /\ [Next]_vars => IInv'
  <2> SUFFICES ASSUME IInv, [Next]_vars PROVE IInv'
    OBVIOUS
  <2>1. CASE UNCHANGED vars
    <3>1. UNCHANGED <<sorted, at, route, key, page, limit, status, documents, correlated,
                      ran, leaked, more, walking, before, seen>>
      BY <2>1 DEF vars, request, response, walk
    <3>2. TypeOK' /\ Numbered' /\ Stage'
      BY <3>1 DEF IInv, TypeOK, Numbered, Stage
    <3>3. Walk' /\ SeenWhatItPassed'
      BY <3>1 DEF IInv, Walk, SeenWhatItPassed, PagesRead
    <3> QED  BY <3>2, <3>3 DEF IInv
  <2>2. CASE Next
    BY <2>2, ListGrowsKeeps, AskKeeps, BeginWalkKeeps, NextPageKeeps, FinishKeeps,
       AuthKeeps, RateKeeps, CorrelateKeeps, RateReturnedKeeps, StartTaskHandlerKeeps,
       GetTasksHandlerKeeps, StopTaskHandlerKeeps, MethodNotAllowedKeeps DEF Next
  <2> QED  BY <2>1, <2>2
<1> QED  BY <1>1, <1>2, PTL DEF Spec

\* Every variable keeps its type.
THEOREM TypeCorrect == Spec => []TypeOK
<1>1. IInv => TypeOK
  BY DEF IInv
<1> QED  BY <1>1, Invariance, PTL

\* A middleware's error means that the request was not carried out, and no
\* other status does.
THEOREM StatusesTellTruth == Spec => []StatusTellsTruth
<1>1. IInv => StatusTellsTruth
  BY DEF IInv, Stage, StatusTellsTruth
<1> QED  BY <1>1, Invariance, PTL

\* No request is carried out twice, nor with a key that is not active.
THEOREM NothingIsHandledTwice == Spec => []HandledOnce
<1>1. IInv => HandledOnce
  <2> SUFFICES ASSUME IInv PROVE HandledOnce
    OBVIOUS
  <2>1. ran \in {0, 1}
    BY DEF IInv, Stage, TypeOK
  <2>2. ran <= 1
    BY <2>1
  <2> QED  BY <2>2 DEF IInv, Stage, HandledOnce
<1> QED  BY <1>1, Invariance, PTL

\* A client that follows HasNext from page 1 sees every task that was listed
\* when it began, whatever is inserted meanwhile.
THEOREM WalksSeeAll == Spec => []WalkSeesAll
<1>1. IInv => WalkSeesAll
  BY DEF IInv, SeenWhatItPassed, WalkSeesAll
<1> QED  BY <1>1, Invariance, PTL

\* A page of the manager that a request asks for is its slice of the list, at
\* the length the list has, unless its end is no int.
THEOREM RequestedPagesAreRight == Spec => []PagesAreRight
<1>1. IInv => PagesAreRight
  <2> SUFFICES ASSUME IInv, page \in Positive, limit \in Positive PROVE PagesAreRight
    BY DEF PagesAreRight
  <2>1. Len(sorted) \in Nat
    BY Numbers
  <2>2. PageIsRight(page, limit, Len(sorted))
    BY <2>1, ManagerPages
  <2> QED  BY <2>2 DEF PagesAreRight
<1> QED  BY <1>1, Invariance, PTL

\* The same of the page a worker would cut for these parameters.
THEOREM RequestedWorkerPagesAreRight == Spec => []WorkerPagesAreRight
<1>1. IInv => WorkerPagesAreRight
  <2> SUFFICES ASSUME IInv, page \in Positive, limit \in Positive PROVE WorkerPagesAreRight
    BY DEF WorkerPagesAreRight
  <2>1. Len(sorted) \in Nat
    BY Numbers
  <2>2. WorkerPageIsRight(page, limit, Len(sorted))
    BY <2>1, WorkerPages
  <2> QED  BY <2>2 DEF WorkerPagesAreRight
<1> QED  BY <1>1, Invariance, PTL
=============================================================================
