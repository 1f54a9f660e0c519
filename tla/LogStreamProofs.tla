---------------------------- MODULE LogStreamProofs ----------------------------
(***************************************************************************)
(* Theorems about LogStream, for headers and payloads of any size and any  *)
(* number of frames.  The stream and the text of a payload are recursive   *)
(* functions: the first lemmas show that such a function exists, by        *)
(* induction on a set of numbers.                                          *)
(***************************************************************************)
EXTENDS LogStream, Integers, TLAPS, WellFoundedInduction, SequenceTheorems

-----------------------------------------------------------------------------
(* Recursive functions.                                                    *)

\* A set that has 0 and with each number the next one has all of them.
LEMMA SetInduction ==
    ASSUME NEW S, 0 \in S, \A n \in Nat : n \in S => n + 1 \in S
    PROVE  Nat \subseteq S
<1> DEFINE T == Nat \ S
           R == OpToRel(<, Nat)
<1> SUFFICES ASSUME T # {} PROVE FALSE
  OBVIOUS
<1>1. PICK x \in T : \A y \in T : ~ (<<y, x>> \in R)
  <2>1. IsWellFoundedOn(R, Nat)
    BY NatLessThanWellFounded
  <2> QED  BY <2>1, WFMin
<1>2. x \in Nat /\ x - 1 \in Nat /\ x - 1 < x /\ (x - 1) + 1 = x
  <2>1. x \in Nat /\ x # 0
    OBVIOUS
  <2> HIDE DEF T, R
  <2> QED  BY <2>1
<1>3. x - 1 \notin T
  BY <1>1, <1>2 DEF OpToRel
<1> QED  BY <1>1, <1>2, <1>3

\* A function defined along the numbers up to a bound, a step being a function
\* of the value before and of the number, exists and has values of its type.
Recursion(L, T, b, step) ==
    \E f \in [0 .. L -> T] :
        f[0] = b /\ \A n \in 1 .. L : f[n] = step[<<f[n - 1], n>>]

\* Such a function exists: the stream and the valid part of a payload are
\* functions of this kind.
LEMMA RecursiveFunction ==
    ASSUME NEW L \in Nat, NEW T, NEW b \in T, NEW step \in [T \X Nat -> T]
    PROVE  Recursion(L, T, b, step)
<1> DEFINE Is(f, m) == /\ f \in [0 .. m -> T]
                       /\ f[0] = b
                       /\ \A n \in 1 .. m : f[n] = step[<<f[n - 1], n>>]
           S == {m \in Nat : \E f : Is(f, m)}
<1>1. 0 \in S
  <2>1. Is([n \in 0 .. 0 |-> b], 0)
    OBVIOUS
  <2> QED  BY <2>1
<1>2. ASSUME NEW m \in Nat, m \in S  PROVE m + 1 \in S
  <2>1. PICK f : Is(f, m)
    BY <1>2
  <2> DEFINE g == [n \in 0 .. m + 1 |-> IF n <= m THEN f[n] ELSE step[<<f[m], m + 1>>]]
  <2>2. g \in [0 .. m + 1 -> T]
    BY <2>1
  <2>3. ASSUME NEW n \in 1 .. m + 1
        PROVE  g[n] = step[<<g[n - 1], n>>]
    <3>1. CASE n <= m
      <4>1. n \in 1 .. m /\ n \in 0 .. m /\ n - 1 \in 0 .. m
        BY <3>1
      <4> QED  BY <2>1, <3>1, <4>1
    <3>2. CASE n = m + 1
      <4>1. n \in 0 .. m + 1 /\ n - 1 = m /\ ~(n <= m) /\ m \in 0 .. m + 1
        BY <3>2
      <4>2. g[n] = step[<<f[m], m + 1>>] /\ g[m] = f[m]
        BY <4>1
      <4> QED  BY <3>2, <4>1, <4>2
    <3> QED  BY <3>1, <3>2
  <2>4. g[0] = b
    BY <2>1
  <2> HIDE DEF g
  <2>5. Is(g, m + 1)
    BY <2>2, <2>3, <2>4
  <2> HIDE DEF Is
  <2> QED  BY <2>5
<1> HIDE DEF S
<1>3. L \in S
  BY <1>1, <1>2, SetInduction
<1> QED  BY <1>3 DEF S, Recursion

-----------------------------------------------------------------------------
(* The stream.                                                             *)

\* The frames Docker has, as far as the lemmas need to know them.
Inputs == frames \in Seq(Sizes) /\ Len(frames) <= MaxFrames

\* A frame is its header followed by its payload, all of them bytes.
LEMMA FrameIsBytes ==
    ASSUME Inputs, NEW i \in 1 .. Len(frames)
    PROVE  /\ Frame(i) \in Seq(Bytes)
           /\ Len(Frame(i)) = HeaderLen + frames[i]
           /\ frames[i] \in Nat /\ frames[i] \in Sizes
           /\ \A k \in 1 .. HeaderLen + frames[i] : Frame(i)[k] = <<i, k>>
<1>1. /\ frames[i] \in Sizes /\ frames[i] \in Nat /\ HeaderLen \in Nat
      /\ i \in 1 .. MaxFrames /\ Len(frames) \in Nat
  <2>1. Len(frames) \in Nat /\ frames[i] \in Sizes
    BY ElementOfSeq DEF Inputs
  <2>2. PICK L \in Nat : L = Len(frames)
    BY <2>1
  <2>3. L <= MaxFrames /\ i \in 1 .. L
    BY <2>2 DEF Inputs
  <2>4. i \in 1 .. MaxFrames
    BY <2>3, LogStreamAssumption
  <2> QED  BY <2>1, <2>4, LogStreamAssumption
<1> DEFINE n == HeaderLen + frames[i]
<1>2. n \in Nat
  BY <1>1
<1>3. Frame(i) = [k \in 1 .. n |-> <<i, k>>]
  BY DEF Frame
<1> HIDE DEF n
<1>4. \A k \in 1 .. n : <<i, k>> \in Bytes
  BY <1>1, <1>2 DEF Bytes
<1>5. Frame(i) \in Seq(Bytes) /\ Len(Frame(i)) = n
  BY <1>2, <1>3, <1>4
<1> QED  BY <1>1, <1>3, <1>5 DEF n

\* The stream up to the end of a frame is what the definition says.
LEMMA UptoUnfolds ==
    ASSUME Inputs
    PROVE  /\ Upto[0] = <<>>
           /\ \A n \in 0 .. Len(frames) : Upto[n] \in Seq(Bytes)
           /\ \A n \in 1 .. Len(frames) : Upto[n] = Upto[n - 1] \o Frame(n)
<1>1. PICK L \in Nat : L = Len(frames)
  BY DEF Inputs
<1> DEFINE step == [p \in Seq(Bytes) \X Nat |->
                       IF p[2] \in 1 .. L THEN p[1] \o Frame(p[2]) ELSE p[1]]
           Is(f) == f = [n \in 0 .. L |-> IF n = 0 THEN <<>> ELSE f[n - 1] \o Frame(n)]
<1>2. PICK s \in [Seq(Bytes) \X Nat -> Seq(Bytes)] : s = step
  BY <1>1, FrameIsBytes, ConcatProperties
<1>3. <<>> \in Seq(Bytes)
  OBVIOUS
<1>4. PICK f \in [0 .. L -> Seq(Bytes)] :
         f[0] = <<>> /\ \A n \in 1 .. L : f[n] = s[<<f[n - 1], n>>]
  <2>1. Recursion(L, Seq(Bytes), <<>>, s)
    BY <1>3, RecursiveFunction
  <2> QED  BY <2>1 DEF Recursion
<1>5. ASSUME NEW n \in 0 .. L
      PROVE  f[n] = IF n = 0 THEN <<>> ELSE f[n - 1] \o Frame(n)
  <2>1. CASE n = 0
    BY <1>4, <2>1
  <2>2. CASE n # 0
    <3>1. n \in 1 .. L /\ n \in Nat /\ n - 1 \in 0 .. L
      BY <1>1, <2>2
    <3>2. f[n - 1] \in Seq(Bytes)
      BY <3>1
    <3>3. s[<<f[n - 1], n>>] = f[n - 1] \o Frame(n)
      BY <1>2, <3>1, <3>2
    <3> QED  BY <1>4, <2>2, <3>1, <3>3
  <2> QED  BY <2>1, <2>2
<1>6. Is(f)
  BY <1>4, <1>5
<1>7. Is(Upto)
  BY <1>1, <1>6 DEF Upto
<1>8. \A n \in 0 .. L : Upto[n] = f[n]
  <2> DEFINE S == {n \in Nat : n \in 0 .. L => Upto[n] = f[n]}
  <2>1. 0 \in S
    BY <1>1, <1>6, <1>7
  <2>2. ASSUME NEW n \in Nat, n \in S PROVE n + 1 \in S
    <3> SUFFICES ASSUME n + 1 \in 0 .. L PROVE Upto[n + 1] = f[n + 1]
      OBVIOUS
    <3>1. n \in 0 .. L /\ n + 1 # 0 /\ (n + 1) - 1 = n
      BY <1>1
    <3>2. f[n + 1] = f[n] \o Frame(n + 1)
      BY <1>6, <3>1
    <3>3. Upto[n + 1] = Upto[n] \o Frame(n + 1)
      BY <1>7, <3>1
    <3> QED  BY <2>2, <3>1, <3>2, <3>3
  <2> HIDE DEF S
  <2>3. Nat \subseteq S
    BY <2>1, <2>2, SetInduction
  <2> QED  BY <2>3, <1>1 DEF S
<1>9. Upto[0] = <<>>
  BY <1>1, <1>7
<1>10. \A n \in 0 .. L : Upto[n] \in Seq(Bytes)
  BY <1>4, <1>8
<1>11. \A n \in 1 .. L : Upto[n] = Upto[n - 1] \o Frame(n)
  <2> SUFFICES ASSUME NEW n \in 1 .. L PROVE Upto[n] = Upto[n - 1] \o Frame(n)
    OBVIOUS
  <2>1. n \in 0 .. L /\ n # 0
    BY <1>1
  <2> QED  BY <1>7, <2>1
<1> QED  BY <1>1, <1>9, <1>10, <1>11

\* The same frames make the same stream.
LEMMA SameStream ==
    ASSUME frames' = frames
    PROVE  /\ Upto' = Upto /\ Stream' = Stream
           /\ \A i : (Frame(i))' = Frame(i) /\ (Header(i))' = Header(i)
<1>1. \A i : (Frame(i))' = Frame(i)
  BY DEF Frame
<1>2. \A i : (Header(i))' = Header(i)
  BY DEF Header, Frame
<1>3. Upto' = Upto
  BY DEF Upto, Frame
<1> QED  BY <1>1, <1>2, <1>3 DEF Stream

\* What has arrived up to a frame stays where it is when more arrives.
LEMMA UptoIsPrefix ==
    ASSUME Inputs, NEW n \in 0 .. Len(frames)
    PROVE  \A m \in n .. Len(frames) :
              /\ Len(Upto[n]) <= Len(Upto[m])
              /\ \A i \in 1 .. Len(Upto[n]) : Upto[m][i] = Upto[n][i]
<1>1. PICK L \in Nat : L = Len(frames)
  BY DEF Inputs
<1> DEFINE Holds(m) == /\ Len(Upto[n]) <= Len(Upto[m])
                       /\ \A i \in 1 .. Len(Upto[n]) : Upto[m][i] = Upto[n][i]
           S == {d \in Nat : n + d <= L => Holds(n + d)}
<1>2. n \in Nat /\ n \in 0 .. L
  BY <1>1
<1>3. \A m \in 0 .. L : Upto[m] \in Seq(Bytes) /\ Len(Upto[m]) \in Nat
  BY <1>1, UptoUnfolds
<1>4. 0 \in S
  <2>1. Holds(n)
    BY <1>2, <1>3
  <2> HIDE DEF Holds
  <2>2. n + 0 = n
    BY <1>2
  <2> QED  BY <2>1, <2>2
<1>5. ASSUME NEW d \in Nat, d \in S  PROVE d + 1 \in S
  <2> SUFFICES ASSUME n + (d + 1) <= L PROVE Holds(n + (d + 1))
    BY DEF S
  <2>1. PICK m \in 0 .. L : m = n + d
    BY <1>2
  <2>2. Holds(m)
    BY <1>2, <1>5, <2>1
  <2>3. n + (d + 1) = m + 1 /\ m + 1 \in 1 .. L /\ m + 1 \in 0 .. L /\ (m + 1) - 1 = m
    BY <1>2, <2>1
  <2>4. Upto[m + 1] = Upto[m] \o Frame(m + 1)
    BY <1>1, <2>3, UptoUnfolds
  <2>5. Upto[m] \in Seq(Bytes) /\ Frame(m + 1) \in Seq(Bytes) /\ Upto[n] \in Seq(Bytes)
    BY <1>1, <1>2, <1>3, <2>3, FrameIsBytes
  <2> DEFINE s == Upto[m]
             t == Frame(m + 1)
  <2>6. /\ Len(s \o t) = Len(s) + Len(t) /\ Len(s) \in Nat /\ Len(t) \in Nat
        /\ \A i \in 1 .. Len(s) : (s \o t)[i] = s[i]
    <3> HIDE DEF s, t
    <3>1. s \in Seq(Bytes) /\ t \in Seq(Bytes)
      BY <2>5 DEF s, t
    <3> QED  BY <3>1
  <2>7. PICK a \in Nat : a = Len(Upto[n])
    BY <1>2, <1>3
  <2>8. PICK b \in Nat, c \in Nat : b = Len(s) /\ c = Len(t)
    BY <2>6
  <2>9. a <= b /\ \A i \in 1 .. a : s[i] = Upto[n][i]
    BY <2>2, <2>7, <2>8
  <2>10. a <= b + c /\ \A i \in 1 .. a : i \in 1 .. b
    BY <2>9
  <2>11. Len(s \o t) = b + c /\ \A i \in 1 .. a : (s \o t)[i] = Upto[n][i]
    BY <2>6, <2>8, <2>9, <2>10
  <2>12. Holds(m + 1)
    BY <2>4, <2>7, <2>10, <2>11
  <2> QED  BY <2>3, <2>12
<1> HIDE DEF S
<1>6. Nat \subseteq S
  BY <1>4, <1>5, SetInduction
<1>7. ASSUME NEW m \in n .. L PROVE Holds(m)
  <2>1. m - n \in Nat /\ n + (m - n) = m /\ n + (m - n) <= L
    BY <1>2
  <2>2. m - n \in S
    BY <1>6, <2>1
  <2> HIDE DEF Holds
  <2> QED  BY <2>1, <2>2 DEF S
<1> QED  BY <1>1, <1>7

\* Where a frame is in the stream: after the frames before it, first the
\* header, then the payload.
LEMMA FrameInStream ==
    ASSUME Inputs, NEW k \in 1 .. Len(frames)
    PROVE  /\ Len(Upto[k - 1]) \in Nat /\ frames[k] \in Nat
           /\ Len(Upto[k]) = Len(Upto[k - 1]) + HeaderLen + frames[k]
           /\ SubSeq(Stream, Len(Upto[k - 1]) + 1, Len(Upto[k - 1]) + HeaderLen) = Header(k)
           /\ SubSeq(Stream, Len(Upto[k - 1]) + HeaderLen + 1,
                     Len(Upto[k - 1]) + HeaderLen + frames[k]) = Payload(k)
<1>1. PICK L \in Nat : L = Len(frames)
  BY DEF Inputs
<1>2. k \in 1 .. L /\ k - 1 \in 0 .. L /\ k \in 0 .. L /\ L \in 0 .. L /\ L \in k .. L
  BY <1>1
<1>3. PICK u \in Seq(Bytes), t \in Seq(Bytes), s \in Seq(Bytes) :
         u = Upto[k - 1] /\ t = Frame(k) /\ s = Stream
  BY <1>1, <1>2, UptoUnfolds, FrameIsBytes DEF Stream
<1>4. Upto[k] = u \o t
  BY <1>1, <1>2, <1>3, UptoUnfolds
<1>5. PICK b \in Nat, h \in Nat, n \in Nat :
         b = Len(u) /\ h = HeaderLen /\ n = frames[k]
  <2>1. Len(u) \in Nat /\ HeaderLen \in Nat /\ frames[k] \in Nat
    BY FrameIsBytes, LogStreamAssumption
  <2> QED  BY <2>1
<1>5a. Len(t) = h + n
  BY <1>3, <1>5, FrameIsBytes
<1>6. Len(u \o t) = b + (h + n) /\ \A i \in 1 .. h + n : (u \o t)[b + i] = t[i]
  <2>1. Len(u \o t) = Len(u) + Len(t)
    BY ConcatProperties
  <2>2. ASSUME NEW i \in 1 .. h + n PROVE (u \o t)[b + i] = t[i]
    <3>1. b + i \in 1 .. b + (h + n) /\ ~(b + i <= b) /\ b + i - b = i
      OBVIOUS
    <3>2. b + i \in 1 .. Len(u) + Len(t) /\ ~(b + i <= Len(u))
      BY <1>5, <1>5a, <3>1
    <3> QED  BY <1>5, <3>1, <3>2, ConcatProperties
  <2> QED  BY <1>5, <1>5a, <2>1, <2>2
<1>7. /\ Len(Upto[k]) <= Len(s)
      /\ \A i \in 1 .. Len(Upto[k]) : s[i] = Upto[k][i]
  BY <1>1, <1>2, <1>3, UptoIsPrefix DEF Stream
<1>8. PICK l \in Nat : l = Len(s) /\ b + (h + n) <= l
  BY <1>4, <1>6, <1>7
<1>9. ASSUME NEW i \in 1 .. h + n PROVE s[b + i] = t[i]
  <2>1. b + i \in 1 .. b + (h + n)
    OBVIOUS
  <2> QED  BY <1>4, <1>6, <1>7, <2>1
<1>10. SubSeq(s, b + 1, b + h) = SubSeq(t, 1, h)
  <2>1. \A i \in (b + 1) .. (b + h) : s[i] \in Bytes
    BY <1>8
  <2>2. \A i \in 1 .. h : t[i] \in Bytes
    BY <1>5a
  <2> DEFINE x == SubSeq(s, b + 1, b + h)
             y == SubSeq(t, 1, h)
  <2>3. x \in Seq(Bytes) /\ Len(x) = h /\ \A i \in 1 .. h : x[i] = s[b + i]
    BY <2>1, SubSeqProperties
  <2>4. y \in Seq(Bytes) /\ Len(y) = h /\ \A i \in 1 .. h : y[i] = t[i]
    BY <2>2, SubSeqProperties
  <2> HIDE DEF x, y
  <2>5. \A i \in 1 .. h : x[i] = y[i]
    <3> SUFFICES ASSUME NEW i \in 1 .. h PROVE x[i] = y[i]
      OBVIOUS
    <3>1. i \in 1 .. h + n
      OBVIOUS
    <3> QED  BY <1>9, <2>3, <2>4, <3>1
  <2>6. x = y
    BY <2>3, <2>4, <2>5, SeqEqual
  <2> QED  BY <2>6 DEF x, y
<1>11. SubSeq(s, b + h + 1, b + h + n) = SubSeq(t, h + 1, h + n)
  <2>1. \A i \in (b + h + 1) .. (b + h + n) : s[i] \in Bytes
    BY <1>8
  <2>2. \A i \in (h + 1) .. (h + n) : t[i] \in Bytes
    BY <1>5a
  <2> DEFINE x == SubSeq(s, b + h + 1, b + h + n)
             y == SubSeq(t, h + 1, h + n)
  <2>3. x \in Seq(Bytes) /\ Len(x) = n /\ \A i \in 1 .. n : x[i] = s[b + h + i]
    BY <2>1, SubSeqProperties
  <2>4. y \in Seq(Bytes) /\ Len(y) = n /\ \A i \in 1 .. n : y[i] = t[h + i]
    BY <2>2, SubSeqProperties
  <2> HIDE DEF x, y
  <2>5. \A i \in 1 .. n : x[i] = y[i]
    <3> SUFFICES ASSUME NEW i \in 1 .. n PROVE x[i] = y[i]
      OBVIOUS
    <3>1. h + i \in 1 .. h + n /\ b + (h + i) = b + h + i
      OBVIOUS
    <3> QED  BY <1>9, <2>3, <2>4, <3>1
  <2>6. x = y
    BY <2>3, <2>4, <2>5, SeqEqual
  <2> QED  BY <2>6 DEF x, y
<1>12. b + (h + n) = b + h + n
  OBVIOUS
<1> QED  BY <1>3, <1>4, <1>5, <1>6, <1>10, <1>11, <1>12 DEF Header, Payload

\* No two frames have the same header.
LEMMA HeadersDiffer ==
    ASSUME Inputs, NEW j \in 1 .. Len(frames), NEW k \in 1 .. Len(frames),
           Header(j) = Header(k)
    PROVE  j = k
<1>1. ASSUME NEW i \in 1 .. Len(frames) PROVE Header(i)[1] = <<i, 1>>
  <2>1. PICK h \in Nat : h = HeaderLen /\ 1 <= h
    BY LogStreamAssumption
  <2>2. PICK n \in Nat, f \in Seq(Bytes) :
           /\ n = frames[i] /\ f = Frame(i) /\ Len(f) = h + n
           /\ \A x \in 1 .. h + n : f[x] = <<i, x>>
    BY <2>1, FrameIsBytes
  <2>3. 1 \in 1 .. h + n /\ 1 \in 1 .. h /\ \A x \in 1 .. h : f[x] \in Bytes
    BY <2>1, <2>2
  <2>4. SubSeq(f, 1, h)[1] = f[1]
    BY <2>1, <2>3, SubSeqProperties
  <2> QED  BY <2>1, <2>2, <2>3, <2>4 DEF Header
<1> QED  BY <1>1

\* Headers and payloads are bytes, and a header has its length.
LEMMA PartsAreBytes ==
    ASSUME Inputs, NEW k \in 1 .. Len(frames)
    PROVE  /\ Header(k) \in Seq(Bytes) /\ Len(Header(k)) = HeaderLen
           /\ Payload(k) \in Seq(Bytes)
<1>1. PICK h \in Nat, n \in Nat : h = HeaderLen /\ 1 <= h /\ n = frames[k]
  <2>1. HeaderLen \in Nat /\ 1 <= HeaderLen /\ frames[k] \in Nat
    BY FrameIsBytes, LogStreamAssumption
  <2> QED  BY <2>1
<1>2. PICK t \in Seq(Bytes) : t = Frame(k) /\ Len(t) = h + n
  BY <1>1, FrameIsBytes
<1>3. \A i \in 1 .. h + n : t[i] \in Bytes
  BY <1>2
<1>4. SubSeq(t, 1, h) \in Seq(Bytes) /\ Len(SubSeq(t, 1, h)) = h
  <2>1. \A i \in 1 .. h : t[i] \in Bytes
    BY <1>3
  <2>2. 1 <= h /\ h - 1 + 1 = h
    BY <1>1
  <2> QED  BY <2>1, <2>2, SubSeqProperties
<1>5. SubSeq(t, h + 1, h + n) \in Seq(Bytes)
  <2>1. \A i \in (h + 1) .. (h + n) : t[i] \in Bytes
    BY <1>3
  <2> QED  BY <2>1, SubSeqProperties
<1> QED  BY <1>1, <1>2, <1>4, <1>5 DEF Header, Payload

-----------------------------------------------------------------------------
(* The text of a payload.                                                  *)

\* What is left of a payload is a sequence of its bytes.
LEMMA TextIsBytes ==
    ASSUME NEW bytes \in Seq(Bytes)
    PROVE  ToValidUTF8(bytes) \in Seq(Bytes)
<1>1. PICK L \in Nat : L = Len(bytes)
  OBVIOUS
<1> DEFINE step == [p \in Seq(Bytes) \X Nat |->
                       IF p[2] \in 1 .. L /\ ~Half(bytes[p[2]])
                       THEN Append(p[1], bytes[p[2]]) ELSE p[1]]
           Is(f) == f = [k \in 0 .. Len(bytes) |->
                            IF k = 0 THEN <<>>
                            ELSE IF Half(bytes[k]) THEN f[k - 1]
                            ELSE Append(f[k - 1], bytes[k])]
           valid == CHOOSE f : Is(f)
<1>2. PICK s \in [Seq(Bytes) \X Nat -> Seq(Bytes)] : s = step
  <2>1. ASSUME NEW x \in Seq(Bytes), NEW k \in Nat
        PROVE  (IF k \in 1 .. L /\ ~Half(bytes[k]) THEN Append(x, bytes[k]) ELSE x) \in Seq(Bytes)
    <3>1. CASE k \in 1 .. L
      <4>1. bytes[k] \in Bytes
        BY <1>1, <3>1
      <4>2. Append(x, bytes[k]) \in Seq(Bytes)
        BY <4>1, AppendProperties
      <4> QED  BY <4>2
    <3> QED  BY <3>1
  <2>2. step \in [Seq(Bytes) \X Nat -> Seq(Bytes)]
    BY <2>1
  <2> HIDE DEF step
  <2> QED  BY <2>2
<1>3. <<>> \in Seq(Bytes)
  OBVIOUS
<1>4. PICK f \in [0 .. L -> Seq(Bytes)] :
         f[0] = <<>> /\ \A n \in 1 .. L : f[n] = s[<<f[n - 1], n>>]
  <2>1. Recursion(L, Seq(Bytes), <<>>, s)
    BY <1>3, RecursiveFunction
  <2> QED  BY <2>1 DEF Recursion
<1>5. Is(f)
  <2>1. ASSUME NEW k \in 0 .. L
        PROVE  f[k] = IF k = 0 THEN <<>>
                      ELSE IF Half(bytes[k]) THEN f[k - 1]
                      ELSE Append(f[k - 1], bytes[k])
    <3>1. CASE k = 0
      BY <1>4, <3>1
    <3>2. CASE k # 0
      <4>1. k \in 1 .. L /\ k \in Nat /\ k - 1 \in 0 .. L
        BY <3>2
      <4>2. f[k - 1] \in Seq(Bytes)
        BY <4>1
      <4>3. s[<<f[k - 1], k>>] = IF Half(bytes[k]) THEN f[k - 1] ELSE Append(f[k - 1], bytes[k])
        BY <1>2, <4>1, <4>2
      <4> QED  BY <1>4, <3>2, <4>1, <4>3
    <3> QED  BY <3>1, <3>2
  <2> QED  BY <1>1, <1>4, <2>1
<1>6. Is(valid)
  <2> HIDE DEF Is
  <2> QED  BY <1>5
<1>7. ToValidUTF8(bytes) = valid[Len(bytes)]
  BY DEF ToValidUTF8
<1>8. \A k \in 0 .. L : valid[k] \in Seq(Bytes)
  <2> HIDE DEF valid
  <2> DEFINE S == {k \in Nat : k \in 0 .. L => valid[k] \in Seq(Bytes)}
  <2>1. 0 \in S
    BY <1>1, <1>3, <1>6
  <2>2. ASSUME NEW k \in Nat, k \in S PROVE k + 1 \in S
    <3> SUFFICES ASSUME k + 1 \in 0 .. L PROVE valid[k + 1] \in Seq(Bytes)
      OBVIOUS
    <3>1. k \in 0 .. L /\ k + 1 \in 1 .. L /\ k + 1 # 0 /\ (k + 1) - 1 = k
      OBVIOUS
    <3>2. bytes[k + 1] \in Bytes /\ valid[k] \in Seq(Bytes)
      BY <1>1, <2>2, <3>1
    <3>3. valid[k + 1] = IF Half(bytes[k + 1]) THEN valid[k] ELSE Append(valid[k], bytes[k + 1])
      BY <1>1, <1>6, <3>1
    <3> QED  BY <3>2, <3>3
  <2> HIDE DEF S
  <2>3. Nat \subseteq S
    BY <2>1, <2>2, SetInduction
  <2> QED  BY <2>3 DEF S
<1> HIDE DEF valid
<1> QED  BY <1>1, <1>7, <1>8

\* The same input makes the same payloads.
LEMMA SamePayloads ==
    ASSUME UNCHANGED <<frames, cut>>
    PROVE  Payloads' = Payloads
<1>1. ASSUME NEW i PROVE (Payload(i))' = Payload(i)
  BY DEF Payload, Frame
<1>2. ASSUME NEW b PROVE (Half(b))' = Half(b)
  BY DEF Half
<1>3. ASSUME NEW b PROVE (ToValidUTF8(b))' = ToValidUTF8(b)
  BY DEF ToValidUTF8, Half
<1> QED  BY <1>1, <1>3 DEF Payloads, Payload, Frame, ToValidUTF8, Half

-----------------------------------------------------------------------------
(* The inductive invariant.                                                *)

\* The entries are the first payloads, and the client got the first of them:
\* all, while it is there.
EntriesInOrder ==
    /\ Len(entries) <= Len(frames)
    /\ \A i \in 1 .. Len(entries) : entries[i] = ToValidUTF8(Payload(i))
    /\ Len(received) <= Len(entries)
    /\ \A i \in 1 .. Len(received) : received[i] = entries[i]
    /\ connected => Len(received) = Len(entries)

\* The reader is at the end of the frame whose entry it wrote last or, with
\* the next header in its hands, right after that header.
InStep ==
    /\ at \in {"lookup", "header"} => pos = Len(Upto[Len(entries)])
    /\ at = "payload" => /\ Len(entries) < Len(frames)
                         /\ pos = Len(Upto[Len(entries)]) + HeaderLen
                         /\ header = Header(Len(entries) + 1)

\* The handler is done when ProcessDockerStream has returned.
ReturnedIsDone == result # "none" => at = "done"

IInv == TypeOK /\ Inputs /\ EntriesInOrder /\ InStep /\ ReturnedIsDone /\ EndIsNoticed

\* It holds at first.
LEMMA InitIInv == Init => IInv
<1> SUFFICES ASSUME Init PROVE IInv
  OBVIOUS
<1>1. PICK n \in 0 .. MaxFrames : frames \in [1 .. n -> Sizes]
  BY DEF Init, BoundedSeq, SeqOf
<1>2. n \in Nat /\ n <= MaxFrames
  BY <1>1, LogStreamAssumption
<1>3. frames \in Seq(Sizes) /\ Len(frames) = n
  BY <1>1, <1>2
<1>4. Inputs
  BY <1>2, <1>3 DEF Inputs
<1>5. Upto[0] = <<>> /\ Stream \in Seq(Bytes)
  <2>1. Len(frames) \in 0 .. Len(frames)
    BY <1>2, <1>3
  <2> QED  BY <1>4, <2>1, UptoUnfolds DEF Stream
<1>6. TypeOK
  <2>1. PICK l \in Nat : l = Len(Stream)
    BY <1>5
  <2>2. arrives \in 0 .. l
    BY <2>1 DEF Init
  <2>3. 0 \in 0 .. arrives
    BY <2>2
  <2>4. <<>> \in Seq(Bytes) /\ <<>> \in Seq(Seq(Bytes))
    OBVIOUS
  <2> QED  BY <1>3, <2>3, <2>4 DEF Init, TypeOK
<1>7. EntriesInOrder
  <2>1. Len(entries) = 0 /\ Len(received) = 0
    BY DEF Init
  <2>2. 0 <= Len(frames)
    BY <1>2, <1>3
  <2> QED  BY <2>1, <2>2 DEF EntriesInOrder
<1>8. InStep
  BY <1>5 DEF Init, InStep
<1>9. ReturnedIsDone /\ EndIsNoticed
  BY DEF Init, ReturnedIsDone, EndIsNoticed
<1> QED  BY <1>4, <1>6, <1>7, <1>8, <1>9 DEF IInv

\* What a step that leaves the input alone need not show again.
LEMMA InputKept ==
    ASSUME IInv, UNCHANGED input
    PROVE  /\ frames' = frames /\ cut' = cut /\ arrives' = arrives /\ ending' = ending
           /\ Inputs' /\ (task \in {"noId", "unknown", "noContainer", "refused", "noFlusher", "hasLogs"})'
           /\ frames' \in Seq(Sizes) /\ cut' \subseteq Cuttable'
           /\ arrives' \in 0 .. Len(Stream') /\ ending' \in {"inOrder", "broken"}
           /\ Boundaries' = Boundaries /\ Upto' = Upto
           /\ \A i : (Header(i))' = Header(i)
<1>1. frames' = frames /\ cut' = cut /\ arrives' = arrives /\ ending' = ending /\ task' = task
  BY DEF input
<1>2. Stream' = Stream /\ Upto' = Upto /\ \A i : (Header(i))' = Header(i)
  BY <1>1, SameStream
<1>3. Boundaries' = Boundaries
  BY <1>1, <1>2 DEF Boundaries
<1>4. Cuttable' = Cuttable
  BY <1>1 DEF Cuttable
<1>5. /\ task \in {"noId", "unknown", "noContainer", "refused", "noFlusher", "hasLogs"}
      /\ frames \in Seq(Sizes) /\ cut \subseteq Cuttable
      /\ arrives \in 0 .. Len(Stream) /\ ending \in {"inOrder", "broken"}
  BY DEF IInv, TypeOK
<1>6. Inputs'
  BY <1>1 DEF IInv, Inputs
<1>7. arrives' \in 0 .. Len(Stream')
  BY <1>1, <1>2, <1>5
<1> QED  BY <1>1, <1>2, <1>3, <1>4, <1>5, <1>6, <1>7

\* A step that adds no entry keeps the entries in order, also when the client
\* leaves.
LEMMA EntriesKept ==
    ASSUME EntriesInOrder, UNCHANGED input, UNCHANGED <<entries, received>>,
           connected' => connected
    PROVE  EntriesInOrder'
<1>1. \A i : (ToValidUTF8(Payload(i)))' = ToValidUTF8(Payload(i))
  <2>1. frames' = frames /\ cut' = cut
    BY DEF input
  <2> QED  BY <2>1 DEF Payload, Frame, ToValidUTF8, Half
<1> QED  BY <1>1 DEF EntriesInOrder, input

\* The numbers of the state.
LEMMA Numbers ==
    ASSUME IInv
    PROVE  /\ Len(entries) \in Nat /\ Len(received) \in Nat
           /\ Len(frames) \in Nat /\ DOMAIN frames = 1 .. Len(frames)
           /\ Len(Stream) \in Nat /\ arrives \in Nat /\ arrives <= Len(Stream)
           /\ pos \in Nat /\ pos <= arrives
           /\ HeaderLen \in Nat /\ 1 <= HeaderLen
<1>1. Len(frames) \in Nat /\ DOMAIN frames = 1 .. Len(frames) /\ Inputs
  BY DEF IInv, Inputs
<1>2. Len(entries) \in Nat /\ Len(received) \in Nat
  <2>1. entries \in Seq(Seq(Bytes)) /\ received \in Seq(Seq(Bytes))
    BY DEF IInv, TypeOK
  <2> QED  BY <2>1
<1>3. Len(Stream) \in Nat
  <2>1. Stream \in Seq(Bytes)
    BY <1>1, UptoUnfolds DEF Stream
  <2> QED  BY <2>1
<1>4. arrives \in 0 .. Len(Stream) /\ pos \in 0 .. arrives
  BY DEF IInv, TypeOK
<1>5. PICK l \in Nat : l = Len(Stream)
  BY <1>3
<1>6. arrives \in Nat /\ arrives <= l
  BY <1>4, <1>5
<1>7. PICK a \in Nat : a = arrives
  BY <1>6
<1>8. pos \in Nat /\ pos <= a
  BY <1>4, <1>7
<1> QED  BY <1>1, <1>2, <1>3, <1>5, <1>6, <1>7, <1>8, LogStreamAssumption

\* Where the reader is when it is in step: there is no room for a header after
\* the last frame.
LEMMA AtHeader ==
    ASSUME IInv, at = "header"
    PROVE  /\ Len(entries) \in 0 .. Len(frames) /\ pos \in Nat
           /\ pos = Len(Upto[Len(entries)]) /\ pos \in Boundaries
           /\ Arrives(HeaderLen) => Len(entries) + 1 \in 1 .. Len(frames)
<1>1. PICK k \in Nat, L \in Nat : k = Len(entries) /\ L = Len(frames) /\ k <= L
  BY Numbers DEF IInv, EntriesInOrder
<1>2. pos = Len(Upto[k]) /\ pos \in Nat
  BY <1>1, Numbers DEF IInv, InStep
<1>3. pos \in Boundaries
  BY <1>1, <1>2 DEF Boundaries
<1>4. ASSUME Arrives(HeaderLen), k = L PROVE FALSE
  <2>1. PICK p \in Nat, h \in Nat, a \in Nat, l \in Nat :
           p = pos /\ h = HeaderLen /\ a = arrives /\ l = Len(Stream)
    BY Numbers
  <2>2. p = l
    BY <1>1, <1>2, <1>4, <2>1 DEF Stream
  <2>3. a <= l /\ 1 <= h /\ p + h <= a
    BY <1>4, <2>1, Numbers DEF Arrives
  <2> QED  BY <2>2, <2>3
<1> QED  BY <1>1, <1>2, <1>3, <1>4

\* When ReadFull waits for a payload, the header it read is that of the next
\* frame, so the size it reads is that payload's.
LEMMA AtPayload ==
    ASSUME IInv, at = "payload"
    PROVE  /\ Len(entries) \in Nat /\ Len(entries) + 1 \in 1 .. Len(frames)
           /\ pos \in Nat /\ Len(Upto[Len(entries)]) \in Nat
           /\ pos = Len(Upto[Len(entries)]) + HeaderLen
           /\ pos \in {b + HeaderLen : b \in Boundaries}
           /\ PayloadSize = {frames[Len(entries) + 1]}
<1>1. PICK k \in Nat, L \in Nat : k = Len(entries) /\ L = Len(frames) /\ k < L
  BY Numbers DEF IInv, InStep
<1>2. k + 1 \in 1 .. L /\ k \in 0 .. L
  BY <1>1
<1>3. pos \in Nat /\ Len(Upto[k]) \in Nat
  <2>1. Inputs /\ k \in 0 .. Len(frames)
    BY <1>1, <1>2 DEF IInv
  <2>2. Upto[k] \in Seq(Bytes)
    BY <2>1, UptoUnfolds
  <2> QED  BY <2>2, Numbers
<1>4. pos = Len(Upto[k]) + HeaderLen /\ header = Header(k + 1)
  BY <1>1 DEF IInv, InStep
<1>5. Len(Upto[k]) \in Boundaries
  BY <1>1, <1>2 DEF Boundaries
<1>6. DOMAIN frames = 1 .. L
  BY <1>1, Numbers
<1>7. {j \in DOMAIN frames : header = Header(j)} = {k + 1}
  BY <1>1, <1>2, <1>4, <1>6, HeadersDiffer DEF IInv
<1>8. PayloadSize = {frames[k + 1]}
  BY <1>2, <1>4, <1>6, <1>7 DEF PayloadSize
<1> QED  BY <1>1, <1>2, <1>3, <1>4, <1>5, <1>8

\* Where the stream is and what was read of it keep their types.
LEMMA PlaceKept ==
    ASSUME IInv, UNCHANGED <<input, pos, header, entries, received>>
    PROVE  /\ pos' \in 0 .. arrives' /\ header' \in Seq(Bytes)
           /\ entries' \in Seq(Seq(Bytes)) /\ received' \in Seq(Seq(Bytes))
           /\ at = "payload" => Len(header') = HeaderLen
<1>1. /\ pos \in 0 .. arrives /\ header \in Seq(Bytes)
      /\ entries \in Seq(Seq(Bytes)) /\ received \in Seq(Seq(Bytes))
      /\ at = "payload" => Len(header) = HeaderLen
  BY DEF IInv, TypeOK
<1>2. arrives' = arrives
  BY DEF input
<1> QED  BY <1>1, <1>2

\* A step that reads nothing keeps what concerns the entries and the place in
\* the stream; what it must still show is that the handler is where it may be.
LEMMA NothingRead ==
    ASSUME IInv, UNCHANGED <<input, pos, header, entries, received>>,
           connected' \in BOOLEAN, connected' => connected,
           at' \in {"lookup", "header", "payload", "done"},
           result' \in {"none", "nil", "error"},
           status' \in {0, 200, 400, 404, 409, 500},
           at' = "payload" => at = "payload",
           at' \in {"lookup", "header"} => at \in {"lookup", "header"},
           ReturnedIsDone', EndIsNoticed'
    PROVE  IInv'
<1>1. TypeOK'
  <2>1. /\ pos' \in 0 .. arrives' /\ header' \in Seq(Bytes)
        /\ entries' \in Seq(Seq(Bytes)) /\ received' \in Seq(Seq(Bytes))
        /\ at = "payload" => Len(header') = HeaderLen
    BY PlaceKept
  <2>2. /\ task' \in {"noId", "unknown", "noContainer", "refused", "noFlusher", "hasLogs"}
        /\ frames' \in Seq(Sizes) /\ cut' \subseteq Cuttable'
        /\ arrives' \in 0 .. Len(Stream') /\ ending' \in {"inOrder", "broken"}
    BY InputKept
  <2> QED  BY <2>1, <2>2 DEF TypeOK
<1>2. EntriesInOrder'
  BY EntriesKept DEF IInv
<1>3. InStep'
  <2>1. frames' = frames /\ Upto' = Upto /\ Header(Len(entries) + 1)' = Header(Len(entries) + 1)
    BY InputKept
  <2>2. at' = "payload" => at = "payload"
    OBVIOUS
  <2>3. at' \in {"lookup", "header"} => at \in {"lookup", "header"}
    OBVIOUS
  <2> QED  BY <2>1, <2>2, <2>3 DEF IInv, InStep
<1> QED  BY <1>1, <1>2, <1>3, InputKept DEF IInv

\* GetDockerTaskLogsHandler's checks leave the reader before the first frame.
LEMMA LookupKeeps == IInv /\ Lookup => IInv'
<1> SUFFICES ASSUME IInv, Lookup PROVE IInv'
  OBVIOUS
<1>1. /\ UNCHANGED <<input, pos, header, entries, result, connected, received>>
      /\ at = "lookup" /\ at' \in {"header", "done"}
      /\ status' \in {0, 200, 400, 404, 409, 500}
  <2>1. /\ UNCHANGED <<input, pos, header, entries, result, connected, received>>
        /\ at = "lookup"
    BY DEF Lookup
  <2>2. /\ at' \in {"header", "done"}
        /\ status' \in {0, 200, 400, 404, 409, 500}
    <3>1. \/ Refuse(400) \/ Refuse(404) \/ Refuse(409) \/ Refuse(500)
          \/ status' = 200 /\ at' = "header"
      BY DEF Lookup
    <3> QED  BY <3>1 DEF Refuse
  <2> QED  BY <2>1, <2>2
<1>2. result = "none"
  BY <1>1 DEF IInv, ReturnedIsDone
<1>3. ReturnedIsDone' /\ EndIsNoticed'
  BY <1>1, <1>2 DEF ReturnedIsDone, EndIsNoticed
<1>4. connected \in BOOLEAN /\ result \in {"none", "nil", "error"}
  BY DEF IInv, TypeOK
<1> QED  BY <1>1, <1>3, <1>4, NothingRead

\* A client that leaves gets no more payloads; ProcessDockerStream goes on.
LEMMA ClientLeavesKeeps == IInv /\ ClientLeaves => IInv'
<1> SUFFICES ASSUME IInv, ClientLeaves PROVE IInv'
  OBVIOUS
<1>1. /\ UNCHANGED <<input, at, pos, header, entries, result, status, received>>
      /\ connected' = FALSE /\ connected
  BY DEF ClientLeaves
<1>2. ReturnedIsDone'
  BY <1>1 DEF IInv, ReturnedIsDone
<1>3. EndIsNoticed'
  BY <1>1, InputKept DEF IInv, EndIsNoticed
<1>4. /\ at \in {"lookup", "header", "payload", "done"}
      /\ result \in {"none", "nil", "error"}
      /\ status \in {0, 200, 400, 404, 409, 500}
  BY DEF IInv, TypeOK
<1>5. connected' \in BOOLEAN /\ (connected' => connected)
  BY <1>1
<1> QED  BY <1>1, <1>2, <1>3, <1>4, <1>5, NothingRead

\* Where no header follows, io.EOF means that the stream was read to its end.
LEMMA HeaderEndsKeeps == IInv /\ HeaderEnds => IInv'
<1> SUFFICES ASSUME IInv, HeaderEnds PROVE IInv'
  OBVIOUS
<1>1. /\ UNCHANGED <<input, pos, header, entries, status, connected, received>>
      /\ at = "header" /\ at' = "done" /\ result' \in {"nil", "error"}
      /\ result' = "nil" => NothingLeft
  BY DEF HeaderEnds, Return
<1>2. EndIsNoticed'
  BY <1>1, InputKept, AtHeader DEF EndIsNoticed, NothingLeft
<1>3. ReturnedIsDone'
  BY <1>1 DEF ReturnedIsDone
<1>4. connected \in BOOLEAN /\ status \in {0, 200, 400, 404, 409, 500}
  BY DEF IInv, TypeOK
<1> QED  BY <1>1, <1>2, <1>3, <1>4, NothingRead

\* A payload that does not arrive ends the stream, with an error or after a
\* header without one.
LEMMA PayloadEndsKeeps == IInv /\ PayloadEnds => IInv'
<1> SUFFICES ASSUME IInv, PayloadEnds PROVE IInv'
  OBVIOUS
<1>1. /\ UNCHANGED <<input, pos, header, entries, status, connected, received>>
      /\ at = "payload" /\ at' = "done" /\ result' \in {"nil", "error"}
      /\ result' = "nil" => NothingLeft
  BY DEF PayloadEnds, Return
<1>2. EndIsNoticed'
  BY <1>1, InputKept, AtPayload DEF EndIsNoticed, NothingLeft
<1>3. ReturnedIsDone'
  BY <1>1 DEF ReturnedIsDone
<1>4. connected \in BOOLEAN /\ status \in {0, 200, 400, 404, 409, 500}
  BY DEF IInv, TypeOK
<1> QED  BY <1>1, <1>2, <1>3, <1>4, NothingRead

\* ReadFull of a header moves from the end of a frame to its payload.
LEMMA ReadHeaderKeeps == IInv /\ ReadHeader => IInv'
<1> SUFFICES ASSUME IInv, ReadHeader PROVE IInv'
  OBVIOUS
<1>1. /\ UNCHANGED <<input, entries, result, status, connected, received>>
      /\ at = "header" /\ at' = "payload" /\ Arrives(HeaderLen)
      /\ pos' = pos + HeaderLen
      /\ header' = SubSeq(Stream, pos + 1, pos + HeaderLen)
  BY DEF ReadHeader
<1>2. PICK k \in Nat : k = Len(entries)
  BY Numbers
<1>3. /\ k + 1 \in 1 .. Len(frames) /\ (k + 1) - 1 = k
      /\ pos = Len(Upto[k]) /\ Inputs
  BY <1>1, <1>2, AtHeader DEF IInv
<1>4. header' = Header(k + 1)
  BY <1>1, <1>3, FrameInStream
<1>5. k < Len(frames)
  <2>1. PICK L \in Nat : L = Len(frames)
    BY Numbers
  <2> QED  BY <1>3, <2>1
<1>6. InStep'
  BY <1>1, <1>2, <1>3, <1>4, <1>5, InputKept DEF InStep
<1>7. pos' \in 0 .. arrives'
  <2>1. PICK p \in Nat, h \in Nat, a \in Nat : p = pos /\ h = HeaderLen /\ a = arrives
    BY Numbers
  <2>2. p + h \in 0 .. a
    BY <1>1, <2>1 DEF Arrives
  <2> QED  BY <1>1, <2>1, <2>2, InputKept
<1>8. TypeOK'
  <2>1. header' \in Seq(Bytes) /\ Len(header') = HeaderLen
    BY <1>3, <1>4, PartsAreBytes
  <2>2. /\ entries \in Seq(Seq(Bytes)) /\ received \in Seq(Seq(Bytes))
        /\ result \in {"none", "nil", "error"} /\ connected \in BOOLEAN
        /\ status \in {0, 200, 400, 404, 409, 500}
    BY DEF IInv, TypeOK
  <2> QED  BY <1>1, <1>7, <2>1, <2>2, InputKept DEF TypeOK
<1>9. EntriesInOrder'
  BY <1>1, EntriesKept DEF IInv
<1>10. result = "none"
  BY <1>1 DEF IInv, ReturnedIsDone
<1>11. ReturnedIsDone' /\ EndIsNoticed'
  BY <1>1, <1>10 DEF ReturnedIsDone, EndIsNoticed
<1> QED  BY <1>1, <1>6, <1>8, <1>9, <1>11, InputKept DEF IInv

\* ReadFull of a payload moves to the end of the frame, and the entry is the
\* payload without the bytes ToValidUTF8 drops.
LEMMA ReadPayloadKeeps == IInv /\ ReadPayload => IInv'
<1> SUFFICES ASSUME IInv, ReadPayload PROVE IInv'
  OBVIOUS
<1>1. PICK k \in Nat, b \in Nat :
         k = Len(entries) /\ b = Len(Upto[k]) /\ at = "payload" /\ Inputs
  <2>1. at = "payload"
    BY DEF ReadPayload
  <2> QED  BY <2>1, AtPayload DEF IInv
<1>2. k + 1 \in 1 .. Len(frames) /\ (k + 1) - 1 = k /\ pos = b + HeaderLen
  BY <1>1, AtPayload
<1>3. PICK n \in Nat : n = frames[k + 1]
  BY <1>1, <1>2, FrameInStream
<1>4. /\ UNCHANGED <<input, header, result, status, connected>>
      /\ Arrives(n) /\ pos' = pos + n /\ at' = "header"
      /\ entries' = Append(entries, ToValidUTF8(SubSeq(Stream, pos + 1, pos + n)))
      /\ received' = IF connected THEN Append(received, Last(entries')) ELSE received
  <2>1. PayloadSize = {n}
    BY <1>1, <1>3, AtPayload
  <2> QED  BY <2>1 DEF ReadPayload
<1>5. PICK e \in Seq(Bytes) :
         e = ToValidUTF8(Payload(k + 1)) /\ entries' = Append(entries, e)
  <2>1. PICK h \in Nat : h = HeaderLen
    BY Numbers
  <2>2. pos + 1 = b + HeaderLen + 1 /\ pos + n = b + HeaderLen + frames[k + 1]
    BY <1>2, <1>3, <2>1
  <2>3. SubSeq(Stream, b + HeaderLen + 1, b + HeaderLen + frames[k + 1]) = Payload(k + 1)
    BY <1>1, <1>2, FrameInStream
  <2>4. SubSeq(Stream, pos + 1, pos + n) = Payload(k + 1)
    BY <2>2, <2>3
  <2>5. ToValidUTF8(Payload(k + 1)) \in Seq(Bytes)
    BY <1>1, <1>2, PartsAreBytes, TextIsBytes
  <2> QED  BY <1>4, <2>4, <2>5
<1>6. /\ entries \in Seq(Seq(Bytes)) /\ received \in Seq(Seq(Bytes))
      /\ connected \in BOOLEAN
  BY DEF IInv, TypeOK
<1>7. /\ entries' \in Seq(Seq(Bytes)) /\ Len(entries') = k + 1
      /\ \A i \in 1 .. k : entries'[i] = entries[i]
      /\ entries'[k + 1] = e
  BY <1>1, <1>5, <1>6, AppendProperties
<1>8. PICK l \in Nat : l = Len(frames) /\ k + 1 <= l
  <2>1. PICK l \in Nat : l = Len(frames)
    BY Numbers
  <2> QED  BY <1>2, <2>1
<1>9. EntriesInOrder'
  <2>1. ASSUME NEW i \in 1 .. k + 1
        PROVE  entries'[i] = ToValidUTF8(Payload(i))
    <3>1. CASE i = k + 1
      BY <1>5, <1>7, <3>1
    <3>2. CASE i \in 1 .. k
      BY <1>1, <1>7, <3>2 DEF IInv, EntriesInOrder
    <3> QED  BY <3>1, <3>2
  <2>2. \A i : (ToValidUTF8(Payload(i)))' = ToValidUTF8(Payload(i))
    <3>1. frames' = frames /\ cut' = cut
      BY <1>4, InputKept
    <3> QED  BY <3>1 DEF Payload, Frame, ToValidUTF8, Half
  <2>3. Len(entries') <= Len(frames')
    BY <1>4, <1>7, <1>8, InputKept
  <2>4. PICK r \in Nat : r = Len(received) /\ r <= k
    BY <1>1, Numbers DEF IInv, EntriesInOrder
  <2>5. \A i \in 1 .. r : i \in 1 .. k /\ received[i] = entries'[i]
    <3> SUFFICES ASSUME NEW i \in 1 .. r PROVE i \in 1 .. k /\ received[i] = entries'[i]
      OBVIOUS
    <3>1. i \in 1 .. k
      BY <2>4
    <3> QED  BY <1>7, <2>4, <3>1 DEF IInv, EntriesInOrder
  <2>6. /\ Len(received') <= Len(entries')
        /\ \A i \in 1 .. Len(received') : received'[i] = entries'[i]
        /\ connected' => Len(received') = Len(entries')
    <3>1. CASE connected
      <4>1. r = k
        BY <1>1, <2>4, <3>1 DEF IInv, EntriesInOrder
      <4>2. received' = Append(received, e)
        BY <1>4, <1>7, <3>1 DEF Last
      <4>3. /\ Len(received') = k + 1 /\ received'[k + 1] = e
            /\ \A i \in 1 .. k : received'[i] = received[i]
        <5>1. PICK s \in Seq(Seq(Bytes)) : s = received /\ Len(s) = k
          BY <1>6, <2>4, <4>1
        <5>2. /\ Len(Append(s, e)) = k + 1 /\ Append(s, e)[k + 1] = e
              /\ \A i \in 1 .. k : Append(s, e)[i] = s[i]
          BY <5>1, AppendProperties
        <5> QED  BY <4>2, <5>1, <5>2
      <4> QED  BY <1>7, <2>5, <4>1, <4>3
    <3>2. CASE ~connected
      <4>1. received' = received /\ ~connected'
        BY <1>4, <3>2
      <4>2. r <= k + 1
        BY <2>4
      <4> QED  BY <1>7, <2>4, <2>5, <4>1, <4>2
    <3> QED  BY <3>1, <3>2
  <2> QED  BY <1>7, <2>1, <2>2, <2>3, <2>6 DEF EntriesInOrder
<1>10. pos' = Len(Upto[k + 1]) /\ pos' \in 0 .. arrives'
  <2>1. PICK p \in Nat, h \in Nat, a \in Nat : p = pos /\ h = HeaderLen /\ a = arrives
    BY Numbers
  <2>2. p + n \in 0 .. a
    BY <1>4, <2>1 DEF Arrives
  <2>3. Len(Upto[k + 1]) = b + h + n
    BY <1>1, <1>2, <1>3, <2>1, FrameInStream
  <2> QED  BY <1>2, <1>4, <2>1, <2>2, <2>3, InputKept
<1>11. InStep'
  BY <1>4, <1>7, <1>10, InputKept DEF InStep
<1>12. TypeOK'
  <2>1. received' \in Seq(Seq(Bytes))
    <3>1. Append(received, e) \in Seq(Seq(Bytes))
      BY <1>6
    <3> QED  BY <1>4, <1>6, <1>7, <3>1 DEF Last
  <2>2. /\ header \in Seq(Bytes) /\ connected \in BOOLEAN
        /\ result \in {"none", "nil", "error"} /\ status \in {0, 200, 400, 404, 409, 500}
    BY DEF IInv, TypeOK
  <2> QED  BY <1>4, <1>7, <1>10, <2>1, <2>2, InputKept DEF TypeOK
<1>13. result = "none"
  BY <1>1 DEF IInv, ReturnedIsDone
<1>14. ReturnedIsDone' /\ EndIsNoticed'
  BY <1>4, <1>13 DEF ReturnedIsDone, EndIsNoticed
<1> QED  BY <1>4, <1>9, <1>11, <1>12, <1>14, InputKept DEF IInv

-----------------------------------------------------------------------------
(* The theorems.                                                           *)

\* The invariant holds in every state of the handler.
THEOREM Invariance == Spec => []IInv
<1>1. Init => IInv
  BY InitIInv
<1>2. IInv /\ [Next]_vars => IInv'
  <2> SUFFICES ASSUME IInv, [Next]_vars PROVE IInv'
    OBVIOUS
  <2>1. CASE UNCHANGED vars
    <3>1. UNCHANGED <<input, at, pos, header, entries, result, status, connected, received>>
      BY <2>1 DEF vars
    <3>2. ReturnedIsDone'
      BY <3>1 DEF IInv, ReturnedIsDone
    <3>3. EndIsNoticed'
      BY <3>1, InputKept DEF IInv, EndIsNoticed
    <3>4. /\ at \in {"lookup", "header", "payload", "done"}
          /\ result \in {"none", "nil", "error"}
          /\ status \in {0, 200, 400, 404, 409, 500}
          /\ connected \in BOOLEAN
      BY DEF IInv, TypeOK
    <3> QED  BY <3>1, <3>2, <3>3, <3>4, NothingRead
  <2>2. CASE Next
    BY <2>2, LookupKeeps, ReadHeaderKeeps, HeaderEndsKeeps, ReadPayloadKeeps,
       PayloadEndsKeeps, ClientLeavesKeeps DEF Next, HandlerStep
  <2> QED  BY <2>1, <2>2
<1> QED  BY <1>1, <1>2, PTL DEF Spec

\* Every variable keeps its type.
THEOREM TypeCorrect == Spec => []TypeOK
<1>1. IInv => TypeOK
  BY DEF IInv
<1> QED  BY <1>1, Invariance, PTL

\* ProcessDockerStream gives streamLog the first payloads of the container, in
\* order, whatever their sizes and wherever the stream ends, and the client
\* gets the first of those.
THEOREM PayloadsInOrder == Spec => []EntriesAreFrames
<1>1. IInv => EntriesAreFrames
  <2> SUFFICES ASSUME IInv PROVE EntriesAreFrames
    OBVIOUS
  <2>1. PICK k \in Nat, r \in Nat, l \in Nat :
           /\ k = Len(entries) /\ r = Len(received) /\ l = Len(frames)
           /\ k <= l /\ r <= k
    BY Numbers DEF IInv, EntriesInOrder
  <2>2. \A i \in 1 .. l : Payloads[i] = ToValidUTF8(Payload(i))
    BY <2>1, Numbers DEF Payloads
  <2>3. Payloads \in Seq(Seq(Bytes)) /\ Len(Payloads) = l
    <3>1. \A i \in 1 .. l : ToValidUTF8(Payload(i)) \in Seq(Bytes)
      BY <2>1, PartsAreBytes, TextIsBytes DEF IInv
    <3>2. Payloads = [i \in 1 .. l |-> ToValidUTF8(Payload(i))]
      BY <2>1, Numbers DEF Payloads
    <3> QED  BY <3>1, <3>2
  <2>4. /\ \A i \in 1 .. k : entries[i] = Payloads[i]
        /\ \A i \in 1 .. r : received[i] = entries[i]
    BY <2>1, <2>2 DEF IInv, EntriesInOrder
  <2>5. entries \in Seq(Seq(Bytes)) /\ received \in Seq(Seq(Bytes))
    BY DEF IInv, TypeOK
  <2>6. SubSeq(entries, 1, k) = SubSeq(Payloads, 1, k)
    BY <2>1, <2>3, <2>4, <2>5
  <2>7. SubSeq(received, 1, r) = SubSeq(entries, 1, r)
    BY <2>1, <2>4, <2>5
  <2> QED  BY <2>1, <2>3, <2>6, <2>7 DEF EntriesAreFrames, IsPrefix
<1> QED  BY <1>1, Invariance, PTL

\* When ProcessDockerStream returns nil the stream was read to an end in order,
\* between two frames or right after a header.
THEOREM NilMeansTheEnd == Spec => []EndIsNoticed
<1>1. IInv => EndIsNoticed
  BY DEF IInv
<1> QED  BY <1>1, Invariance, PTL
=============================================================================
