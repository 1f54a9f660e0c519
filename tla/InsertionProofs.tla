--------------------------- MODULE InsertionProofs ---------------------------
(***************************************************************************)
(* What InsertSorted's append, copy and assignment do to a list, wherever  *)
(* the entry goes: used for the manager's SortedTasks and for the pages    *)
(* that are cut from it.                                                   *)
(***************************************************************************)
EXTENDS Integers, Sequences, SequencesExt, SequenceTheorems, TLAPS

\* r is s with e put at position i.
IsInsertion(r, s, i, e) ==
    /\ Len(r) = Len(s) + 1
    /\ \A j \in 1 .. i - 1 : r[j] = s[j]
    /\ r[i] = e
    /\ \A j \in i + 1 .. Len(s) + 1 : r[j] = s[j - 1]

\* What InsertAt returns: InsertSorted's append, copy and assignment.
LEMMA InsertAtIs ==
    ASSUME NEW S, NEW s \in Seq(S), NEW e \in S, NEW i \in 1 .. Len(s) + 1
    PROVE  /\ InsertAt(s, i, e) \in Seq(S)
           /\ IsInsertion(InsertAt(s, i, e), s, i, e)
<1> DEFINE a == SubSeq(s, 1, i - 1)
           b == SubSeq(s, i, Len(s))
           ae == a \o <<e>>
<1>0. Len(s) \in Nat /\ i \in Int /\ i - 1 \in Int /\ i >= 1 /\ i <= Len(s) + 1
  BY LenProperties
<1>1. /\ a \in Seq(S)
      /\ Len(a) = i - 1
      /\ \A j \in 1 .. i - 1 : a[j] = s[j]
  <2>1. \A j \in 1 .. i - 1 : s[j] \in S
    BY <1>0, ElementOfSeq
  <2> QED  BY <1>0, <2>1, SubSeqProperties
<1>2. /\ b \in Seq(S)
      /\ Len(b) = Len(s) - i + 1
      /\ \A j \in 1 .. Len(s) - i + 1 : b[j] = s[i + j - 1]
  <2>1. \A j \in i .. Len(s) : s[j] \in S
    BY <1>0, ElementOfSeq
  <2> QED  BY <1>0, <2>1, SubSeqProperties
<1>3. /\ ae \in Seq(S)
      /\ Len(ae) = i
      /\ \A j \in 1 .. i : ae[j] = IF j < i THEN s[j] ELSE e
  <2>1. <<e>> \in Seq(S) /\ Len(<<e>>) = 1 /\ <<e>>[1] = e
    OBVIOUS
  <2> HIDE DEF a
  <2>2. /\ ae \in Seq(S)
        /\ Len(ae) = Len(a) + 1
        /\ \A j \in 1 .. Len(a) + 1 : ae[j] = IF j <= Len(a) THEN a[j] ELSE <<e>>[j - Len(a)]
    BY <1>1, <2>1, ConcatProperties
  <2> HIDE DEF ae
  <2>3. ASSUME NEW j \in 1 .. i
        PROVE  ae[j] = IF j < i THEN s[j] ELSE e
    <3>1. CASE j < i
      BY <1>0, <1>1, <2>2, <3>1
    <3>2. CASE j = i
      BY <1>0, <1>1, <2>1, <2>2, <3>2
    <3> QED  BY <1>0, <3>1, <3>2
  <2>4. Len(ae) = i
    BY <1>0, <1>1, <2>2
  <2> QED  BY <2>2, <2>3, <2>4
<1> HIDE DEF ae, b
<1>4. /\ ae \o b \in Seq(S)
      /\ Len(ae \o b) = Len(ae) + Len(b)
      /\ \A j \in 1 .. Len(ae) + Len(b) : (ae \o b)[j] =
            IF j <= Len(ae) THEN ae[j] ELSE b[j - Len(ae)]
  BY <1>2, <1>3, ConcatProperties
<1>5. InsertAt(s, i, e) = ae \o b
  BY DEF InsertAt, ae, b
<1>6. /\ \A j \in 1 .. i - 1 : (ae \o b)[j] = s[j]
      /\ (ae \o b)[i] = e
      /\ \A j \in i + 1 .. Len(s) + 1 : (ae \o b)[j] = s[j - 1]
  <2>1. ASSUME NEW j \in 1 .. i - 1 PROVE (ae \o b)[j] = s[j]
    BY <1>0, <1>2, <1>3, <1>4
  <2>2. ASSUME NEW j \in i + 1 .. Len(s) + 1 PROVE (ae \o b)[j] = s[j - 1]
    <3>1. j - i \in 1 .. Len(s) - i + 1 /\ i + (j - i) - 1 = j - 1
      BY <1>0
    <3>2. b[j - i] = s[j - 1]
      BY <1>2, <3>1
    <3>3. Len(ae) = i /\ j \in 1 .. Len(ae) + Len(b) /\ ~(j <= Len(ae))
      BY <1>0, <1>2, <1>3
    <3> QED  BY <1>4, <3>2, <3>3
  <2>3. (ae \o b)[i] = e
    BY <1>0, <1>2, <1>3, <1>4
  <2> QED  BY <2>1, <2>2, <2>3
<1>7. Len(ae \o b) = Len(s) + 1
  BY <1>0, <1>2, <1>3, <1>4
<1> QED  BY <1>4, <1>5, <1>6, <1>7, Zenon DEF IsInsertion
=============================================================================
