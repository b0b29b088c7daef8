------------------------------- MODULE Lemmas -------------------------------
(***************************************************************************)
(* Facts about numbers and sequences that the proofs of several components *)
(* rest on: the least element of a set of numbers, by which an induction   *)
(* is a search for the least counterexample, and what InsertAt and         *)
(* RemoveAt, the models of linking and unlinking a node, make of a list.   *)
(***************************************************************************)
EXTENDS Integers, Sequences, SequencesExt, SequenceTheorems,
        WellFoundedInduction, TLAPS

\* A set of numbers has a least one.
LEMMA LeastNumber ==
    ASSUME NEW T, T \subseteq Nat, T # {}
    PROVE  \E m \in T : \A k \in T : m <= k
<1> DEFINE R == OpToRel(<, Nat)
<1>1. \E m \in T : \A k \in T : ~(<<k, m>> \in R)
  BY NatLessThanWellFounded, WFMin
<1>2. \A k, m \in T : <<k, m>> \in R <=> k < m
  BY DEF OpToRel
<1> HIDE DEF R
<1>3. \A k, m \in T : ~(k < m) => m <= k
  OBVIOUS
<1> QED
  BY <1>1, <1>2, <1>3

\* What RemoveAt, the model of UnlinkListItem, leaves of a list.
LEMMA RemoveAtShape ==
    ASSUME NEW S, NEW s \in Seq(S), NEW i \in DOMAIN s
    PROVE  /\ RemoveAt(s, i) \in Seq(S)
           /\ Len(RemoveAt(s, i)) = Len(s) - 1
           /\ DOMAIN RemoveAt(s, i) = 1 .. (Len(s) - 1)
           /\ \A j \in 1 .. (Len(s) - 1) :
                 RemoveAt(s, i)[j] = IF j < i THEN s[j] ELSE s[j + 1]
<1> DEFINE n == Len(s)
           a == SubSeq(s, 1, i - 1)
           b == SubSeq(s, i + 1, n)
           r == a \o b
<1>1. i \in 1 .. n /\ n \in Nat
  OBVIOUS
<1>2. /\ a \in Seq(S)
      /\ Len(a) = i - 1
      /\ \A j \in 1 .. (i - 1) : a[j] = s[j]
  BY <1>1, SubSeqProperties
<1>3. /\ b \in Seq(S)
      /\ Len(b) = n - i
      /\ \A j \in 1 .. (n - i) : b[j] = s[i + j]
  BY <1>1, SubSeqProperties
<1>4. RemoveAt(s, i) = r
  BY DEF RemoveAt
<1> HIDE DEF n, a, b
<1>5. /\ r \in Seq(S)
      /\ Len(r) = Len(a) + Len(b)
      /\ \A j \in 1 .. (Len(a) + Len(b)) :
            r[j] = IF j <= Len(a) THEN a[j] ELSE b[j - Len(a)]
  BY <1>2, <1>3, ConcatProperties
<1> HIDE DEF r
<1>6. Len(r) = n - 1 /\ Len(a) + Len(b) = n - 1
  BY <1>1, <1>2, <1>3, <1>5
<1>7. ASSUME NEW j \in 1 .. (n - 1)
      PROVE  r[j] = IF j < i THEN s[j] ELSE s[j + 1]
  <2>0. r[j] = IF j <= i - 1 THEN a[j] ELSE b[j - (i - 1)]
    BY <1>2, <1>5, <1>6
  <2>1. CASE j < i
    BY <1>1, <1>2, <2>0, <2>1
  <2>2. CASE ~(j < i)
    <3>1. j - (i - 1) \in 1 .. (n - i) /\ i + (j - (i - 1)) = j + 1
      BY <1>1, <2>2
    <3> QED
      BY <1>1, <1>3, <2>0, <2>2, <3>1, SMTT(30)
  <2> QED
    BY <2>1, <2>2
<1>8. DOMAIN r = 1 .. (n - 1)
  BY <1>5, <1>6, LenProperties
<1> QED
  BY <1>4, <1>5, <1>6, <1>7, <1>8 DEF n

\* What InsertAt, the model of linking a node in front of another, makes of a
\* list.
LEMMA InsertAtShape ==
    ASSUME NEW S, NEW s \in Seq(S), NEW e \in S, NEW i \in 1 .. Len(s) + 1
    PROVE  /\ InsertAt(s, i, e) \in Seq(S)
           /\ Len(InsertAt(s, i, e)) = Len(s) + 1
           /\ DOMAIN InsertAt(s, i, e) = 1 .. (Len(s) + 1)
           /\ \A j \in 1 .. (Len(s) + 1) :
                 InsertAt(s, i, e)[j] = IF j < i THEN s[j]
                                        ELSE IF j = i THEN e ELSE s[j - 1]
<1> DEFINE n == Len(s)
           a == SubSeq(s, 1, i - 1)
           b == SubSeq(s, i, n)
           ae == a \o <<e>>
           r == ae \o b
<1>1. i \in 1 .. n + 1 /\ n \in Nat /\ <<e>> \in Seq(S) /\ Len(<<e>>) = 1
  OBVIOUS
<1>2. /\ a \in Seq(S)
      /\ Len(a) = i - 1
      /\ \A j \in 1 .. (i - 1) : a[j] = s[j]
  BY <1>1, SubSeqProperties
<1>3. /\ b \in Seq(S)
      /\ Len(b) = n - i + 1
      /\ \A j \in 1 .. (n - i + 1) : b[j] = s[i + j - 1]
  BY <1>1, SubSeqProperties
<1>4. InsertAt(s, i, e) = r
  BY DEF InsertAt
<1> HIDE DEF n, a, b
<1>5. /\ ae \in Seq(S)
      /\ Len(ae) = i
      /\ \A j \in 1 .. i : ae[j] = IF j < i THEN s[j] ELSE e
  BY <1>1, <1>2, ConcatProperties
<1> HIDE DEF ae
<1>6. /\ r \in Seq(S)
      /\ Len(r) = Len(ae) + Len(b)
      /\ \A j \in 1 .. (Len(ae) + Len(b)) :
            r[j] = IF j <= Len(ae) THEN ae[j] ELSE b[j - Len(ae)]
  BY <1>3, <1>5, ConcatProperties
<1> HIDE DEF r
<1>7. /\ r \in Seq(S)
      /\ Len(r) = n + 1
      /\ \A j \in 1 .. n + 1 : r[j] = IF j <= i THEN ae[j] ELSE b[j - i]
  BY <1>1, <1>3, <1>5, <1>6
<1>8. ASSUME NEW j \in 1 .. n + 1, j > i
      PROVE  r[j] = s[j - 1]
  <2>1. j - i \in 1 .. (n - i + 1) /\ i + (j - i) - 1 = j - 1
    BY <1>1, <1>8
  <2>2. b[j - i] = s[i + (j - i) - 1]
    BY <1>3, <2>1
  <2>3. r[j] = b[j - i]
    BY <1>1, <1>7, <1>8
  <2> QED
    BY <2>1, <2>2, <2>3
<1>9. \A j \in 1 .. n + 1 : r[j] = IF j < i THEN s[j] ELSE IF j = i THEN e ELSE s[j - 1]
  BY <1>1, <1>5, <1>7, <1>8
<1>10. DOMAIN r = 1 .. n + 1
  BY <1>7, LenProperties
<1> QED
  BY <1>4, <1>7, <1>9, <1>10 DEF n

=============================================================================
