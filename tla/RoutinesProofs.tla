---------------------------- MODULE RoutinesProofs ---------------------------
(***************************************************************************)
(* Proofs about two of the routines that work on text.                     *)
(*                                                                         *)
(* LineReader, for a buffer of any size and any number of bytes and lost   *)
(* connections: however the stream is cut, the lines handed to the parser  *)
(* are the lines of the bytes received, and the buffer holds the beginning *)
(* of the next one.                                                        *)
(*                                                                         *)
(* Match, for every mask, every name and every limit: the pointers of      *)
(* match() stay in the strings, and it does not give up on a mask and a    *)
(* name of which the lengths, each with its end, multiply to no more than  *)
(* the limit.                                                              *)
(***************************************************************************)
EXTENDS LineReader, Match, Lemmas, FiniteSetTheorems

\* What a stream, the buffer and the lines are made of.
Symbol == Byte \cup {LF, CR, Zero}

-----------------------------------------------------------------------------
(* Lines of a sequence *)

\* The newlines of a sequence are finitely many.
LEMMA EndsFinite ==
    ASSUME NEW s \in Seq(Symbol)
    PROVE  /\ Ends(s) \subseteq 1 .. Len(s) /\ IsFiniteSet(Ends(s))
           /\ Cardinality(Ends(s)) \in Nat
<1>1. Ends(s) \subseteq 1 .. Len(s) /\ Len(s) \in Nat
  BY LenProperties DEF Ends
<1>2. IsFiniteSet(1 .. Len(s))
  BY <1>1, FS_Interval
<1> QED
  BY <1>1, <1>2, FS_Subset, FS_CardinalityType

\* StartOf finds the place after the last newline before i, or the first place.
LEMMA StartShape ==
    ASSUME NEW s \in Seq(Symbol), NEW i \in 1 .. Len(s) + 1
    PROVE  /\ StartOf(s, i) \in 1 .. i
           /\ StartOf(s, i) = 1 \/ StartOf(s, i) - 1 \in Ends(s)
           /\ \A k \in Ends(s) : k < i => k < StartOf(s, i)
<1>1. Ends(s) \subseteq 1 .. Len(s) /\ Len(s) \in Nat
  BY EndsFinite, LenProperties
<1>2. CASE \E j \in Ends(s) : j < i
  <2> DEFINE T == {i - j : j \in {j \in Ends(s) : j < i}}
  <2>1. T \subseteq Nat /\ T # {}
    BY <1>1, <1>2
  <2>2. PICK m \in T : \A k \in T : m <= k
    BY <2>1, LeastNumber
  <2>3. PICK j \in Ends(s) : j < i /\ m = i - j
    BY <2>2
  <2>4. \A k \in Ends(s) : k < i => k <= j
    <3> SUFFICES ASSUME NEW k \in Ends(s), k < i
                 PROVE  k <= j
      OBVIOUS
    <3>1. i - k \in T
      OBVIOUS
    <3>2. m <= i - k
      BY <2>2, <3>1
    <3> QED
      BY <1>1, <2>3, <3>2
  <2>5. \E n \in Ends(s) : n < i /\ \A k \in Ends(s) : k < i => k <= n
    BY <2>3, <2>4
  <2> DEFINE n == CHOOSE n \in Ends(s) : n < i /\ \A k \in Ends(s) : k < i => k <= n
  <2>6. n \in Ends(s) /\ n < i /\ \A k \in Ends(s) : k < i => k <= n
    BY <2>5
  <2>7. StartOf(s, i) = n + 1
    BY <1>2 DEF StartOf
  <2> HIDE DEF n
  <2> QED
    BY <1>1, <2>6, <2>7
<1>3. CASE ~\E j \in Ends(s) : j < i
  BY <1>1, <1>3 DEF StartOf
<1> QED
  BY <1>2, <1>3

\* A sequence without newlines is all rest, and has no lines.
LEMMA NoLines ==
    ASSUME NEW s \in Seq(Symbol), Ends(s) = {}
    PROVE  Rest(s) = s /\ AreLines(<< >>, s)
<1>1. StartOf(s, Len(s) + 1) = 1
  BY DEF StartOf
<1>2. Rest(s) = s
  <2>1. Len(s) \in Nat /\ \A i \in 1 .. Len(s) : s[i] \in Symbol
    BY LenProperties, ElementOfSeq
  <2>2. /\ Rest(s) \in Seq(Symbol) /\ Len(Rest(s)) = Len(s)
        /\ \A i \in 1 .. Len(s) : Rest(s)[i] = s[i]
    BY <1>1, <2>1, SubSeqProperties DEF Rest
  <2> QED
    BY <2>2, SeqEqual
<1> QED
  BY <1>2, FS_EmptySet DEF AreLines

\* One more byte changes neither the newlines before it nor where the lines
\* that they end begin.
LEMMA OneMore ==
    ASSUME NEW s \in Seq(Symbol), NEW b \in Symbol
    PROVE  /\ Append(s, b) \in Seq(Symbol) /\ Len(Append(s, b)) = Len(s) + 1
           /\ \A i \in 1 .. Len(s) : Append(s, b)[i] = s[i]
           /\ Ends(Append(s, b)) = Ends(s) \cup (IF b = LF THEN {Len(s) + 1} ELSE {})
           /\ \A i \in 1 .. Len(s) + 1 : StartOf(Append(s, b), i) = StartOf(s, i)
<1> DEFINE t == Append(s, b)
<1>1. /\ t \in Seq(Symbol) /\ Len(t) = Len(s) + 1 /\ Len(s) \in Nat
      /\ \A i \in 1 .. Len(s) : t[i] = s[i]
      /\ t[Len(s) + 1] = b
      /\ DOMAIN t = 1 .. Len(s) + 1 /\ DOMAIN s = 1 .. Len(s)
  BY AppendProperties, LenProperties
<1> HIDE DEF t
<1>2. Ends(t) = Ends(s) \cup (IF b = LF THEN {Len(s) + 1} ELSE {})
  BY <1>1 DEF Ends
<1>3. ASSUME NEW i \in 1 .. Len(s) + 1
      PROVE  StartOf(t, i) = StartOf(s, i)
  <2>1. i \in 1 .. Len(t) + 1
    BY <1>1
  <2>2. /\ StartOf(s, i) \in 1 .. i
        /\ StartOf(s, i) = 1 \/ StartOf(s, i) - 1 \in Ends(s)
        /\ \A k \in Ends(s) : k < i => k < StartOf(s, i)
    BY StartShape
  <2>3. /\ StartOf(t, i) \in 1 .. i
        /\ StartOf(t, i) = 1 \/ StartOf(t, i) - 1 \in Ends(t)
        /\ \A k \in Ends(t) : k < i => k < StartOf(t, i)
    BY <1>1, <2>1, StartShape
  <2>4. Ends(s) \subseteq 1 .. Len(s)
    BY EndsFinite
  <2>5. \A k : k < i => (k \in Ends(t) <=> k \in Ends(s)) \/ k = Len(s) + 1
    BY <1>2
  <2>6. StartOf(t, i) - 1 < i /\ StartOf(s, i) - 1 < i
    BY <2>2, <2>3
  <2>7. StartOf(t, i) = 1 \/ StartOf(t, i) - 1 \in Ends(s)
    BY <1>1, <1>2, <2>3
  <2>8. Ends(s) \subseteq Ends(t)
    BY <1>2
  <2>9. StartOf(t, i) <= StartOf(s, i)
    BY <2>2, <2>3, <2>6, <2>7
  <2>10. StartOf(s, i) <= StartOf(t, i)
    BY <2>2, <2>3, <2>6, <2>8
  <2> QED
    BY <2>2, <2>3, <2>9, <2>10
<1> QED
  BY <1>1, <1>2, <1>3 DEF t

\* A part of a sequence that one more byte does not reach.
LEMMA PartKept ==
    ASSUME NEW s \in Seq(Symbol), NEW b \in Symbol, NEW m \in 1 .. Len(s) + 1, NEW n \in 0 .. Len(s)
    PROVE  /\ SubSeq(Append(s, b), m, n) = SubSeq(s, m, n)
           /\ SubSeq(s, m, n) \in Seq(Symbol)
           /\ Len(SubSeq(s, m, n)) = IF m <= n THEN n - m + 1 ELSE 0
           /\ \A i \in 1 .. n - m + 1 : SubSeq(s, m, n)[i] = s[m + i - 1]
<1> DEFINE t == Append(s, b)
<1>1. Len(s) \in Nat /\ \A i \in 1 .. Len(s) : t[i] = s[i] /\ s[i] \in Symbol
  BY OneMore, LenProperties, ElementOfSeq
<1> HIDE DEF t
<1>2. \A i \in m .. n : i \in 1 .. Len(s)
  BY <1>1
<1>3. \A i \in m .. n : t[i] = s[i] /\ s[i] \in Symbol
  BY <1>1, <1>2
<1>4. /\ SubSeq(s, m, n) \in Seq(Symbol)
      /\ Len(SubSeq(s, m, n)) = IF m <= n THEN n - m + 1 ELSE 0
      /\ \A i \in 1 .. n - m + 1 : SubSeq(s, m, n)[i] = s[m + i - 1]
  BY <1>1, <1>3, SubSeqProperties
<1>5. /\ SubSeq(t, m, n) \in Seq(Symbol)
      /\ Len(SubSeq(t, m, n)) = IF m <= n THEN n - m + 1 ELSE 0
      /\ \A i \in 1 .. n - m + 1 : SubSeq(t, m, n)[i] = t[m + i - 1]
  BY <1>1, <1>3, SubSeqProperties
<1>6. \A i \in 1 .. Len(SubSeq(s, m, n)) : SubSeq(t, m, n)[i] = SubSeq(s, m, n)[i]
  <2> SUFFICES ASSUME NEW i \in 1 .. Len(SubSeq(s, m, n))
               PROVE  SubSeq(t, m, n)[i] = SubSeq(s, m, n)[i]
    OBVIOUS
  <2>1. i \in 1 .. n - m + 1 /\ m + i - 1 \in m .. n
    BY <1>1, <1>4
  <2> QED
    BY <1>3, <1>4, <1>5, <2>1
<1>7. SubSeq(t, m, n) = SubSeq(s, m, n)
  BY <1>4, <1>5, <1>6, SeqEqual
<1> QED
  BY <1>4, <1>7 DEF t

\* The rest and its length.
LEMMA RestShape ==
    ASSUME NEW s \in Seq(Symbol)
    PROVE  /\ Rest(s) \in Seq(Symbol)
           /\ Len(Rest(s)) = Len(s) + 1 - StartOf(s, Len(s) + 1)
           /\ \A i \in 1 .. Len(Rest(s)) : Rest(s)[i] = s[StartOf(s, Len(s) + 1) + i - 1]
<1>1. Len(s) \in Nat /\ LF \in Symbol /\ Len(s) + 1 \in 1 .. Len(s) + 1
  BY LenProperties DEF Symbol
<1>2. StartOf(s, Len(s) + 1) \in 1 .. Len(s) + 1
  BY <1>1, StartShape
<1> DEFINE p == StartOf(s, Len(s) + 1)
<1> HIDE DEF p
<1>3. /\ SubSeq(s, p, Len(s)) \in Seq(Symbol)
      /\ Len(SubSeq(s, p, Len(s))) = IF p <= Len(s) THEN Len(s) - p + 1 ELSE 0
      /\ \A i \in 1 .. Len(s) - p + 1 : SubSeq(s, p, Len(s))[i] = s[p + i - 1]
  BY <1>1, <1>2, PartKept DEF p
<1>4. Len(SubSeq(s, p, Len(s))) = Len(s) + 1 - p
  BY <1>1, <1>2, <1>3 DEF p
<1> QED
  BY <1>1, <1>2, <1>3, <1>4 DEF p, Rest

\* A byte that is no newline goes behind the rest.
LEMMA RestOfOther ==
    ASSUME NEW s \in Seq(Symbol), NEW b \in Symbol, b # LF
    PROVE  Rest(Append(s, b)) = Append(Rest(s), b)
<1> DEFINE t == Append(s, b)
           p == StartOf(s, Len(s) + 1)
<1>1. /\ t \in Seq(Symbol) /\ Len(t) = Len(s) + 1 /\ Len(s) \in Nat
      /\ \A i \in 1 .. Len(s) : t[i] = s[i]
      /\ t[Len(s) + 1] = b
      /\ Ends(t) = Ends(s)
      /\ StartOf(t, Len(s) + 1) = p
  <2>1. Len(s) \in Nat /\ Len(s) + 1 \in 1 .. Len(s) + 1
    BY LenProperties
  <2>2. t[Len(s) + 1] = b
    BY AppendProperties
  <2>3. /\ t \in Seq(Symbol) /\ Len(t) = Len(s) + 1
        /\ \A i \in 1 .. Len(s) : t[i] = s[i]
        /\ Ends(t) = Ends(s)
    BY OneMore
  <2>4. \A i \in 1 .. Len(s) + 1 : StartOf(t, i) = StartOf(s, i)
    BY OneMore
  <2> HIDE DEF t
  <2> QED
    BY <2>1, <2>2, <2>3, <2>4
<1> HIDE DEF t
<1>2. StartOf(t, Len(t) + 1) = p
  <2>1. Len(s) + 1 \notin Ends(t) /\ Ends(s) \subseteq 1 .. Len(s)
    BY <1>1, EndsFinite
  <2>2. /\ StartOf(t, Len(t) + 1) \in 1 .. Len(t) + 1
        /\ StartOf(t, Len(t) + 1) = 1 \/ StartOf(t, Len(t) + 1) - 1 \in Ends(t)
        /\ \A k \in Ends(t) : k < Len(t) + 1 => k < StartOf(t, Len(t) + 1)
    <3>1. Len(t) + 1 \in 1 .. Len(t) + 1
      BY <1>1
    <3> QED
      BY <1>1, <3>1, StartShape
  <2>3. /\ p \in 1 .. Len(s) + 1
        /\ p = 1 \/ p - 1 \in Ends(s)
        /\ \A k \in Ends(s) : k < Len(s) + 1 => k < p
    BY <1>1, StartShape
  <2> HIDE DEF t, p
  <2>4. StartOf(t, Len(t) + 1) <= p
    BY <1>1, <2>1, <2>2, <2>3
  <2>5. p <= StartOf(t, Len(t) + 1)
    BY <1>1, <2>1, <2>2, <2>3
  <2> QED
    BY <1>1, <2>2, <2>3, <2>4, <2>5
<1>3. p \in 1 .. Len(s) + 1
  BY <1>1, StartShape
<1> HIDE DEF p
<1>4. /\ Rest(s) \in Seq(Symbol) /\ Len(Rest(s)) = Len(s) + 1 - p
      /\ \A i \in 1 .. Len(Rest(s)) : Rest(s)[i] = s[p + i - 1]
  BY RestShape DEF p
<1>5. /\ Rest(t) \in Seq(Symbol) /\ Len(Rest(t)) = Len(s) + 2 - p
      /\ \A i \in 1 .. Len(Rest(t)) : Rest(t)[i] = t[p + i - 1]
  <2>1. Len(t) + 1 - p = Len(s) + 2 - p
    BY <1>1, <1>3
  <2> QED
    BY <1>1, <1>2, <2>1, RestShape
<1>6. /\ Append(Rest(s), b) \in Seq(Symbol) /\ Len(Append(Rest(s), b)) = Len(Rest(s)) + 1
      /\ \A i \in 1 .. Len(Rest(s)) : Append(Rest(s), b)[i] = Rest(s)[i]
      /\ Append(Rest(s), b)[Len(Rest(s)) + 1] = b
  <2> DEFINE q == Rest(s)
  <2>1. q \in Seq(Symbol)
    BY <1>4
  <2> HIDE DEF q
  <2>2. /\ Append(q, b) \in Seq(Symbol) /\ Len(Append(q, b)) = Len(q) + 1
        /\ \A i \in 1 .. Len(q) : Append(q, b)[i] = q[i]
        /\ Append(q, b)[Len(q) + 1] = b
    BY <2>1, AppendProperties
  <2> QED
    BY <2>2 DEF q
<1>7. ASSUME NEW i \in 1 .. Len(Rest(t))
      PROVE  Rest(t)[i] = Append(Rest(s), b)[i]
  <2>1. CASE i <= Len(Rest(s))
    <3>1. i \in 1 .. Len(Rest(s)) /\ p + i - 1 \in 1 .. Len(s)
      BY <1>1, <1>3, <1>4, <1>5, <1>7, <2>1
    <3> QED
      BY <1>1, <1>4, <1>5, <1>6, <3>1
  <2>2. CASE ~(i <= Len(Rest(s)))
    <3>1. i = Len(Rest(s)) + 1 /\ p + i - 1 = Len(s) + 1
      <4>1. Len(Rest(t)) = Len(Rest(s)) + 1 /\ Len(Rest(s)) = Len(s) + 1 - p
        BY <1>1, <1>3, <1>4, <1>5
      <4> QED
        BY <1>1, <1>3, <1>7, <2>2, <4>1
    <3> QED
      BY <1>1, <1>5, <1>6, <3>1
  <2> QED
    BY <2>1, <2>2
<1>8. Len(Rest(t)) = Len(Append(Rest(s), b))
  BY <1>1, <1>3, <1>4, <1>5, <1>6
<1>9. Rest(t) = Append(Rest(s), b)
  BY <1>5, <1>6, <1>7, <1>8, SeqEqual
<1> QED
  BY <1>9 DEF t

\* A newline leaves no rest.
LEMMA RestOfNewline ==
    ASSUME NEW s \in Seq(Symbol)
    PROVE  Rest(Append(s, LF)) = << >>
<1> DEFINE t == Append(s, LF)
<1>1. /\ t \in Seq(Symbol) /\ Len(t) = Len(s) + 1 /\ Len(s) \in Nat
      /\ Len(s) + 1 \in Ends(t)
  BY OneMore, LenProperties DEF Symbol
<1> HIDE DEF t
<1>2. StartOf(t, Len(t) + 1) = Len(t) + 1
  <2>1. Len(t) + 1 \in 1 .. Len(t) + 1
    BY <1>1
  <2>2. StartOf(t, Len(t) + 1) \in 1 .. Len(t) + 1 /\ Len(s) + 1 < StartOf(t, Len(t) + 1)
    BY <1>1, <2>1, StartShape
  <2> QED
    BY <1>1, <2>2
<1>3. Rest(t) \in Seq(Symbol) /\ Len(Rest(t)) = 0
  BY <1>1, <1>2, RestShape
<1> QED
  BY <1>3, EmptySeq DEF t

\* A byte that is no newline ends no line.
LEMMA LinesOfOther ==
    ASSUME NEW s \in Seq(Symbol), NEW b \in Symbol, b # LF, NEW ls, AreLines(ls, s)
    PROVE  AreLines(ls, Append(s, b))
<1> DEFINE t == Append(s, b)
<1>1. /\ Ends(t) = Ends(s) /\ Len(s) \in Nat /\ Ends(s) \subseteq 1 .. Len(s)
      /\ \A i \in 1 .. Len(s) + 1 : StartOf(t, i) = StartOf(s, i)
  BY OneMore, EndsFinite, LenProperties
<1>2. ASSUME NEW i \in Ends(s)
      PROVE  SubSeq(t, StartOf(t, i), i - 1) = SubSeq(s, StartOf(s, i), i - 1)
  <2>1. i \in 1 .. Len(s) + 1 /\ i - 1 \in 0 .. Len(s)
    BY <1>1
  <2>2. StartOf(s, i) \in 1 .. Len(s) + 1
    BY <1>1, <2>1, StartShape
  <2> QED
    BY <1>1, <2>1, <2>2, PartKept
<1> HIDE DEF t
<1>3. AreLines(ls, t)
  BY <1>1, <1>2 DEF AreLines
<1> QED
  BY <1>3 DEF t

\* A newline makes the rest a line.
LEMMA LinesOfNewline ==
    ASSUME NEW s \in Seq(Symbol), NEW ls \in Seq(Seq(Symbol)), AreLines(ls, s),
           Bare(Rest(s)) \in Seq(Symbol)
    PROVE  AreLines(Append(ls, Bare(Rest(s))), Append(s, LF))
<1> DEFINE t == Append(s, LF)
           n == Len(s) + 1
           C(i) == {j \in Ends(s) : j <= i}
           ks == Append(ls, Bare(Rest(s)))
<1>1. /\ Ends(t) = Ends(s) \cup {n} /\ Len(s) \in Nat /\ Ends(s) \subseteq 1 .. Len(s)
      /\ \A i \in 1 .. Len(s) + 1 : StartOf(t, i) = StartOf(s, i)
      /\ IsFiniteSet(Ends(s)) /\ Cardinality(Ends(s)) \in Nat /\ LF \in Symbol
  BY OneMore, EndsFinite, LenProperties DEF Symbol
<1>2. Len(ls) = Cardinality(Ends(s))
  BY DEF AreLines
<1>3. /\ Len(ks) = Len(ls) + 1
      /\ \A i \in 1 .. Len(ls) : ks[i] = ls[i]
      /\ ks[Len(ls) + 1] = Bare(Rest(s))
  BY AppendProperties
<1>4. n \notin Ends(s) /\ Cardinality(Ends(t)) = Cardinality(Ends(s)) + 1
  <2>1. n \notin Ends(s)
    BY <1>1
  <2>2. Cardinality(Ends(s) \cup {n}) = Cardinality(Ends(s)) + 1
    BY <1>1, <2>1, FS_AddElement
  <2> HIDE DEF t
  <2> QED
    BY <1>1, <2>1, <2>2
<1>5. ASSUME NEW i \in Ends(s)
      PROVE  ks[Cardinality({j \in Ends(t) : j <= i})] = Bare(SubSeq(t, StartOf(t, i), i - 1))
  <2>1. i \in 1 .. Len(s) + 1 /\ i - 1 \in 0 .. Len(s)
    BY <1>1
  <2>2. StartOf(s, i) \in 1 .. Len(s) + 1
    BY <1>1, <2>1, StartShape
  <2>3. SubSeq(t, StartOf(t, i), i - 1) = SubSeq(s, StartOf(s, i), i - 1)
    BY <1>1, <2>1, <2>2, PartKept
  <2>4. {j \in Ends(t) : j <= i} = C(i)
    BY <1>1
  <2>5. C(i) # {} /\ C(i) \in SUBSET Ends(s)
    BY <1>1
  <2>6. Cardinality(C(i)) \in 1 .. Len(ls)
    <3> HIDE DEF C
    <3>1. IsFiniteSet(C(i)) /\ Cardinality(C(i)) <= Cardinality(Ends(s))
      BY <1>1, <2>5, FS_Subset
    <3>2. Cardinality(C(i)) \in Nat /\ Cardinality(C(i)) # 0
      BY <2>5, <3>1, FS_CardinalityType, FS_EmptySet
    <3> QED
      BY <1>1, <1>2, <3>1, <3>2
  <2>7. ls[Cardinality(C(i))] = Bare(SubSeq(s, StartOf(s, i), i - 1))
    BY DEF AreLines
  <2> HIDE DEF t, ks, C
  <2> QED
    BY <1>3, <2>3, <2>4, <2>6, <2>7
<1>6. ks[Cardinality({j \in Ends(t) : j <= n})] = Bare(SubSeq(t, StartOf(t, n), n - 1))
  <2>1. {j \in Ends(t) : j <= n} = Ends(t)
    BY <1>1
  <2>2. SubSeq(t, StartOf(t, n), n - 1) = Rest(s)
    <3>1. n \in 1 .. Len(s) + 1 /\ n - 1 = Len(s) /\ Len(s) \in 0 .. Len(s)
      BY <1>1
    <3>2. StartOf(t, n) = StartOf(s, n) /\ StartOf(s, n) \in 1 .. Len(s) + 1
      BY <1>1, <3>1, StartShape
    <3>3. SubSeq(t, StartOf(s, n), Len(s)) = SubSeq(s, StartOf(s, n), Len(s))
      BY <1>1, <3>1, <3>2, PartKept
    <3> QED
      BY <3>1, <3>2, <3>3 DEF Rest
  <2> HIDE DEF t, ks
  <2> QED
    BY <1>2, <1>3, <1>4, <2>1, <2>2
<1> HIDE DEF t, ks, C
<1>7. AreLines(ks, t)
  BY <1>1, <1>2, <1>3, <1>4, <1>5, <1>6 DEF AreLines
<1> QED
  BY <1>7 DEF t, ks

-----------------------------------------------------------------------------
(* The buffer *)

\* The end of the stream has been read, and getline_server does not come back.
Stuck == ended /\ reading /\ stream = << >>

\* Nothing in the buffer looks like the end of a line's text.
Clean == ~Stuck => \A i \in Place : i < buffpos => buff[i] # Zero

\* The buffer holds the rest also while getline_server runs, and of a
\* connection the server has closed until all it sent has been read.
Holding == connected /\ ~Stuck => Holds(Rest(left \o taken))

IInv ==
    /\ TypeOK
    /\ left \in Seq(Symbol)
    /\ lines \in Seq(Seq(Symbol))
    /\ Clean
    /\ Holding
    /\ LinesFaithful

\* The buffer has places, numbered from 0.
LEMMA Numbers == Size \in Nat /\ Size > 0 /\ 0 \in Place /\ \A i \in Place : i \in Nat
BY LineReaderAssumption DEF Place

\* The text in the buffer ends at the first Zero.
LEMMA TextShape ==
    ASSUME NEW f, NEW n \in Place, f[n] = Zero, \A i \in Place : i < n => f[i] # Zero
    PROVE  Text(f) = [i \in 1 .. n |-> f[i - 1]]
<1> DEFINE ends == {i \in Place : f[i] = Zero}
           m == CHOOSE i \in ends : \A j \in ends : i <= j
<1>1. n \in ends /\ \A j \in ends : n <= j
  BY Numbers
<1>2. m \in ends /\ \A j \in ends : m <= j
  BY <1>1
<1>3. m = n
  BY <1>1, <1>2, Numbers
<1>4. Text(f) = [i \in 1 .. m |-> f[i - 1]]
  BY <1>1 DEF Text
<1> QED
  BY <1>3, <1>4

\* The line in the buffer, when it holds l and the newline has been read, is l
\* without a carriage return at its end.
LEMMA TextOfRest ==
    ASSUME TypeOK, Clean, ~Stuck, NEW l \in Seq(Symbol), Holds(l)
    PROVE  LET b == [buff EXCEPT ![buffpos] = Zero]
               d == IF buffpos > 0 /\ b[buffpos - 1] = CR
                      THEN [b EXCEPT ![buffpos - 1] = Zero] ELSE b
           IN  /\ d \in [Place -> Byte \cup {CR, Zero}]
               /\ Text(d) = Bare(l) /\ Bare(l) \in Seq(Symbol)
<1> DEFINE n == buffpos
           b == [buff EXCEPT ![n] = Zero]
           d == IF n > 0 /\ b[n - 1] = CR THEN [b EXCEPT ![n - 1] = Zero] ELSE b
<1>1. /\ n \in Place /\ n \in Nat /\ \A i \in Place : i < n => buff[i] # Zero
      /\ buff \in [Place -> Byte \cup {CR, Zero}]
  BY Numbers DEF TypeOK, Clean
<1>2. /\ n = Len(l) /\ \A i \in 1 .. n : buff[i - 1] = l[i] /\ l[i] \in Symbol
  BY ElementOfSeq DEF Holds
<1>3. \A i \in 0 .. n : i \in Place
  BY <1>1, LineReaderAssumption DEF Place
<1>4. /\ b \in [Place -> Byte \cup {CR, Zero}] /\ b[n] = Zero
      /\ \A i \in Place : i < n => b[i] = buff[i] /\ b[i] # Zero
  BY <1>1
<1> HIDE DEF n, b
<1>5. CASE n > 0 /\ b[n - 1] = CR
  <2>1. n - 1 \in Place /\ n - 1 \in Nat /\ n \in 1 .. n
    BY <1>1, <1>3, <1>5
  <2>2. l # << >> /\ Last(l) = CR
    <3>1. l[n] = CR
      BY <1>2, <1>4, <1>5, <2>1, <1>1
    <3> QED
      BY <1>2, <1>5, <3>1, EmptySeq DEF Last
  <2>3. Bare(l) = SubSeq(l, 1, n - 1)
    BY <1>2, <2>2 DEF Bare, Front
  <2>4. /\ SubSeq(l, 1, n - 1) \in Seq(Symbol) /\ Len(SubSeq(l, 1, n - 1)) = n - 1
        /\ \A i \in 1 .. n - 1 : SubSeq(l, 1, n - 1)[i] = l[i]
    <3>1. \A i \in 1 .. n - 1 : l[i] \in Symbol
      BY <1>1, <1>2
    <3>2. 1 \in Int /\ n - 1 \in Int /\ n - 1 - 1 + 1 = n - 1
          /\ (IF 1 <= n - 1 THEN n - 1 - 1 + 1 ELSE 0) = n - 1
      BY <1>1, <1>5
    <3>3. \A i \in 1 .. n - 1 : 1 + i - 1 = i
      BY <1>1
    <3> QED
      BY <3>1, <3>2, <3>3, SubSeqProperties
  <2>5. /\ d \in [Place -> Byte \cup {CR, Zero}] /\ d[n - 1] = Zero
        /\ \A i \in Place : i < n - 1 => d[i] = b[i] /\ d[i] # Zero
    BY <1>1, <1>4, <1>5, <2>1, Numbers
  <2> HIDE DEF d
  <2>6. Text(d) = [i \in 1 .. n - 1 |-> d[i - 1]]
    BY <2>1, <2>5, TextShape
  <2>7. \A i \in 1 .. n - 1 : d[i - 1] = l[i]
    <3> SUFFICES ASSUME NEW i \in 1 .. n - 1
                 PROVE  d[i - 1] = l[i]
      OBVIOUS
    <3>1. i - 1 \in Place /\ i - 1 < n - 1 /\ i - 1 < n /\ i \in 1 .. n
      BY <1>1, <1>3
    <3> QED
      BY <1>2, <1>4, <2>5, <3>1
  <2>8. SubSeq(l, 1, n - 1) = [i \in 1 .. n - 1 |-> d[i - 1]]
    <3>1. DOMAIN SubSeq(l, 1, n - 1) = 1 .. n - 1
          /\ SubSeq(l, 1, n - 1) \in [1 .. n - 1 -> Symbol]
      BY <2>4, LenProperties
    <3> QED
      BY <2>4, <2>7, <3>1
  <2> QED
    BY <2>3, <2>4, <2>5, <2>6, <2>8 DEF d, b, n
<1>6. CASE ~(n > 0 /\ b[n - 1] = CR)
  <2>1. Text(b) = [i \in 1 .. n |-> b[i - 1]]
    <3>1. n \in Place /\ b[n] = Zero /\ \A i \in Place : i < n => b[i] # Zero
      BY <1>1, <1>4
    <3> QED
      BY <3>1, TextShape
  <2>2. \A i \in 1 .. n : b[i - 1] = l[i]
    <3> SUFFICES ASSUME NEW i \in 1 .. n
                 PROVE  b[i - 1] = l[i]
      OBVIOUS
    <3>1. i - 1 \in Place /\ i - 1 < n
      BY <1>1, <1>3
    <3> QED
      BY <1>2, <1>4, <3>1
  <2>3. l = [i \in 1 .. n |-> b[i - 1]]
    BY <1>2, <2>2, LenProperties
  <2>4. Bare(l) = l
    <3>1. CASE n = 0
      BY <1>2, <3>1, EmptySeq DEF Bare
    <3>2. CASE n # 0
      <4>1. n > 0 /\ n \in 1 .. n
        BY <1>1, <3>2
      <4>2. l[n] # CR
        BY <1>6, <2>2, <4>1
      <4> QED
        BY <1>2, <4>2 DEF Bare, Last
    <3> QED
      BY <3>1, <3>2
  <2> QED
    BY <1>4, <1>6, <2>1, <2>3, <2>4 DEF d, b, n
<1> QED
  BY <1>5, <1>6 DEF d, b, n

-----------------------------------------------------------------------------
(* The steps *)

\* Nothing is read at first.
LEMMA InitIInv == Init => IInv
<1> SUFFICES ASSUME Init
             PROVE  IInv
  OBVIOUS
<1>1. /\ << >> \in Seq(Symbol) /\ << >> \o << >> = << >> /\ Ends(<< >>) = {} /\ Len(<< >>) = 0
      /\ << >> \in Seq(Byte \cup {LF, CR}) /\ << >> \in Seq(Seq(Symbol))
  BY EmptySeq, ConcatEmptySeq DEF Ends
<1>2. Rest(<< >>) = << >> /\ AreLines(<< >>, << >>)
  BY <1>1, NoLines
<1> QED
  BY <1>1, <1>2, Numbers DEF Init, IInv, TypeOK, Clean, Holding, Holds, LinesFaithful

\* A byte that is received goes behind what has been received.
LEMMA TakenGrows ==
    ASSUME left \in Seq(Symbol), taken \in Seq(Byte \cup {LF, CR}), NEW b \in Byte \cup {LF, CR}
    PROVE  /\ left \o taken \in Seq(Symbol) /\ b \in Symbol
           /\ left \o Append(taken, b) = Append(left \o taken, b)
           /\ Append(taken, b) \in Seq(Byte \cup {LF, CR})
<1>1. taken \in Seq(Symbol) /\ b \in Symbol
  BY LenProperties, SeqDef DEF Symbol
<1>2. left \o taken \in Seq(Symbol) /\ <<b>> \in Seq(Symbol)
  BY <1>1, ConcatProperties
<1>3. Append(taken, b) = taken \o <<b>> /\ Append(left \o taken, b) = (left \o taken) \o <<b>>
  BY <1>1, <1>2, AppendIsConcat
<1>4. (left \o taken) \o <<b>> = left \o (taken \o <<b>>)
  BY <1>1, <1>2, ConcatAssociative
<1> QED
  BY <1>1, <1>2, <1>3, <1>4, AppendProperties

\* The newline is received.
LEMMA LineEndOK ==
    ASSUME IInv, LineEnd
    PROVE  IInv'
<1> DEFINE got == left \o taken
           b == [buff EXCEPT ![buffpos] = Zero]
<1>1. ~Stuck /\ ~Stuck' /\ TypeOK /\ Clean
  BY DEF IInv, LineEnd, Stuck
<1>2. /\ got \in Seq(Symbol) /\ left' \o taken' = Append(got, LF)
      /\ taken' \in Seq(Byte \cup {LF, CR})
  BY TakenGrows DEF IInv, TypeOK, LineEnd, past
<1>3. /\ stream' \in Seq(Byte \cup {LF, CR}) /\ buffpos' = 0
      /\ ended' = ended /\ connected' = connected /\ left' = left /\ reading' = FALSE
  BY HeadTailProperties DEF IInv, TypeOK, LineEnd, past
<1>4. buff' = IF buffpos > 0 /\ b[buffpos - 1] = CR
                THEN [b EXCEPT ![buffpos - 1] = Zero] ELSE b
  BY DEF LineEnd
<1>5. buff' \in [Place -> Byte \cup {CR, Zero}]
  <2>1. b \in [Place -> Byte \cup {CR, Zero}]
    BY <1>1 DEF TypeOK
  <2> HIDE DEF b
  <2> QED
    BY <1>4, <2>1
<1>6. Text(buff') \in Seq(Symbol)
  <2> DEFINE n == CHOOSE i \in {i \in Place : buff'[i] = Zero} :
                     \A j \in {j \in Place : buff'[j] = Zero} : i <= j
  <2>1. \E i \in {i \in Place : buff'[i] = Zero} :
                     \A j \in {j \in Place : buff'[j] = Zero} : i <= j
    <3> DEFINE T == {i \in Place : buff'[i] = Zero}
    <3>1. buffpos \in T
      <4>1. buffpos \in Place /\ buffpos \in Nat
        BY <1>1, Numbers DEF TypeOK
      <4>2. b[buffpos] = Zero
        BY <1>1, <4>1 DEF TypeOK
      <4> HIDE DEF b
      <4> QED
        BY <1>4, <4>1, <4>2
    <3>2. T \subseteq Nat
      BY Numbers
    <3> HIDE DEF T
    <3>3. \E i \in T : \A j \in T : i <= j
      BY <3>1, <3>2, LeastNumber
    <3> QED
      BY <3>3 DEF T
  <2>2. n \in Place /\ n \in Nat
    BY <2>1, Numbers
  <2>3. Text(buff') = [i \in 1 .. n |-> buff'[i - 1]]
    BY <2>1 DEF Text
  <2> HIDE DEF n
  <2>4. \A i \in 1 .. n : buff'[i - 1] \in Symbol
    <3> SUFFICES ASSUME NEW i \in 1 .. n
                 PROVE  buff'[i - 1] \in Symbol
      OBVIOUS
    <3>1. i - 1 \in Place
      BY <2>2, LineReaderAssumption DEF Place
    <3> QED
      BY <1>5, <3>1 DEF Symbol
  <2> QED
    BY <2>2, <2>3, <2>4
<1>7. lines' \in Seq(Seq(Symbol)) /\ lines' = Append(lines, Text(buff'))
  BY <1>6, AppendProperties DEF IInv, LineEnd
<1>8. Clean'
  BY <1>3, Numbers DEF Clean
<1>9. CASE connected
  <2>1. Holds(Rest(got)) /\ AreLines(lines, got) /\ Rest(got) \in Seq(Symbol)
    BY <1>1, <1>2, <1>9, RestShape DEF IInv, Holding, LinesFaithful
  <2>2. Text(buff') = Bare(Rest(got)) /\ Bare(Rest(got)) \in Seq(Symbol)
    BY <1>1, <1>4, <2>1, TextOfRest
  <2>3. AreLines(lines', left' \o taken')
    BY <1>2, <1>7, <2>1, <2>2, LinesOfNewline DEF IInv
  <2>4. Rest(left' \o taken') = << >>
    BY <1>2, RestOfNewline
  <2>5. Holds(Rest(left \o taken))'
    BY <1>3, <2>4, EmptySeq DEF Holds
  <2> QED
    BY <1>1, <1>2, <1>3, <1>5, <1>7, <1>8, <2>3, <2>5, Numbers
       DEF IInv, TypeOK, Holding, LinesFaithful
<1>10. CASE ~connected
  BY <1>1, <1>2, <1>3, <1>5, <1>7, <1>8, <1>10, Numbers
     DEF IInv, TypeOK, Holding, LinesFaithful
<1> QED
  BY <1>9, <1>10

\* What Keep makes of the buffer.
LEMMA KeepShape ==
    ASSUME TypeOK, NEW b \in Byte \cup {CR, Zero}, Keep(b)
    PROVE  /\ buff' \in [Place -> Byte \cup {CR, Zero}] /\ buffpos' \in Place
           /\ connected' => /\ connected /\ buffpos' = buffpos + 1
           /\ connected' \in BOOLEAN
           /\ b # Zero /\ Clean /\ ~Stuck => Clean'
           /\ \A i \in Place : buff'[i] = IF i = buffpos THEN b ELSE buff[i]
<1>1. buff' = [buff EXCEPT ![buffpos] = b]
  BY DEF Keep
<1>2. /\ buff' \in [Place -> Byte \cup {CR, Zero}]
      /\ \A i \in Place : buff'[i] = IF i = buffpos THEN b ELSE buff[i]
  BY <1>1 DEF TypeOK
<1>3. \/ buffpos > Size /\ buffpos' = 1 /\ connected' = FALSE
      \/ buffpos <= Size /\ buffpos' = buffpos + 1 /\ connected' = connected
  BY DEF Keep
<1>4. buffpos \in Nat /\ buffpos \in Place /\ buffpos' \in Place
  BY <1>3, LineReaderAssumption DEF TypeOK, Place
<1>5. ASSUME b # Zero, Clean, ~Stuck
      PROVE  Clean'
  <2> SUFFICES ASSUME NEW i \in Place, i < buffpos'
               PROVE  buff'[i] # Zero
    BY DEF Clean
  <2>1. i = buffpos \/ i < buffpos
    BY <1>3, <1>4, Numbers
  <2> QED
    BY <1>2, <1>5, <2>1 DEF Clean
<1>6. connected' => /\ connected /\ buffpos' = buffpos + 1
  BY <1>3
<1>7. connected' \in BOOLEAN
  BY <1>3 DEF TypeOK
<1> QED
  BY <1>2, <1>4, <1>5, <1>6, <1>7

\* Any other byte is received.
LEMMA OtherByteOK ==
    ASSUME IInv, OtherByte
    PROVE  IInv'
<1> DEFINE got == left \o taken
           b == Head(stream)
<1>1. TypeOK /\ Clean /\ ~Stuck
  BY DEF IInv, OtherByte, Stuck
<1>2. /\ b \in Byte \cup {CR} /\ b # LF /\ b # Zero /\ b \in Byte \cup {LF, CR}
      /\ Tail(stream) \in Seq(Byte \cup {LF, CR})
  BY <1>1, HeadTailProperties, LineReaderAssumption DEF TypeOK, OtherByte
<1>3. /\ stream' = Tail(stream) /\ taken' = Append(taken, b) /\ Keep(b)
      /\ ended' = ended /\ reading' = reading /\ lines' = lines /\ left' = left
  BY DEF OtherByte, Keep, past
<1> HIDE DEF b
<1>4. /\ buff' \in [Place -> Byte \cup {CR, Zero}] /\ buffpos' \in Place
      /\ connected' => connected /\ buffpos' = buffpos + 1
      /\ connected' \in BOOLEAN /\ Clean'
      /\ \A i \in Place : buff'[i] = IF i = buffpos THEN b ELSE buff[i]
  BY <1>1, <1>2, <1>3, KeepShape
<1>5. /\ got \in Seq(Symbol) /\ left' \o taken' = Append(got, b) /\ b \in Symbol
      /\ taken' \in Seq(Byte \cup {LF, CR})
  BY <1>1, <1>2, <1>3, TakenGrows DEF IInv, TypeOK
<1>6. TypeOK'
  BY <1>1, <1>2, <1>3, <1>4, <1>5 DEF TypeOK
<1>7. ASSUME connected'
      PROVE  AreLines(lines', left' \o taken') /\ Holds(Rest(left \o taken))'
  <2>1. Holds(Rest(got)) /\ AreLines(lines, got)
    BY <1>1, <1>4, <1>7 DEF IInv, Holding, LinesFaithful
  <2> HIDE DEF got
  <2> DEFINE q == Rest(got)
  <2>2. Rest(left' \o taken') = Append(q, b) /\ q \in Seq(Symbol)
    BY <1>2, <1>5, RestOfOther, RestShape
  <2> HIDE DEF q
  <2>3. /\ Len(Append(q, b)) = Len(q) + 1 /\ Len(q) \in Nat
        /\ \A i \in 1 .. Len(q) : Append(q, b)[i] = q[i]
        /\ Append(q, b)[Len(q) + 1] = b
    BY <1>5, <2>2, AppendProperties, LenProperties
  <2>4. buffpos = Len(q) /\ \A i \in 1 .. Len(q) : buff[i - 1] = q[i]
    BY <2>1 DEF Holds, q
  <2>5. ASSUME NEW i \in 1 .. Len(q) + 1
        PROVE  buff'[i - 1] = Append(q, b)[i]
    <3>1. i - 1 \in Place
      BY <1>1, <2>3, <2>4, LineReaderAssumption DEF TypeOK, Place
    <3> QED
      BY <1>4, <2>3, <2>4, <2>5, <3>1
  <2>6. /\ buffpos' = Len(Append(q, b))
        /\ \A i \in 1 .. Len(Append(q, b)) : buff'[i - 1] = Append(q, b)[i]
    <3>1. buffpos' = Len(q) + 1
      BY <1>4, <1>7, <2>4
    <3> QED
      BY <2>3, <2>5, <3>1
  <2>7. AreLines(lines', left' \o taken')
    BY <1>2, <1>3, <1>5, <2>1, LinesOfOther
  <2> QED
    BY <2>2, <2>6, <2>7 DEF Holds
<1> QED
  BY <1>3, <1>4, <1>6, <1>7 DEF IInv, Holding, LinesFaithful

\* After the end of the stream nothing of this is promised any more.
LEMMA EndOfStreamOK ==
    ASSUME IInv, EndOfStream
    PROVE  IInv'
<1>1. TypeOK /\ buff[buffpos] \in Byte \cup {CR, Zero}
  BY DEF IInv, TypeOK
<1>2. Stuck' /\ Keep(buff[buffpos]) /\ lines' = lines /\ left' = left /\ taken' = taken
  BY DEF EndOfStream, Keep, Stuck, past
<1>3. /\ buff' \in [Place -> Byte \cup {CR, Zero}] /\ buffpos' \in Place
      /\ connected' => connected /\ connected' \in BOOLEAN
  BY <1>1, <1>2, KeepShape
<1>4. TypeOK'
  BY <1>1, <1>2, <1>3 DEF TypeOK, EndOfStream, Keep
<1> QED
  BY <1>2, <1>3, <1>4 DEF IInv, Clean, Holding, LinesFaithful

\* A new connection finds in the buffer what the old one left there.
LEMMA ReconnectOK ==
    ASSUME IInv, Reconnect
    PROVE  IInv'
<1>1. buffpos \in Nat /\ buffpos \in Place
  BY Numbers DEF IInv, TypeOK
<1>2. \A i \in 1 .. buffpos : i - 1 \in Place /\ buff[i - 1] \in Symbol /\ buff[i - 1] # LF
  <2> SUFFICES ASSUME NEW i \in 1 .. buffpos
               PROVE  i - 1 \in Place /\ buff[i - 1] \in Symbol /\ buff[i - 1] # LF
    OBVIOUS
  <2>1. i - 1 \in Place
    BY <1>1, LineReaderAssumption DEF Place
  <2> QED
    BY <2>1, LineReaderAssumption DEF IInv, TypeOK, Symbol
<1>3. /\ Held \in Seq(Symbol) /\ Len(Held) = buffpos
      /\ \A i \in 1 .. buffpos : Held[i] = buff[i - 1]
  BY <1>1, <1>2 DEF Held
<1>4. Ends(Held) = {}
  BY <1>2, <1>3, LenProperties DEF Ends
<1>5. left' \o taken' = Held /\ Rest(Held) = Held /\ AreLines(<< >>, Held)
  BY <1>3, <1>4, NoLines, ConcatEmptySeq DEF Reconnect
<1>6. Holds(Rest(left \o taken))' /\ AreLines(lines', left' \o taken')
  BY <1>3, <1>5 DEF Holds, Reconnect
<1>7. /\ << >> \in Seq(Byte \cup {LF, CR}) /\ << >> \in Seq(Seq(Symbol))
  BY EmptySeq
<1>8. TypeOK'
  BY <1>7 DEF Reconnect, IInv, TypeOK
<1>9. ~Stuck /\ Clean'
  BY DEF Reconnect, IInv, Clean, Stuck
<1> QED
  BY <1>3, <1>6, <1>7, <1>8, <1>9 DEF IInv, Holding, LinesFaithful, Reconnect

\* Every byte read, every call and every lost connection keeps the invariant.
LEMMA NextIInv == IInv /\ [Next]_vars => IInv'
<1> SUFFICES ASSUME IInv, [Next]_vars
             PROVE  IInv'
  OBVIOUS
<1>1. ASSUME UNCHANGED <<buff, buffpos, lines, taken, left>>,
             stream' \in Seq(Byte \cup {LF, CR}), ended' \in BOOLEAN, reading' \in BOOLEAN,
             connected' \in BOOLEAN, connected' => connected, Stuck => Stuck'
      PROVE  IInv'
  BY <1>1 DEF IInv, TypeOK, Clean, Holding, Holds, LinesFaithful
<1>2. CASE UNCHANGED vars
  BY <1>1, <1>2 DEF vars, past, IInv, TypeOK, Stuck
<1>3. ASSUME NEW b \in Byte \cup {LF, CR}, Send(b)
      PROVE  IInv'
  BY <1>1, <1>3, AppendProperties DEF Send, past, IInv, TypeOK, Stuck
<1>4. CASE Close \/ Readable \/ Disconnected
  BY <1>1, <1>4 DEF Close, Readable, Disconnected, past, IInv, TypeOK, Stuck
<1>5. CASE WouldBlock
  BY <1>1, <1>5 DEF WouldBlock, past, IInv, TypeOK, Stuck
<1> QED
  BY <1>2, <1>3, <1>4, <1>5, LineEndOK, OtherByteOK, EndOfStreamOK, ReconnectOK
     DEF Next, getline_server

\* The strengthened invariant holds.
THEOREM LinesInvariance == Spec => []IInv
<1> QED
  BY InitIInv, NextIInv, PTL DEF Spec

\* However the stream is cut and however often the connection is lost, the
\* lines handed to the parser are the lines of what the buffer held when the
\* connection was made and of the bytes received since.
THEOREM LinesAreFaithful == Spec => []LinesFaithful
<1>1. IInv => LinesFaithful
  BY DEF IInv
<1> QED
  BY <1>1, LinesInvariance, PTL

\* The buffer holds the beginning of the next line and nothing else.
THEOREM BufferHoldsRest == Spec => []BufferIsRest
<1>1. IInv => BufferIsRest
  BY DEF IInv, Holding, BufferIsRest, Stuck
<1> QED
  BY <1>1, LinesInvariance, PTL

-----------------------------------------------------------------------------
(* match(): every turn that returns nothing takes it further, on in the    *)
(* mask or, back at the star, on in the name.  Further measures that, and  *)
(* the turns are no more than it.                                          *)

Width == Len(mask) + 1

\* How far match() is: a place in the name counts for all of the mask.
Further(s) == (s.na - 1) * Width + (s.m - 1)

Places == [m : 1 .. Len(mask) + 1, ma : 1 .. Len(mask) + 1,
           n : 1 .. Len(name) + 1, na : 1 .. Len(name) + 1,
           wild : BOOLEAN, quote : 0 .. 2]

\* The pointers are in the strings, and not before what the star has left.
Placed(s) == s \in Places /\ s.ma <= s.m /\ s.na <= s.n

\* On in the mask is on in the name, but for an escape.
Along(s) == s.m > s.ma => s.n > s.na \/ s.quote = 1

Advanced(s, mm, nn) == [s EXCEPT !.m = mm, !.n = nn]

Strings ==
    /\ mask \in Seq(DOMAIN Lower)
    /\ name \in Seq(DOMAIN Lower)

MatchInv ==
    /\ Strings
    /\ MatchTypeOK
    /\ calls \in Nat
    /\ result = "none" => Placed(at) /\ Along(at) /\ calls <= Further(at)
    /\ result = "gave up" => MaxCalls < Width * (Len(name) + 1)

-----------------------------------------------------------------------------
(* Arithmetic *)

\* What is less than a number is not at least that.
LEMMA LessIsNotMore ==
    ASSUME NEW x \in Nat, NEW y \in Nat, x < y
    PROVE  ~(y <= x)
OBVIOUS

\* One more row is one width more.
LEMMA OneRow ==
    ASSUME NEW a \in Nat, NEW w \in Nat
    PROVE  (a + 1) * w = a * w + w /\ a * w \in Nat
OBVIOUS

\* No fewer rows are no less.
LEMMA MoreRows ==
    ASSUME NEW a \in Nat, NEW b \in Nat, NEW w \in Nat, a <= b
    PROVE  a * w <= b * w
<1>1. PICK d \in Nat : b = a + d
  BY b - a \in Nat
<1>2. b * w = a * w + d * w /\ d * w \in Nat /\ a * w \in Nat
  BY <1>1
<1> QED
  BY <1>2

-----------------------------------------------------------------------------
(* Strings *)

\* What is not the end is a place of the string.
LEMMA CharIsInside ==
    ASSUME NEW s \in Seq(DOMAIN Lower), NEW i \in 1 .. Len(s) + 1, Char(s, i) # NUL
    PROVE  i <= Len(s)
BY DEF Char

\* Behind any place the stars come to an end, at the end of the mask if not before.
LEMMA StarsEnd ==
    ASSUME MatchAssumption, Strings, NEW i \in 1 .. Len(mask) + 1
    PROVE  /\ PastStars(i) \in i .. Len(mask) + 1
           /\ Char(mask, PastStars(i)) # Star
<1> DEFINE T == {j \in i .. Len(mask) + 1 : Char(mask, j) # Star}
<1>1. Len(mask) \in Nat /\ DOMAIN mask = 1 .. Len(mask)
  BY DEF Strings
<1>2. Len(mask) + 1 \in T
  BY <1>1 DEF Char, MatchAssumption
<1>3. T \subseteq Nat
  BY <1>1
<1>4. PICK j \in T : \A k \in T : j <= k
  BY <1>2, <1>3, LeastNumber
<1>5. \A k \in i .. j - 1 : mask[k] = Star
  <2> SUFFICES ASSUME NEW k \in i .. j - 1
               PROVE  mask[k] = Star
    OBVIOUS
  <2>1. k \in 1 .. Len(mask) /\ k \in i .. Len(mask) + 1 /\ ~(j <= k)
    BY <1>1
  <2>2. k \notin T
    BY <1>4, <2>1
  <2> QED
    BY <2>1, <2>2, <1>1 DEF Char
<1>6. \E p \in i .. Len(mask) + 1 :
         Char(mask, p) # Star /\ \A k \in i .. p - 1 : mask[k] = Star
  BY <1>4, <1>5
<1> QED
  BY <1>6 DEF PastStars

\* The way back ends in the mask, and before it only if there is nothing in it.
LEMMA WalkEnds ==
    ASSUME Strings
    PROVE  /\ WalkedBack \in 0 .. Len(mask)
           /\ WalkedBack = 0 => mask = << >>
<1> DEFINE T == {j \in 0 .. Len(mask) :
                    \A i \in Len(mask) - j + 1 .. Len(mask) : i > 1 /\ mask[i] = One}
           U == {j \in 0 .. Len(mask) :
                    ~(Len(mask) - j > 1 /\ mask[Len(mask) - j] = One)}
<1>1. Len(mask) \in Nat /\ DOMAIN mask = 1 .. Len(mask)
  BY DEF Strings
<1>2. CASE Len(mask) = 0
  <2>1. mask = << >>
    BY <1>1, <1>2 DEF Strings
  <2>2. \E k \in 0 .. Len(mask) :
           /\ ~(k > 1 /\ mask[k] = One)
           /\ \A i \in k + 1 .. Len(mask) : i > 1 /\ mask[i] = One
    BY <1>2
  <2> QED
    BY <2>1, <2>2 DEF WalkedBack
<1>3. CASE Len(mask) # 0
  <2>1. Len(mask) - 1 \in U /\ U \subseteq Nat
    BY <1>1, <1>3
  <2>2. PICK j \in U : \A k \in U : j <= k
    BY <2>1, LeastNumber
  <2> DEFINE w == Len(mask) - j
  <2>3. w \in 1 .. Len(mask) /\ ~(w > 1 /\ mask[w] = One)
    BY <1>1, <1>3, <2>1, <2>2
  <2>4. \A i \in w + 1 .. Len(mask) : i > 1 /\ mask[i] = One
    <3> SUFFICES ASSUME NEW i \in w + 1 .. Len(mask)
                 PROVE  i > 1 /\ mask[i] = One
      OBVIOUS
    <3>1. Len(mask) - i \in 0 .. Len(mask) /\ ~(j <= Len(mask) - i)
      BY <1>1, <2>2, <2>3
    <3>2. Len(mask) - i \notin U
      BY <2>2, <3>1
    <3>3. Len(mask) - (Len(mask) - i) = i
      BY <1>1, <2>3
    <3> QED
      BY <3>1, <3>2, <3>3
  <2> HIDE DEF w
  <2>5. \E k \in 0 .. Len(mask) :
           /\ ~(k > 1 /\ mask[k] = One)
           /\ \A i \in k + 1 .. Len(mask) : i > 1 /\ mask[i] = One
    BY <2>3, <2>4
  <2>6. /\ WalkedBack \in 0 .. Len(mask)
        /\ \A i \in WalkedBack + 1 .. Len(mask) : i > 1 /\ mask[i] = One
    BY <2>5 DEF WalkedBack
  <2>7. WalkedBack # 0
    BY <1>1, <1>3, <2>6
  <2> QED
    BY <2>6, <2>7
<1> QED
  BY <1>2, <1>3

-----------------------------------------------------------------------------
(* The parts of a turn *)

\* A star takes match() no way back.
LEMMA StarredOn ==
    ASSUME MatchAssumption, Strings, NEW s, Placed(s)
    PROVE  /\ Placed(Starred(s))
           /\ Further(s) <= Further(Starred(s))
           /\ AtStar(s) => Starred(s).m = Starred(s).ma /\ Starred(s).n = Starred(s).na
           /\ ~AtStar(s) => Starred(s) = s
<1>1. CASE ~AtStar(s)
  <2>1. Starred(s) = s
    BY <1>1 DEF Starred
  <2>2. Further(s) \in Int
    BY DEF Further, Width, Placed, Places, Strings
  <2> QED
    BY <1>1, <2>1, <2>2
<1>2. CASE AtStar(s)
  <2> DEFINE j == PastStars(s.m)
             escaped == Char(mask, j) = Escape
             k == IF escaped THEN j + 1 ELSE j
             t == [m |-> k, n |-> s.n, ma |-> k, na |-> s.n, wild |-> TRUE,
                   quote |-> IF escaped THEN 2 ELSE s.quote]
  <2>1. Starred(s) = t
    BY <1>2 DEF Starred
  <2>2. s.m \in 1 .. Len(mask) + 1 /\ Len(mask) \in Nat /\ Len(name) \in Nat
    BY DEF Placed, Places, Strings
  <2>3. j \in s.m .. Len(mask) + 1
    BY <2>2, StarsEnd
  <2>4. escaped => j <= Len(mask)
    BY <2>2, <2>3, CharIsInside DEF Strings, MatchAssumption
  <2>5. k \in s.m .. Len(mask) + 1
    BY <2>2, <2>3, <2>4
  <2> HIDE DEF k, j
  <2>6. Placed(t)
    BY <2>2, <2>5 DEF Placed, Places
  <2>7. (s.na - 1) * Width <= (s.n - 1) * Width
    <3>1. s.na - 1 \in Nat /\ s.n - 1 \in Nat /\ s.na - 1 <= s.n - 1 /\ Width \in Nat
      BY <2>2 DEF Placed, Places, Width
    <3> QED
      BY <3>1, MoreRows
  <2>8. Further(s) <= Further(t)
    <3>1. (s.na - 1) * Width \in Int /\ (s.n - 1) * Width \in Int
      BY <2>2 DEF Placed, Places, Width
    <3>2. s.m \in Int /\ k \in Int /\ s.m <= k
      BY <2>2, <2>5
    <3>3. Further(s) = (s.na - 1) * Width + (s.m - 1)
      BY DEF Further
    <3>4. Further(t) = (s.n - 1) * Width + (k - 1)
      BY DEF Further
    <3> QED
      BY <2>7, <3>1, <3>2, <3>3, <3>4
  <2> QED
    BY <1>2, <2>1, <2>6, <2>8
<1> QED
  BY <1>1, <1>2

\* Back at the star match() is further on, as long as the name has not ended there.
LEMMA RetryOn ==
    ASSUME Strings, NEW s, Placed(s), s.na <= Len(name)
    PROVE  /\ Placed(Retry(s))
           /\ Retry(s).m = Retry(s).ma
           /\ Further(s) + 1 <= Further(Retry(s))
           /\ Retry(s).ma = s.ma /\ Retry(s).na = s.na + 1 /\ Retry(s).n = s.na + 1
           /\ Retry(s).quote = s.quote /\ Retry(s).wild = s.wild
<1>1. Len(mask) \in Nat /\ Len(name) \in Nat
  BY DEF Strings
<1>2. /\ Retry(s).m = s.ma /\ Retry(s).ma = s.ma
      /\ Retry(s).n = s.na + 1 /\ Retry(s).na = s.na + 1
      /\ Retry(s).quote = s.quote /\ Retry(s).wild = s.wild
  BY <1>1 DEF Retry, Placed, Places
<1>3. Placed(Retry(s))
  <2>1. s \in Places /\ s.ma \in 1 .. Len(mask) + 1 /\ s.na + 1 \in 1 .. Len(name) + 1
    BY <1>1 DEF Placed, Places
  <2>2. [s EXCEPT !.m = s.ma] \in Places
    BY <2>1 DEF Places
  <2>3. [s EXCEPT !.m = s.ma, !.n = s.na + 1] \in Places
    BY <2>1 DEF Places
  <2>4. Retry(s) \in Places
    BY <2>1, <2>3 DEF Retry, Places
  <2> QED
    BY <1>1, <1>2, <2>4 DEF Placed, Places
<1>4. /\ s.na - 1 \in Nat /\ s.na \in Int /\ Width \in Nat
      /\ s.m - s.ma < Width /\ s.m \in Int /\ s.ma \in Int
  BY <1>1 DEF Placed, Places, Width
<1>5. ((s.na - 1) + 1) * Width = (s.na - 1) * Width + Width /\ (s.na - 1) * Width \in Nat
  BY <1>4, OneRow
<1>6. Retry(s).na - 1 = (s.na - 1) + 1 /\ Retry(s).m = s.ma
  BY <1>2, <1>4
<1>7. Further(Retry(s)) = ((s.na - 1) + 1) * Width + (s.ma - 1)
  BY <1>6 DEF Further
<1>8. Further(s) + 1 <= Further(Retry(s))
  <2> DEFINE p == (s.na - 1) * Width
             q == ((s.na - 1) + 1) * Width
  <2>1. Further(s) = p + (s.m - 1) /\ Further(Retry(s)) = q + (s.ma - 1)
    BY <1>7 DEF Further
  <2>2. q = p + Width /\ p \in Nat
    BY <1>5
  <2> HIDE DEF p, q
  <2> QED
    BY <1>4, <2>1, <2>2
<1> QED
  BY <1>2, <1>3, <1>8

\* A turn begins in place and goes along, an escape of the turn before aged.
LEMMA TurnBegins ==
    ASSUME MatchAssumption, MatchInv, result = "none"
    PROVE  /\ Placed([at EXCEPT !.quote = Aged(@)])
           /\ Placed(Now)
           /\ Further(at) <= Further(Now)
           /\ Now.quote = 0 => (Now.m > Now.ma => Now.n > Now.na)
<1> DEFINE s == [at EXCEPT !.quote = Aged(@)]
<1>1. at \in Places /\ Strings /\ Placed(at) /\ Along(at)
  BY DEF MatchInv, Placed
<1>2. Aged(at.quote) \in 0 .. 2 /\ (Aged(at.quote) = 0 => at.quote # 1)
  BY <1>1 DEF Aged, Places
<1>3. /\ s = [m |-> at.m, ma |-> at.ma, n |-> at.n, na |-> at.na, wild |-> at.wild,
              quote |-> Aged(at.quote)]
      /\ s \in Places
  BY <1>1, <1>2 DEF Places
<1>4. s.m = at.m /\ s.ma = at.ma /\ s.n = at.n /\ s.na = at.na /\ s.quote = Aged(at.quote)
  BY <1>3
<1> HIDE DEF s
<1>5. Placed(s) /\ Further(s) = Further(at)
  BY <1>1, <1>3, <1>4 DEF Placed, Further
<1>6. Now = Starred(s)
  BY DEF Now, s
<1>7. s.quote = 0 => (s.m > s.ma => s.n > s.na)
  BY <1>1, <1>2, <1>4 DEF Along
<1>8. Placed(Now) /\ Further(s) <= Further(Now)
  BY <1>1, <1>5, <1>6, StarredOn
<1>9. Now.quote = 0 => (Now.m > Now.ma => Now.n > Now.na)
  <2>1. CASE AtStar(s)
    <3>1. Now.m = Now.ma /\ Now.ma \in Int
      BY <1>1, <1>5, <1>6, <1>8, <2>1, StarredOn, SMTT(30) DEF Placed, Places
    <3> QED
      BY <3>1
  <2>2. CASE ~AtStar(s)
    <3>1. Now = s
      BY <1>1, <1>5, <1>6, <2>2, StarredOn
    <3> QED
      BY <1>7, <3>1
  <2> QED
    BY <2>1, <2>2
<1> QED
  BY <1>5, <1>8, <1>9 DEF s

\* On by so much in the mask and in the name.
LEMMA AdvanceOn ==
    ASSUME Strings, NEW s, Placed(s),
           NEW mm \in s.m .. Len(mask) + 1, NEW nn \in s.n .. Len(name) + 1,
           NEW t, t = Advanced(s, mm, nn)
    PROVE  /\ Placed(t)
           /\ t.m = mm /\ t.ma = s.ma /\ t.n = nn /\ t.na = s.na
           /\ Further(t) = Further(s) + (mm - s.m)
<1>1. /\ Len(mask) \in Nat /\ Len(name) \in Nat /\ s \in Places
      /\ mm \in 1 .. Len(mask) + 1 /\ nn \in 1 .. Len(name) + 1
  BY DEF Strings, Placed, Places
<1>2. t.m = mm /\ t.ma = s.ma /\ t.n = nn /\ t.na = s.na
  BY <1>1 DEF Places, Advanced
<1>3. t \in Places
  BY <1>1 DEF Places, Advanced
<1>4. s.ma <= mm /\ s.na <= nn
  BY <1>1 DEF Placed, Places
<1>5. Placed(t)
  BY <1>2, <1>3, <1>4 DEF Placed
<1>6. Further(t) = Further(s) + (mm - s.m)
  <2> DEFINE p == (s.na - 1) * Width
  <2>1. Further(s) = p + (s.m - 1) /\ Further(t) = p + (mm - 1)
    BY <1>2 DEF Further
  <2>2. p \in Int /\ s.m \in Int /\ mm \in Int
    BY <1>1 DEF Places, Width
  <2> HIDE DEF p
  <2> QED
    BY <2>1, <2>2
<1> QED
  BY <1>2, <1>5, <1>6

\* Two characters compared, in the middle of both strings.
LEMMA CharacterOn ==
    ASSUME Strings, NEW s, Placed(s), s.m <= Len(mask), s.n <= Len(name),
           Compared(s), result' = "none"
    PROVE  Placed(at') /\ Along(at') /\ Further(s) + 1 <= Further(at')
<1>1. /\ Len(mask) \in Nat /\ Len(name) \in Nat
      /\ s.m \in 1 .. Len(mask) /\ s.n \in 1 .. Len(name)
      /\ s.ma \in 1 .. s.m /\ s.na \in 1 .. s.n
      /\ Further(s) \in Int
  BY DEF Strings, Placed, Places, Further, Width
<1>2. CASE SameChar(s)
  <2> DEFINE mm == IF Ended(mask, s.m) THEN s.m ELSE s.m + 1
             nn == IF Ended(name, s.n) THEN s.n ELSE s.n + 1
             r == Advanced(s, mm, nn)
  <2>1. at' = r
    BY <1>2 DEF Compared, Advanced
  <2>2. /\ mm = s.m + 1 /\ nn = s.n + 1
        /\ mm \in s.m .. Len(mask) + 1 /\ nn \in s.n .. Len(name) + 1
    BY <1>1 DEF Ended
  <2> HIDE DEF mm, nn
  <2>3. /\ Placed(r) /\ r.n = nn /\ r.na = s.na
        /\ Further(r) = Further(s) + (mm - s.m)
    BY <2>2, AdvanceOn
  <2> HIDE DEF r
  <2>4. s.n + 1 > s.na /\ mm - s.m = 1
    BY <1>1, <2>2
  <2>5. Along(r)
    BY <2>2, <2>3, <2>4 DEF Along
  <2> QED
    BY <1>1, <2>1, <2>3, <2>4, <2>5
<1>3. CASE ~SameChar(s)
  <2>1. at' = Retry(s)
    BY <1>3 DEF Compared
  <2>2. s.na <= Len(name)
    BY <1>1
  <2>3. Placed(at') /\ at'.m = at'.ma /\ Further(s) + 1 <= Further(at')
    BY <2>1, <2>2, RetryOn
  <2> QED
    BY <2>3 DEF Along, Placed, Places
<1> QED
  BY <1>2, <1>3

\* Two characters compared where the star has left off. Where the name has ended
\* the mask must have, too, or match() would go on behind the name.
LEMMA BackOn ==
    ASSUME Strings, NEW s, Placed(s), s.m = s.ma, s.n = s.na,
           s.na <= Len(name) \/ s.ma = Len(mask) + 1,
           Compared(s), result' = "none"
    PROVE  Placed(at') /\ Along(at') /\ Further(s) <= Further(at')
<1>1. /\ Len(mask) \in Nat /\ Len(name) \in Nat
      /\ s.m \in 1 .. Len(mask) + 1 /\ s.n \in 1 .. Len(name) + 1
      /\ Further(s) \in Int
  BY DEF Strings, Placed, Places, Further, Width
<1>2. CASE SameChar(s)
  <2> DEFINE mm == IF Ended(mask, s.m) THEN s.m ELSE s.m + 1
             nn == IF Ended(name, s.n) THEN s.n ELSE s.n + 1
             r == Advanced(s, mm, nn)
  <2>1. at' = r
    BY <1>2 DEF Compared, Advanced
  <2>2. /\ mm \in s.m .. Len(mask) + 1 /\ nn \in s.n .. Len(name) + 1
        /\ mm > s.m => nn > s.n
    BY <1>1 DEF Ended
  <2> HIDE DEF mm, nn
  <2>3. /\ Placed(r) /\ r.m = mm /\ r.ma = s.ma /\ r.n = nn /\ r.na = s.na
        /\ Further(r) = Further(s) + (mm - s.m)
    BY <2>2, AdvanceOn
  <2> HIDE DEF r
  <2> QED
    BY <1>1, <2>1, <2>2, <2>3 DEF Along
<1>3. CASE ~SameChar(s)
  <2>1. at' = Retry(s)
    BY <1>3 DEF Compared
  <2>2. s.na <= Len(name)
    <3>1. SUFFICES ASSUME s.ma = Len(mask) + 1, s.n = Len(name) + 1
                   PROVE  FALSE
      BY <1>1
    <3>2. Char(mask, s.m) = NUL /\ Char(name, s.n) = NUL
      BY <1>1, <3>1 DEF Char, Strings
    <3> QED
      BY <1>3, <3>2 DEF SameChar
  <2>3. Placed(at') /\ at'.m = at'.ma /\ Further(s) + 1 <= Further(at')
    BY <2>1, <2>2, RetryOn
  <2>4. Further(at') \in Int
    <3>1. at'.na \in Nat /\ at'.m \in Nat
      BY <2>3, <1>1 DEF Placed, Places, Strings
    <3>2. Width \in Nat
      BY <1>1 DEF Width, Strings
    <3> QED
      BY <3>1, <3>2 DEF Further
  <2> QED
    BY <1>1, <2>3, <2>4 DEF Along, Placed, Places
<1> QED
  BY <1>2, <1>3

-----------------------------------------------------------------------------
(* The invariant *)

\* What has been gone through is never more than what there is.
LEMMA NeverAll ==
    ASSUME Strings, NEW s, Placed(s)
    PROVE  /\ Further(s) \in Nat /\ Width * (Len(name) + 1) \in Nat
           /\ Further(s) < Width * (Len(name) + 1)
<1>1. /\ s.na - 1 \in Nat /\ s.na - 1 <= Len(name) /\ Len(name) \in Nat
      /\ s.m - 1 \in Nat /\ s.m - 1 < Width /\ Width \in Nat
  BY DEF Strings, Placed, Places, Width
<1>2. (s.na - 1) * Width <= Len(name) * Width /\ (s.na - 1) * Width \in Nat
  BY <1>1, MoreRows, OneRow
<1>3. (Len(name) + 1) * Width = Len(name) * Width + Width /\ Len(name) * Width \in Nat
  BY <1>1, OneRow
<1>4. Width * (Len(name) + 1) = (Len(name) + 1) * Width
  BY <1>1
<1> DEFINE p == (s.na - 1) * Width
           q == Len(name) * Width
<1>5. Further(s) = p + (s.m - 1) /\ p <= q /\ p \in Nat /\ q \in Nat
  BY <1>2, <1>3 DEF Further
<1>6. Width * (Len(name) + 1) = q + Width
  BY <1>3, <1>4
<1> HIDE DEF p, q
<1> QED
  BY <1>1, <1>5, <1>6

\* The lengths of the mask and the name, each with its end, have a product.
LEMMA AllOfBoth ==
    ASSUME Strings
    PROVE  (Len(mask) + 1) * (Len(name) + 1) \in Nat
<1>1. Len(mask) + 1 \in Nat /\ Len(name) + 1 \in Nat
  BY DEF Strings
<1> QED
  BY <1>1

\* A turn that returns nothing is a turn further.
LEMMA TurnGoesOn ==
    ASSUME MatchAssumption, MatchInv, MatchNext, result = "none", result' = "none"
    PROVE  /\ Placed(at') /\ Along(at')
           /\ Further(at) + 1 <= Further(at')
<1>1. /\ Strings /\ Placed(at) /\ at \in Places
      /\ Len(mask) \in Nat /\ Len(name) \in Nat /\ Further(at) \in Int
  <2>1. Strings /\ Placed(at)
    BY DEF MatchInv
  <2> QED
    BY <2>1, NeverAll DEF Strings, Placed
<1>2. /\ Placed(Now) /\ Further(at) <= Further(Now) /\ Further(Now) \in Int
      /\ Now.quote = 0 => (Now.m > Now.ma => Now.n > Now.na)
      /\ Now.m \in 1 .. Len(mask) + 1 /\ Now.n \in 1 .. Len(name) + 1
      /\ Now.ma \in 1 .. Now.m /\ Now.na \in 1 .. Now.n
  <2>1. /\ Placed(Now) /\ Further(at) <= Further(Now)
        /\ Now.quote = 0 => (Now.m > Now.ma => Now.n > Now.na)
    BY TurnBegins
  <2>2. Further(Now) \in Int
    BY <1>1, <2>1, NeverAll
  <2>3. Now \in Places /\ Now.ma <= Now.m /\ Now.na <= Now.n
    BY <2>1 DEF Placed
  <2> HIDE DEF Now
  <2>4. /\ Now.m \in 1 .. Len(mask) + 1 /\ Now.n \in 1 .. Len(name) + 1
        /\ Now.ma \in 1 .. Now.m /\ Now.na \in 1 .. Now.n
    BY <1>1, <2>3 DEF Places
  <2> QED
    BY <2>1, <2>2, <2>4
<1>3. CASE Escaped
  <2> DEFINE s == [at EXCEPT !.quote = Aged(@)]
  <2>1. Char(mask, at.m) = Escape /\ at' = [at EXCEPT !.m = @ + 1, !.quote = 1]
    BY <1>1, <1>3 DEF Escaped, AtEscape, Places
  <2>2. at.m \in 1 .. Len(mask)
    BY <1>1, <2>1, CharIsInside DEF Places, Strings, MatchAssumption
  <2>3. /\ at' \in Places /\ at'.m = at.m + 1 /\ at'.quote = 1
        /\ at'.ma = at.ma /\ at'.n = at.n /\ at'.na = at.na
    <3>1. at.m + 1 \in 1 .. Len(mask) + 1 /\ 1 \in 0 .. 2
      BY <1>1, <2>2
    <3>2. at' = [[at EXCEPT !.m = at.m + 1] EXCEPT !.quote = 1]
      BY <2>1
    <3>3. [at EXCEPT !.m = at.m + 1] \in Places
      BY <1>1, <3>1 DEF Places
    <3>4. at' \in Places
      BY <3>1, <3>2, <3>3 DEF Places
    <3> QED
      BY <1>1, <3>2, <3>4 DEF Places
  <2>4. Placed(at') /\ Along(at')
    BY <1>1, <2>2, <2>3 DEF Placed, Places, Along
  <2> DEFINE p == (at.na - 1) * Width
  <2>5. Further(at) = p + (at.m - 1) /\ Further(at') = p + (at'.m - 1)
    BY <2>3 DEF Further
  <2>6. p \in Int
    BY <1>1 DEF Places, Width
  <2> HIDE DEF p
  <2> QED
    BY <2>2, <2>3, <2>4, <2>5, <2>6
<1>4. CASE MaskEndsEarly
  <2> DEFINE r == Retry(Now)
  <2>1. /\ Now.quote = 0 /\ Now.m > Len(mask) /\ Now.n <= Len(name) /\ Compared(r)
    BY <1>1, <1>2, <1>4 DEF MaskEndsEarly, WalksBack, Ended
  <2>2. Now.na <= Len(name)
    BY <1>1, <1>2, <2>1
  <2>3. /\ Placed(r) /\ r.m = r.ma /\ r.n = r.na /\ r.ma = Now.ma /\ r.na = Now.na + 1
        /\ Further(Now) + 1 <= Further(r)
    BY <1>1, <1>2, <2>2, RetryOn
  <2>4. r.na <= Len(name) \/ r.ma = Len(mask) + 1
    <3>1. CASE Now.na < Now.n
      BY <1>1, <1>2, <2>1, <2>3, <3>1
    <3>2. CASE Now.na = Now.n
      BY <1>1, <1>2, <2>1, <2>3, <3>2
    <3> QED
      BY <1>1, <1>2, <3>1, <3>2
  <2> HIDE DEF r
  <2>5. Placed(at') /\ Along(at') /\ Further(r) <= Further(at')
    BY <1>1, <2>1, <2>3, <2>4, BackOn
  <2>6. Further(r) \in Int /\ Further(at') \in Int
    BY <1>1, <2>3, <2>5, NeverAll
  <2> QED
    BY <1>1, <1>2, <2>3, <2>5, <2>6
<1>5. CASE Character
  <2>1. Now.m <= Len(mask) /\ Now.n <= Len(name) /\ Compared(Now)
    BY <1>1, <1>2, <1>5 DEF Character, Ended
  <2>2. Placed(at') /\ Along(at') /\ Further(Now) + 1 <= Further(at')
    BY <1>1, <1>2, <2>1, CharacterOn
  <2>3. Further(at') \in Int
    BY <1>1, <2>2, NeverAll
  <2> QED
    BY <1>1, <1>2, <2>2, <2>3
<1>6. ~InvalidMask /\ ~MaskEnds /\ ~NameEnds /\ ~GiveUp
  BY DEF InvalidMask, MaskEnds, NameEnds, GiveUp
<1> QED
  BY <1>3, <1>4, <1>5, <1>6 DEF MatchNext

\* Where match() returns at the end of the mask, its pointers are in the strings, or
\* the mask is empty.
LEMMA EndedWell ==
    ASSUME MatchAssumption, MatchInv, MaskEnds
    PROVE  MatchTypeOK'
<1> DEFINE w == IF WalksBack THEN WalkedBack ELSE Now.m
<1>1. Strings /\ Now \in Places /\ Len(mask) \in Nat /\ Len(name) \in Nat
  BY TurnBegins DEF MaskEnds, Turn, MatchInv, Placed, Strings
<1>2. mask' = mask /\ name' = name /\ result' \in {"yes", "no"}
  BY DEF MaskEnds, Turn
<1>3. at' = [Now EXCEPT !.m = w]
  BY DEF MaskEnds
<1>4. w \in 1 .. Len(mask) + 1 \/ (w = 0 /\ WalksBack /\ WalkedBack = 0)
  <2>1. Now.m \in 1 .. Len(mask) + 1
    BY <1>1 DEF Places
  <2> HIDE DEF Now
  <2>2. WalkedBack \in 0 .. Len(mask)
    BY <1>1, WalkEnds
  <2> QED
    BY <1>1, <2>1, <2>2
<1>5. WalksBack /\ WalkedBack = 0 => mask = << >> /\ name # << >> /\ result' = "no"
  <2>1. SUFFICES ASSUME WalksBack, WalkedBack = 0
                 PROVE  mask = << >> /\ name # << >> /\ result' = "no"
    OBVIOUS
  <2>2. ~Ended(name, Now.n) /\ ~OpenEnd
    BY <2>1 DEF WalksBack, OpenEnd
  <2>3. result' = "no"
    BY <2>2 DEF MaskEnds
  <2>4. name # << >>
    <3>1. Now.n \in 1 .. Len(name) + 1
      BY <1>1 DEF Places
    <3>2. Len(name) # 0
      BY <1>1, <2>2, <3>1 DEF Ended
    <3> QED
      BY <3>2
  <2> QED
    BY <1>1, <2>1, <2>3, <2>4, WalkEnds
<1> HIDE DEF w, Now
<1>6. /\ at'.m = w /\ at'.ma = Now.ma /\ at'.n = Now.n /\ at'.na = Now.na
      /\ at'.quote = Now.quote
  BY <1>1, <1>3 DEF Places
<1> QED
  BY <1>1, <1>2, <1>4, <1>5, <1>6 DEF MatchTypeOK, Places

\* A step of match() keeps the invariant.
LEMMA MatchStep ==
    ASSUME MatchAssumption, MatchInv, [MatchNext]_mvars
    PROVE  MatchInv'
<1>1. CASE UNCHANGED mvars
  BY <1>1 DEF mvars, MatchInv, MatchTypeOK, Strings, Placed, Places, Along, Further, Width
<1>2. CASE MatchNext
  <2>1. /\ mask' = mask /\ name' = name /\ result = "none"
        /\ result' \in {"none", "yes", "no", "gave up"}
    BY <1>2 DEF MatchNext, Escaped, InvalidMask, MaskEnds, NameEnds, MaskEndsEarly,
                Character, GiveUp, Turn, Compared
  <2>2. CASE result' = "none"
    <3>1. Placed(at') /\ Along(at') /\ Further(at) + 1 <= Further(at')
      BY <1>2, <2>1, <2>2, TurnGoesOn
    <3>2. calls' = calls + 1
      BY <1>2, <2>2 DEF MatchNext, Escaped, InvalidMask, MaskEnds, NameEnds, MaskEndsEarly,
                Character, GiveUp, Turn
    <3>3. calls \in Nat /\ calls <= Further(at) /\ Strings /\ Placed(at)
      BY <2>1 DEF MatchInv
    <3>4. Further(at) \in Nat /\ Further(at') \in Nat
      BY <3>1, <3>3, NeverAll
    <3>5. calls' \in Nat /\ calls' <= Further(at')
      BY <3>1, <3>2, <3>3, <3>4
    <3>6. Placed(at)' /\ Along(at)' /\ Strings' /\ Further(at)' = Further(at')
      BY <2>1, <3>1, <3>3 DEF Placed, Places, Along, Strings, Further, Width
    <3> QED
      BY <2>1, <2>2, <3>1, <3>5, <3>6 DEF MatchInv, MatchTypeOK, Placed, Places
  <2>3. CASE GiveUp
    <3>1. calls = MaxCalls /\ calls' = calls /\ at' = at /\ result' = "gave up"
      BY <2>3 DEF GiveUp
    <3>2. calls \in Nat /\ calls <= Further(at) /\ Strings /\ Placed(at)
      BY <2>1 DEF MatchInv
    <3>3. /\ Further(at) \in Nat /\ Width * (Len(name) + 1) \in Nat
          /\ Further(at) < Width * (Len(name) + 1)
      BY <3>2, NeverAll
    <3>4. MaxCalls < Width * (Len(name) + 1)
      <4> DEFINE p == Width * (Len(name) + 1)
      <4>1. p \in Nat /\ Further(at) < p /\ Further(at) \in Nat
        BY <3>3
      <4> HIDE DEF p
      <4>2. calls < p
        BY <3>2, <4>1
      <4>3. MaxCalls < p
        BY <3>1, <4>2
      <4> QED
        BY <4>3 DEF p
    <3> QED
      BY <2>1, <3>1, <3>2, <3>4 DEF MatchInv, MatchTypeOK, Strings, Placed, Places, Width
  <2>4. CASE result' \in {"yes", "no"}
    <3>1. calls' = calls + 1
      BY <1>2, <2>4 DEF MatchNext, Escaped, InvalidMask, MaskEnds, NameEnds, MaskEndsEarly,
                Character, GiveUp, Turn
    <3>2. calls' \in Nat
      <4>1. calls \in Nat
        BY DEF MatchInv
      <4> QED
        BY <3>1, <4>1
    <3>3. MaskEnds \/ at' = at
      BY <1>2, <2>1, <2>4 DEF MatchNext, Escaped, InvalidMask, NameEnds, MaskEndsEarly,
                Character, GiveUp, Compared
    <3>4. at' = at => MatchTypeOK'
      BY <2>1, <2>4 DEF MatchInv, MatchTypeOK, Placed, Places
    <3>5. MatchTypeOK'
      BY <3>3, <3>4, EndedWell
    <3> QED
      BY <2>1, <2>4, <3>2, <3>5 DEF MatchInv, Strings
  <2>5. result' = "gave up" => GiveUp
    BY <1>2, <2>1 DEF MatchNext, Escaped, InvalidMask, MaskEnds, NameEnds, MaskEndsEarly,
                Character, Compared
  <2> QED
    BY <2>1, <2>2, <2>3, <2>4, <2>5
<1> QED
  BY <1>1, <1>2

\* match() starts in the invariant.
LEMMA MatchStarts ==
    ASSUME MatchAssumption, MatchInit
    PROVE  MatchInv
<1>1. Strings
  BY DEF MatchInit, MatchAssumption, Strings
<1>2. /\ at.m = 1 /\ at.ma = 1 /\ at.n = 1 /\ at.na = 1 /\ at \in Places
  <2>1. 1 \in 1 .. Len(mask) + 1 /\ 1 \in 1 .. Len(name) + 1
    BY <1>1 DEF Strings
  <2> QED
    BY <2>1 DEF MatchInit, Start, Places
<1>3. Placed(at) /\ Along(at)
  BY <1>2 DEF Placed, Along
<1>4. calls <= Further(at) /\ calls \in Nat
  <2>1. calls = 0
    BY DEF MatchInit
  <2>2. Further(at) \in Nat
    BY <1>1, <1>3, NeverAll
  <2> QED
    BY <2>1, <2>2
<1> QED
  BY <1>1, <1>2, <1>3, <1>4 DEF MatchInv, MatchInit, MatchTypeOK, Places

-----------------------------------------------------------------------------
(* What match() does, for every mask, every name and every limit *)

\* The invariant holds in every state.
THEOREM MatchInvariance == MatchSpec => []MatchInv
<1>1. MatchInit => MatchInv
  BY MatchStarts, MatchAssumption
<1>2. MatchInv /\ [MatchNext]_mvars => MatchInv'
  BY MatchStep, MatchAssumption
<1> QED
  BY <1>1, <1>2, PTL DEF MatchSpec

\* In no turn does match() read behind the end of the mask or of the name, and
\* before the mask only where it is empty and the name is not.
THEOREM PointersStay == MatchSpec => []MatchTypeOK
<1>1. MatchInv => MatchTypeOK
  BY DEF MatchInv
<1> QED
  BY <1>1, MatchInvariance, PTL

\* The limit is never reached where the lengths of the mask and the name, each
\* with its end, multiply to no more: MATCH_MAX_CALLS bounds nothing shorter.
THEOREM LimitSuffices == MatchSpec => []LimitFits
<1>1. MatchInv => LimitFits
  <2> DEFINE p == (Len(mask) + 1) * (Len(name) + 1)
  <2> SUFFICES ASSUME MatchInv, result = "gave up"
               PROVE  ~(p <= MaxCalls)
    BY DEF LimitFits
  <2>1. MaxCalls < p
    BY DEF MatchInv, Width
  <2>2. p \in Nat /\ MaxCalls \in Nat
    <3>1. Strings
      BY DEF MatchInv
    <3> QED
      BY <3>1, AllOfBoth, MatchAssumption DEF MatchAssumption
  <2> QED
    BY <2>1, <2>2, LessIsNotMore, Zenon
<1> QED
  BY <1>1, MatchInvariance, PTL

=============================================================================
