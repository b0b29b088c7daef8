--------------------------- MODULE ModulesProofs ---------------------------
(***************************************************************************)
(* Proofs about the lists of list.h and the registries and the loader that *)
(* are built on them, for any modules, handlers and memory: the lists stay *)
(* lists, the walks stay on them, and the registries behave like the       *)
(* sequences of Registry.                                                  *)
(***************************************************************************)
EXTENDS Modules, Lemmas, FiniteSetTheorems

-----------------------------------------------------------------------------
(* Walking along a list *)

Size == Cardinality(Node)

\* Memory is finite.
LEMMA SizeIsNat == Size \in Nat
BY NodeAssumption, FS_CardinalityType DEF Size

\* g follows the rule of a walk from x on.
Follows(g, step, x) ==
    /\ g \in [0 .. Size -> Pointer]
    /\ g[0] = x
    /\ \A k \in 1 .. Size : g[k] = step[g[k - 1]]

\* What follows the rule of a walk is that walk.
LEMMA WalkIs ==
    ASSUME NEW step, NEW x, NEW g, Follows(g, step, x)
    PROVE  Walk(step, x) = g
<1>0. /\ g \in [0 .. Size -> Pointer] /\ g[0] = x
      /\ \A k \in 1 .. Size : g[k] = step[g[k - 1]]
  BY DEF Follows
<1> DEFINE w == Walk(step, x)
<1>1. w = [k \in 0 .. Size |-> IF k = 0 THEN x ELSE step[w[k - 1]]]
  <2>1. \A k \in 0 .. Size : g[k] = IF k = 0 THEN x ELSE step[g[k - 1]]
    BY <1>0, SizeIsNat
  <2>2. g = [k \in 0 .. Size |-> IF k = 0 THEN x ELSE step[g[k - 1]]]
    BY <1>0, <2>1
  <2> QED
    BY <2>2, Zenon DEF Walk, Size
<1> HIDE DEF w
<1> DEFINE T == {k \in 0 .. Size : w[k] # g[k]}
<1>2. ASSUME T # {}
      PROVE  FALSE
  <2>0. T \subseteq Nat
    OBVIOUS
  <2>1. PICK k \in T : \A j \in T : k <= j
    <3> HIDE DEF T
    <3> QED
      BY <1>2, <2>0, LeastNumber
  <2>2. k \in 0 .. Size /\ w[k] # g[k]
    BY <2>1
  <2>3. k # 0
    BY <1>0, <1>1, <2>2
  <2>4. k - 1 \in 0 .. Size /\ k - 1 \notin T
    BY <2>1, <2>2, <2>3, SizeIsNat
  <2> QED
    BY <1>0, <1>1, <2>2, <2>3, <2>4
<1>3. \A k \in 0 .. Size : w[k] = g[k]
  BY <1>2
<1>4. w = [k \in 0 .. Size |-> w[k]] /\ g = [k \in 0 .. Size |-> g[k]]
  BY <1>0, <1>1
<1> QED
  BY <1>3, <1>4, Zenon DEF w

\* From h on f leads along the first n places of v, and then to e and no further.
LeadsAlong(f, h, v, n, e) ==
    /\ n \in Nat /\ n <= Size
    /\ v \in [1 .. n -> Pointer] /\ e \in Pointer
    /\ h = IF n = 0 THEN e ELSE v[1]
    /\ f[e] = e
    /\ \A i \in 1 .. n : f[v[i]] = IF i < n THEN v[i + 1] ELSE e

\* A walk comes to the places it is led along in turn, and stays behind them.
LEMMA WalkAlong ==
    ASSUME NEW f, NEW h, NEW v, NEW n, NEW e, LeadsAlong(f, h, v, n, e)
    PROVE  \A k \in 0 .. Size : Walk(f, h)[k] = IF k < n THEN v[k + 1] ELSE e
<1>0. /\ n \in Nat /\ n <= Size
      /\ v \in [1 .. n -> Pointer] /\ e \in Pointer
      /\ h = IF n = 0 THEN e ELSE v[1]
      /\ f[e] = e
      /\ \A i \in 1 .. n : f[v[i]] = IF i < n THEN v[i + 1] ELSE e
  BY DEF LeadsAlong
<1> DEFINE G == [k \in 0 .. Size |-> IF k < n THEN v[k + 1] ELSE e]
<1>1. G \in [0 .. Size -> Pointer]
  BY <1>0, SizeIsNat
<1>2. \A k \in 0 .. Size : G[k] = IF k < n THEN v[k + 1] ELSE e
  OBVIOUS
<1> HIDE DEF G
<1>3. G[0] = h
  BY <1>0, <1>2, SizeIsNat
<1>4. ASSUME NEW k \in 1 .. Size
      PROVE  G[k] = f[G[k - 1]]
  <2>1. k - 1 \in 0 .. Size /\ k \in 0 .. Size /\ k - 1 + 1 = k
    BY SizeIsNat
  <2>2. CASE k - 1 < n
    <3>1. k \in 1 .. n
      BY <1>0, <2>1, <2>2
    <3>2. G[k - 1] = v[k]
      BY <1>2, <2>1, <2>2
    <3>3. f[v[k]] = IF k < n THEN v[k + 1] ELSE e
      BY <1>0, <3>1
    <3> QED
      BY <1>0, <1>2, <2>1, <3>2, <3>3
  <2>3. CASE ~(k - 1 < n)
    <3>1. G[k - 1] = e /\ ~(k < n)
      BY <1>0, <1>2, <2>1, <2>3
    <3> QED
      BY <1>0, <1>2, <2>1, <3>1
  <2> QED
    BY <2>2, <2>3
<1>5. Walk(f, h) = G
  <2>1. Follows(G, f, h)
    BY <1>1, <1>3, <1>4 DEF Follows
  <2> QED
    BY <2>1, WalkIs
<1> QED
  BY <1>2, <1>5

\* A list is no longer than memory is large.
LEMMA ListFits ==
    ASSUME NEW m, NEW l, NEW s, Represents(m, l, s)
    PROVE  /\ s \in Seq(Node) /\ Len(s) \in Nat /\ DOMAIN s = 1 .. Len(s)
           /\ Len(s) <= Size
           /\ \A i \in 1 .. Len(s) : s[i] \in Node
           /\ Range(s) = {s[i] : i \in 1 .. Len(s)} /\ Range(s) \subseteq Node
           /\ s = << >> <=> Len(s) = 0
<1>1. s \in Seq(Node) /\ \A i, j \in 1 .. Len(s) : s[i] = s[j] => i = j
  BY DEF Represents
<1>2. Len(s) \in Nat /\ DOMAIN s = 1 .. Len(s) /\ \A i \in 1 .. Len(s) : s[i] \in Node
  BY <1>1, LenProperties, ElementOfSeq
<1>3. s \in Injection(1 .. Len(s), Node)
  BY <1>1, <1>2 DEF Injection, IsInjective
<1>4. Cardinality(1 .. Len(s)) = Len(s)
  BY <1>2, FS_Interval
<1>5. Len(s) <= Size
  BY <1>3, <1>4, NodeAssumption, FS_Injection DEF Size
<1>6. s = << >> <=> Len(s) = 0
  BY <1>1, EmptySeq, LenProperties
<1> QED
  BY <1>1, <1>2, <1>5, <1>6 DEF Range

\* The walk along a list finds its nodes.
LEMMA ChainIs ==
    ASSUME NEW m, IsMemory(m), NEW l \in List, NEW s, Represents(m, l, s)
    PROVE  Chain(m, l) = s
<1> DEFINE n == Len(s)
           f == Step(m)
           h == m.head[l]
           w == Walk(f, h)
<1>1. /\ s \in [1 .. n -> Node] /\ n \in Nat /\ n <= Size
      /\ \A i \in 1 .. n : s[i] \in Node
      /\ s = << >> <=> n = 0
  BY ListFits, LenProperties
<1>2. /\ h = IF n = 0 THEN Null ELSE s[1]
      /\ \A i \in 1 .. n : m.next[s[i]] = IF i = n THEN Null ELSE s[i + 1]
  BY <1>1 DEF Represents
<1>3. f[Null] = Null /\ \A x \in Node : f[x] = m.next[x]
  BY NodeAssumption DEF Step, Pointer
<1>4. \A i \in 1 .. n : f[s[i]] = IF i < n THEN s[i + 1] ELSE Null
  BY <1>1, <1>2, <1>3
<1>5. Chain(m, l) = [i \in 1 .. (CHOOSE k \in 0 .. Size :
                          /\ \A j \in 0 .. k - 1 : w[j] # Null
                          /\ k < Size => w[k] = Null) |-> w[i - 1]]
  BY DEF Chain, Size
<1> HIDE DEF n, f, h
<1>6. s \in [1 .. n -> Pointer] /\ Null \in Pointer
  BY <1>1 DEF Pointer
<1>7. \A k \in 0 .. Size : w[k] = IF k < n THEN s[k + 1] ELSE Null
  <2>1. LeadsAlong(f, h, s, n, Null)
    BY <1>1, <1>2, <1>3, <1>4, <1>6 DEF LeadsAlong
  <2> QED
    BY <2>1, WalkAlong
<1> HIDE DEF w
<1> DEFINE Ends(k) == /\ \A j \in 0 .. k - 1 : w[j] # Null
                      /\ k < Size => w[k] = Null
           c == CHOOSE k \in 0 .. Size : Ends(k)
<1>8. n \in 0 .. Size /\ Ends(n)
  <2>1. \A j \in 0 .. n - 1 : w[j] # Null
    <3> SUFFICES ASSUME NEW j \in 0 .. n - 1
                 PROVE  w[j] # Null
      OBVIOUS
    <3>1. j \in 0 .. Size /\ j < n /\ j + 1 \in 1 .. n
      BY <1>1, SizeIsNat
    <3>2. w[j] = s[j + 1] /\ s[j + 1] \in Node
      BY <1>1, <1>7, <3>1
    <3> QED
      BY <3>2, NodeAssumption
  <2> QED
    BY <1>1, <1>7, <2>1, SizeIsNat
<1>9. ASSUME NEW k \in 0 .. Size, Ends(k)
      PROVE  k = n
  <2>1. ASSUME k > n
        PROVE  FALSE
    <3>1. n \in 0 .. k - 1 /\ n \in 0 .. Size
      BY <1>1, <2>1, SizeIsNat
    <3>2. w[n] = Null
      BY <1>1, <1>7, <3>1
    <3> QED
      BY <1>9, <3>1, <3>2
  <2>2. ASSUME k < n
        PROVE  FALSE
    <3>1. k < Size /\ k + 1 \in 1 .. n
      BY <1>1, <2>2, SizeIsNat
    <3>2. w[k] = s[k + 1] /\ s[k + 1] \in Node /\ w[k] = Null
      BY <1>1, <1>7, <1>9, <2>2, <3>1
    <3> QED
      BY <3>2, NodeAssumption
  <2> QED
    BY <1>1, <2>1, <2>2, SizeIsNat
<1>10. c = n
  <2>1. c \in 0 .. Size /\ Ends(c)
    BY <1>8, Zenon
  <2> HIDE DEF c, Ends
  <2> QED
    BY <1>9, <2>1
<1>11. Chain(m, l) = [i \in 1 .. c |-> w[i - 1]]
  BY <1>5, Zenon
<1>12. \A i \in 1 .. n : w[i - 1] = s[i]
  <2> SUFFICES ASSUME NEW i \in 1 .. n
               PROVE  w[i - 1] = s[i]
    OBVIOUS
  <2>1. i - 1 \in 0 .. Size /\ i - 1 < n /\ i - 1 + 1 = i
    BY <1>1, SizeIsNat
  <2> QED
    BY <1>7, <2>1
<1>13. s = [i \in 1 .. n |-> s[i]]
  BY <1>1
<1> HIDE DEF c
<1> QED
  BY <1>10, <1>11, <1>12, <1>13

\* FindEndOfList finds the last node.
LEMMA EndIs ==
    ASSUME NEW m, IsMemory(m), NEW l \in List, NEW s, Represents(m, l, s), s # << >>
    PROVE  FindEndOfList(m, m.head[l]) = s[Len(s)]
<1> DEFINE n == Len(s)
           f == Ahead(m)
           h == m.head[l]
           e == s[n]
<1>1. /\ s \in [1 .. n -> Node] /\ n \in Nat /\ n <= Size /\ n > 0
      /\ \A i \in 1 .. n : s[i] \in Node
  BY ListFits, LenProperties
<1>2. /\ h = s[1]
      /\ \A i \in 1 .. n : m.next[s[i]] = IF i = n THEN Null ELSE s[i + 1]
  BY DEF Represents
<1>3. \A x \in Node : f[x] = IF m.next[x] = Null THEN x ELSE m.next[x]
  BY DEF Ahead
<1>4. \A i \in 1 .. n : f[s[i]] = IF i < n THEN s[i + 1] ELSE e
  <2> SUFFICES ASSUME NEW i \in 1 .. n
               PROVE  f[s[i]] = IF i < n THEN s[i + 1] ELSE e
    OBVIOUS
  <2>1. i # n => i + 1 \in 1 .. n /\ i < n
    BY <1>1
  <2>2. i # n => s[i + 1] # Null
    BY <1>1, <2>1, NodeAssumption
  <2> QED
    BY <1>1, <1>2, <1>3, <2>1, <2>2
<1>5. FindEndOfList(m, m.head[l]) = Walk(f, h)[Size]
  BY DEF FindEndOfList, Size
<1>6. s \in [1 .. n -> Pointer] /\ e \in Pointer /\ f[e] = e
  BY <1>1, <1>4 DEF Pointer
<1>7. h = IF n = 0 THEN e ELSE s[1]
  BY <1>1, <1>2
<1> HIDE DEF n, f, h, e
<1>8. \A k \in 0 .. Size : Walk(f, h)[k] = IF k < n THEN s[k + 1] ELSE e
  <2>1. LeadsAlong(f, h, s, n, e)
    BY <1>1, <1>4, <1>6, <1>7 DEF LeadsAlong
  <2> QED
    BY <2>1, WalkAlong
<1> QED
  BY <1>1, <1>5, <1>8, SizeIsNat DEF e, n

-----------------------------------------------------------------------------
(* Linking and unlinking *)

\* What m2 has of m outside the nodes of S and the head of l.
SameElse(m2, m, l, S) ==
    /\ \A k \in List \ {l} : m2.head[k] = m.head[k]
    /\ \A n \in Node \ S : m2.next[n] = m.next[n] /\ m2.prev[n] = m.prev[n]

\* A list of which no pointer is changed stays.
LEMMA OtherList ==
    ASSUME NEW m, NEW m2, NEW l, NEW k \in List \ {l}, NEW S, NEW t,
           SameElse(m2, m, l, S), Represents(m, k, t), Range(t) \cap S = {}
    PROVE  Represents(m2, k, t)
<1>1. \A i \in 1 .. Len(t) : t[i] \in Node \ S
  BY ListFits
<1>2. \A i \in 1 .. Len(t) : m2.next[t[i]] = m.next[t[i]] /\ m2.prev[t[i]] = m.prev[t[i]]
  BY <1>1 DEF SameElse
<1>3. m2.head[k] = m.head[k]
  BY DEF SameElse
<1> QED
  BY <1>2, <1>3 DEF Represents

\* LinkToList makes the node the last of the list, and touches no other list.
LEMMA LinkShape ==
    ASSUME NEW m, IsMemory(m), NEW l \in List, NEW s, Represents(m, l, s),
           NEW x \in Node, x \notin Range(s), NEW m2, m2 = LinkToList(m, x, l)
    PROVE  /\ IsMemory(m2)
           /\ Represents(m2, l, Append(s, x))
           /\ SameElse(m2, m, l, Range(s) \cup {x})
<1> DEFINE n == Len(s)
           t == Append(s, x)
<1>1. /\ s \in Seq(Node) /\ n \in Nat /\ \A i \in 1 .. n : s[i] \in Node /\ s[i] # x
      /\ \A i, j \in 1 .. n : s[i] = s[j] => i = j
      /\ s = << >> <=> n = 0
      /\ \A i \in 1 .. n : s[i] \in Range(s)
  <2>1. /\ s \in Seq(Node) /\ n \in Nat /\ \A i \in 1 .. n : s[i] \in Node
        /\ s = << >> <=> n = 0
        /\ Range(s) = {s[i] : i \in 1 .. n}
    BY ListFits
  <2>2. \A i \in 1 .. n : s[i] \in Range(s)
    BY <2>1
  <2>3. \A i, j \in 1 .. n : s[i] = s[j] => i = j
    BY DEF Represents
  <2> QED
    BY <2>1, <2>2, <2>3
<1>2. /\ m.head[l] = IF n = 0 THEN Null ELSE s[1]
      /\ \A i \in 1 .. n : /\ m.next[s[i]] = IF i = n THEN Null ELSE s[i + 1]
                          /\ m.prev[s[i]] = IF i = 1 THEN Null ELSE s[i - 1]
  BY <1>1 DEF Represents
<1>3. /\ t \in Seq(Node) /\ Len(t) = n + 1 /\ t # << >>
      /\ \A i \in 1 .. n : t[i] = s[i]
      /\ t[n + 1] = x
  BY <1>1, AppendProperties
<1>4. /\ DOMAIN m = {"next", "prev", "head"}
      /\ m.next \in [Node -> Pointer] /\ m.prev \in [Node -> Pointer]
      /\ m.head \in [List -> Pointer]
      /\ Null \in Pointer /\ \A y \in Node : y \in Pointer /\ y # Null
  BY NodeAssumption DEF IsMemory, Pointer
<1> DEFINE e == IF n = 0 THEN Null ELSE s[n]
<1>5. /\ IsMemory(m2)
      /\ \A y \in Node : m2.next[y] = IF y = x THEN Null ELSE IF y = e THEN x ELSE m.next[y]
      /\ \A y \in Node : m2.prev[y] = IF y = x THEN e ELSE m.prev[y]
      /\ \A k \in List : m2.head[k] = IF k = l /\ n = 0 THEN x ELSE m.head[k]
  <2>1. CASE n = 0
    <3>1. m.head[l] = Null
      BY <1>2, <2>1
    <3>2. m2 = [m EXCEPT !.next[x] = Null, !.prev[x] = Null, !.head[l] = x]
      BY <3>1 DEF LinkToList
    <3>3. /\ DOMAIN m2 = {"next", "prev", "head"}
          /\ m2.next = [m.next EXCEPT ![x] = Null]
          /\ m2.prev = [m.prev EXCEPT ![x] = Null]
          /\ m2.head = [m.head EXCEPT ![l] = x]
      BY <1>4, <3>2
    <3> QED
      BY <1>4, <2>1, <3>3 DEF IsMemory
  <2>2. CASE n # 0
    <3>1. n \in 1 .. n /\ e = s[n] /\ e \in Node /\ e # x /\ s # << >>
      BY <1>1, <2>2
    <3>2. m.head[l] # Null /\ FindEndOfList(m, m.head[l]) = e
      BY <1>1, <1>2, <1>4, <3>1, EndIs
    <3>3. m2 = LinkBehind(m, x, e)
      BY <3>2 DEF LinkToList
    <3> HIDE DEF e
    <3>4. /\ DOMAIN m2 = {"next", "prev", "head"}
          /\ m2.next = [m.next EXCEPT ![x] = Null, ![e] = x]
          /\ m2.prev = [m.prev EXCEPT ![x] = e]
          /\ m2.head = m.head
      BY <1>4, <3>3 DEF LinkBehind
    <3> QED
      BY <1>4, <2>2, <3>1, <3>4 DEF IsMemory
  <2> QED
    BY <2>1, <2>2
<1> HIDE DEF t
<1>6. ASSUME NEW i \in 1 .. n + 1
      PROVE  /\ m2.next[t[i]] = IF i = n + 1 THEN Null ELSE t[i + 1]
             /\ m2.prev[t[i]] = IF i = 1 THEN Null ELSE t[i - 1]
  <2>1. CASE i = n + 1
    <3>1. n # 0 => n \in 1 .. n /\ t[n] = s[n]
      BY <1>1, <1>3
    <3> QED
      BY <1>1, <1>3, <1>5, <2>1, <3>1
  <2>2. CASE i # n + 1
    <3>1. i \in 1 .. n /\ t[i] = s[i] /\ s[i] \in Node /\ s[i] # x /\ n # 0 /\ e = s[n]
          /\ n \in 1 .. n
      BY <1>1, <1>3, <2>2
    <3>2. s[i] = e <=> i = n
      BY <1>1, <3>1
    <3>3. m2.next[t[i]] = t[i + 1]
      <4>1. CASE i = n
        BY <1>3, <1>5, <3>1, <3>2, <4>1
      <4>2. CASE i # n
        <5>1. i + 1 \in 1 .. n /\ t[i + 1] = s[i + 1]
          BY <1>1, <1>3, <3>1, <4>2
        <5> QED
          BY <1>2, <1>5, <3>1, <3>2, <4>2, <5>1
      <4> QED
        BY <4>1, <4>2
    <3>4. m2.prev[t[i]] = IF i = 1 THEN Null ELSE t[i - 1]
      <4>1. i # 1 => i - 1 \in 1 .. n /\ t[i - 1] = s[i - 1]
        BY <1>1, <1>3, <3>1
      <4> QED
        BY <1>2, <1>5, <3>1, <4>1
    <3> QED
      BY <2>2, <3>3, <3>4
  <2> QED
    BY <2>1, <2>2
<1>7. \A i, j \in 1 .. n + 1 : t[i] = t[j] => i = j
  <2>1. \A i \in 1 .. n + 1 : i = n + 1 \/ i \in 1 .. n
    BY <1>1
  <2> QED
    BY <1>1, <1>3, <2>1
<1>8. m2.head[l] = t[1]
  BY <1>1, <1>2, <1>3, <1>5
<1>9. Represents(m2, l, t)
  BY <1>3, <1>6, <1>7, <1>8 DEF Represents
<1>10. SameElse(m2, m, l, Range(s) \cup {x})
  <2>1. n # 0 => e \in Range(s)
    BY <1>1
  <2>2. n = 0 => e \notin Node
    BY NodeAssumption
  <2> HIDE DEF e
  <2> QED
    BY <1>5, <2>1, <2>2 DEF SameElse
<1> QED
  BY <1>5, <1>9, <1>10 DEF t

\* UnlinkListItem takes one node out, and touches no other list.
LEMMA UnlinkShape ==
    ASSUME NEW m, IsMemory(m), NEW l \in List, NEW s, Represents(m, l, s),
           NEW i \in DOMAIN s, NEW m2, m2 = UnlinkListItem(m, s[i], l)
    PROVE  /\ IsMemory(m2)
           /\ Represents(m2, l, RemoveAt(s, i))
           /\ SameElse(m2, m, l, Range(s))
<1> DEFINE n == Len(s)
           t == RemoveAt(s, i)
           x == s[i]
<1>1. /\ s \in Seq(Node) /\ n \in Nat /\ i \in 1 .. n
      /\ \A j \in 1 .. n : s[j] \in Node /\ s[j] # Null
      /\ \A j, k \in 1 .. n : s[j] = s[k] => j = k
      /\ \A j \in 1 .. n : s[j] \in Range(s)
  <2>1. /\ s \in Seq(Node) /\ n \in Nat /\ \A j \in 1 .. n : s[j] \in Node
        /\ DOMAIN s = 1 .. n
        /\ Range(s) = {s[j] : j \in 1 .. n}
    BY ListFits
  <2>2. \A j \in 1 .. n : s[j] \in Range(s)
    BY <2>1
  <2>3. \A j, k \in 1 .. n : s[j] = s[k] => j = k
    BY DEF Represents
  <2> QED
    BY <2>1, <2>2, <2>3, NodeAssumption
<1>2. /\ m.head[l] = s[1]
      /\ \A j \in 1 .. n : /\ m.next[s[j]] = IF j = n THEN Null ELSE s[j + 1]
                          /\ m.prev[s[j]] = IF j = 1 THEN Null ELSE s[j - 1]
  <2>1. s # << >>
    BY <1>1, EmptySeq
  <2> QED
    BY <2>1 DEF Represents
<1>3. /\ t \in Seq(Node) /\ Len(t) = n - 1
      /\ \A j \in 1 .. n - 1 : t[j] = IF j < i THEN s[j] ELSE s[j + 1]
      /\ t = << >> <=> n = 1
  <2>1. /\ t \in Seq(Node) /\ Len(t) = n - 1
        /\ \A j \in 1 .. n - 1 : t[j] = IF j < i THEN s[j] ELSE s[j + 1]
    BY <1>1, RemoveAtShape
  <2> HIDE DEF t
  <2> QED
    BY <1>1, <2>1, EmptySeq
<1>4. /\ DOMAIN m = {"next", "prev", "head"}
      /\ m.next \in [Node -> Pointer] /\ m.prev \in [Node -> Pointer]
      /\ m.head \in [List -> Pointer]
      /\ Null \in Pointer /\ \A y \in Node : y \in Pointer /\ y # Null
  BY NodeAssumption DEF IsMemory, Pointer
<1>5. /\ m.next[x] = IF i = n THEN Null ELSE s[i + 1]
      /\ m.prev[x] = IF i = 1 THEN Null ELSE s[i - 1]
      /\ i # n => i + 1 \in 1 .. n
      /\ i # 1 => i - 1 \in 1 .. n
  BY <1>1, <1>2
<1>6. /\ m.next[x] = Null <=> i = n
      /\ m.prev[x] = Null <=> i = 1
      /\ m.next[x] \in Pointer /\ m.prev[x] \in Pointer
  BY <1>1, <1>4, <1>5
<1> HIDE DEF t, x
<1>7. /\ IsMemory(m2)
      /\ \A y \in Node : m2.next[y] = IF i # 1 /\ y = s[i - 1] THEN m.next[x] ELSE m.next[y]
      /\ \A y \in Node : m2.prev[y] = IF i # n /\ y = s[i + 1] THEN m.prev[x] ELSE m.prev[y]
      /\ \A k \in List : m2.head[k] = IF k = l /\ i = 1 THEN m.next[x] ELSE m.head[k]
  <2>0. m2 = UnlinkListItem(m, x, l)
    BY DEF x
  <2>1. CASE i = 1 /\ i = n
    <3>1. m2 = [m EXCEPT !.head[l] = Null]
      BY <1>6, <2>0, <2>1 DEF UnlinkListItem
    <3>2. /\ DOMAIN m2 = {"next", "prev", "head"}
          /\ m2.next = m.next /\ m2.prev = m.prev
          /\ m2.head = [m.head EXCEPT ![l] = Null]
      BY <1>4, <3>1
    <3> QED
      BY <1>4, <1>6, <2>1, <3>2 DEF IsMemory
  <2>2. CASE i # 1 /\ i = n
    <3>1. m2 = [m EXCEPT !.next[m.prev[x]] = Null]
      BY <1>6, <2>0, <2>2 DEF UnlinkListItem
    <3>2. /\ DOMAIN m2 = {"next", "prev", "head"}
          /\ m2.next = [m.next EXCEPT ![s[i - 1]] = Null] /\ m2.prev = m.prev
          /\ m2.head = m.head
      BY <1>4, <1>5, <2>2, <3>1
    <3> QED
      BY <1>4, <1>6, <2>2, <3>2 DEF IsMemory
  <2>3. CASE i = 1 /\ i # n
    <3>1. m2 = [m EXCEPT !.prev[m.next[x]] = Null, !.head[l] = m.next[x]]
      BY <1>6, <2>0, <2>3 DEF UnlinkListItem
    <3>2. /\ DOMAIN m2 = {"next", "prev", "head"}
          /\ m2.next = m.next /\ m2.prev = [m.prev EXCEPT ![s[i + 1]] = Null]
          /\ m2.head = [m.head EXCEPT ![l] = m.next[x]]
      BY <1>4, <1>5, <2>3, <3>1
    <3> QED
      BY <1>4, <1>6, <2>3, <3>2 DEF IsMemory
  <2>4. CASE i # 1 /\ i # n
    <3>1. m2 = [m EXCEPT !.prev[m.next[x]] = m.prev[x], !.next[m.prev[x]] = m.next[x]]
      BY <1>6, <2>0, <2>4 DEF UnlinkListItem
    <3>2. /\ DOMAIN m2 = {"next", "prev", "head"}
          /\ m2.next = [m.next EXCEPT ![s[i - 1]] = m.next[x]]
          /\ m2.prev = [m.prev EXCEPT ![s[i + 1]] = m.prev[x]]
          /\ m2.head = m.head
      BY <1>4, <1>5, <2>4, <3>1
    <3> QED
      BY <1>4, <1>6, <2>4, <3>2 DEF IsMemory
  <2> QED
    BY <2>1, <2>2, <2>3, <2>4
<1>8. ASSUME NEW j \in 1 .. n - 1
      PROVE  /\ m2.next[t[j]] = IF j = n - 1 THEN Null ELSE t[j + 1]
             /\ m2.prev[t[j]] = IF j = 1 THEN Null ELSE t[j - 1]
  <2> DEFINE r == IF j < i THEN j ELSE j + 1
  <2>1. r \in 1 .. n /\ r # i /\ t[j] = s[r] /\ s[r] \in Node /\ j \in Nat /\ i \in Nat
    BY <1>1, <1>3
  <2>2. i # 1 => (s[r] = s[i - 1] <=> r = i - 1)
    BY <1>1, <1>5, <2>1
  <2>3. i # n => (s[r] = s[i + 1] <=> r = i + 1)
    BY <1>1, <1>5, <2>1
  <2>4. /\ m.next[s[r]] = IF r = n THEN Null ELSE s[r + 1]
        /\ m.prev[s[r]] = IF r = 1 THEN Null ELSE s[r - 1]
    BY <1>2, <2>1
  <2>5. m2.next[t[j]] = IF i # 1 /\ r = i - 1 THEN m.next[x] ELSE m.next[s[r]]
    BY <1>7, <2>1, <2>2
  <2>6. m2.prev[t[j]] = IF i # n /\ r = i + 1 THEN m.prev[x] ELSE m.prev[s[r]]
    BY <1>7, <2>1, <2>3
  <2>7. j # n - 1 => t[j + 1] = IF j + 1 < i THEN s[j + 1] ELSE s[j + 2]
    <3>1. j # n - 1 => j + 1 \in 1 .. n - 1 /\ j + 1 + 1 = j + 2
      BY <1>1
    <3> QED
      BY <1>3, <3>1
  <2>8. j # 1 => t[j - 1] = IF j - 1 < i THEN s[j - 1] ELSE s[j]
    <3>1. j # 1 => j - 1 \in 1 .. n - 1 /\ j - 1 + 1 = j
      BY <1>1
    <3> QED
      BY <1>3, <3>1
  <2>9. m2.next[t[j]] = IF j = n - 1 THEN Null ELSE t[j + 1]
    <3>1. CASE j + 1 = i
      <4>1. r = i - 1 /\ i # 1 /\ r # n /\ j + 2 = i + 1 /\ (j = n - 1 <=> i = n)
        BY <1>1, <3>1
      <4> QED
        BY <1>5, <2>5, <2>7, <3>1, <4>1
    <3>2. CASE j + 1 < i
      <4>1. r = j /\ r # i - 1 /\ r # n /\ j # n - 1
        BY <1>1, <3>2
      <4> QED
        BY <2>4, <2>5, <2>7, <3>2, <4>1
    <3>3. CASE j + 1 > i
      <4>1. r = j + 1 /\ r # i - 1 /\ (r = n <=> j = n - 1) /\ r + 1 = j + 2 /\ ~(j + 1 < i)
        BY <1>1, <3>3
      <4> QED
        BY <2>4, <2>5, <2>7, <4>1
    <3> QED
      BY <1>1, <3>1, <3>2, <3>3
  <2>10. m2.prev[t[j]] = IF j = 1 THEN Null ELSE t[j - 1]
    <3>1. CASE j < i
      <4>1. r = j /\ r # i + 1 /\ j - 1 < i
        BY <1>1, <3>1
      <4> QED
        BY <2>4, <2>6, <2>8, <4>1
    <3>2. CASE j = i
      <4>1. r = i + 1 /\ i # n /\ j - 1 < i
        BY <1>1, <3>2
      <4> QED
        BY <1>5, <2>6, <2>8, <3>2, <4>1
    <3>3. CASE j > i
      <4>1. r = j + 1 /\ r # i + 1 /\ r # 1 /\ r - 1 = j /\ j # 1 /\ ~(j - 1 < i)
        BY <1>1, <3>3
      <4> QED
        BY <2>4, <2>6, <2>8, <4>1
    <3> QED
      BY <1>1, <3>1, <3>2, <3>3
  <2> QED
    BY <2>9, <2>10
<1>9. \A j, k \in 1 .. n - 1 : t[j] = t[k] => j = k
  <2> SUFFICES ASSUME NEW j \in 1 .. n - 1, NEW k \in 1 .. n - 1, t[j] = t[k]
               PROVE  j = k
    OBVIOUS
  <2>1. /\ t[j] = IF j < i THEN s[j] ELSE s[j + 1]
        /\ t[k] = IF k < i THEN s[k] ELSE s[k + 1]
    BY <1>3
  <2>2. j \in 1 .. n /\ k \in 1 .. n /\ j + 1 \in 1 .. n /\ k + 1 \in 1 .. n
    BY <1>1
  <2>3. CASE j < i /\ k < i
    BY <1>1, <2>1, <2>2, <2>3
  <2>4. CASE j < i /\ ~(k < i)
    <3>1. j = k + 1
      BY <1>1, <2>1, <2>2, <2>4
    <3> QED
      BY <1>1, <2>4, <3>1
  <2>5. CASE ~(j < i) /\ k < i
    <3>1. j + 1 = k
      BY <1>1, <2>1, <2>2, <2>5
    <3> QED
      BY <1>1, <2>5, <3>1
  <2>6. CASE ~(j < i) /\ ~(k < i)
    <3>1. j + 1 = k + 1
      BY <1>1, <2>1, <2>2, <2>6
    <3> QED
      BY <1>1, <3>1
  <2> QED
    BY <2>3, <2>4, <2>5, <2>6
<1>10. m2.head[l] = IF n = 1 THEN Null ELSE t[1]
  <2>1. CASE i = 1
    <3>1. n # 1 => t[1] = s[2] /\ i # n
      BY <1>1, <1>3, <2>1
    <3> QED
      BY <1>1, <1>5, <1>7, <2>1, <3>1
  <2>2. CASE i # 1
    <3>1. n # 1 /\ t[1] = s[1]
      BY <1>1, <1>3, <2>2
    <3> QED
      BY <1>2, <1>7, <2>2, <3>1
  <2> QED
    BY <2>1, <2>2
<1>11. Represents(m2, l, t)
  BY <1>3, <1>8, <1>9, <1>10 DEF Represents
<1>12. SameElse(m2, m, l, Range(s))
  <2>1. i # 1 => s[i - 1] \in Range(s)
    BY <1>1, <1>5
  <2>2. i # n => s[i + 1] \in Range(s)
    BY <1>1, <1>5
  <2> QED
    BY <1>7, <2>1, <2>2 DEF SameElse
<1> QED
  BY <1>7, <1>11, <1>12 DEF t

-----------------------------------------------------------------------------
(* The lists of the bot *)

\* The nodes of a list.
On(l) == Range(Chain(mem, l))

\* Every list is a list, of allocated nodes and of no other's.
ListsOK ==
    /\ IsMemory(mem)
    /\ data \in [Node -> Entry \cup {Null}]
    /\ \A l \in List : Represents(mem, l, Chain(mem, l))
    /\ \A l \in List : \A n \in On(l) : data[n] # Null
    /\ \A l, k \in List : l # k => On(l) \cap On(k) = {}

\* A list by its places.
LEMMA PlacesOf ==
    ASSUME ListsOK, NEW l \in List
    PROVE  /\ Chain(mem, l) \in Seq(Node) /\ Len(Chain(mem, l)) \in Nat
           /\ DOMAIN Chain(mem, l) = 1 .. Len(Chain(mem, l))
           /\ On(l) = {Chain(mem, l)[i] : i \in 1 .. Len(Chain(mem, l))}
           /\ On(l) \subseteq Node
           /\ \A i, j \in 1 .. Len(Chain(mem, l)) :
                 Chain(mem, l)[i] = Chain(mem, l)[j] => i = j
<1>1. Represents(mem, l, Chain(mem, l))
  BY DEF ListsOK
<1> DEFINE s == Chain(mem, l)
<1>2. On(l) = Range(s)
  BY DEF On
<1> HIDE DEF s
<1>3. Represents(mem, l, s)
  BY <1>1 DEF s
<1>4. \A i, j \in 1 .. Len(s) : s[i] = s[j] => i = j
  BY <1>3 DEF Represents
<1>5. /\ s \in Seq(Node) /\ Len(s) \in Nat /\ DOMAIN s = 1 .. Len(s)
      /\ Range(s) = {s[i] : i \in 1 .. Len(s)} /\ Range(s) \subseteq Node
  BY <1>3, ListFits
<1> QED
  BY <1>2, <1>4, <1>5 DEF s

\* A change of one list, on nodes that are no other's, leaves the others.
LEMMA OthersStay ==
    ASSUME ListsOK, NEW l \in List, NEW m2, NEW t, NEW S,
           IsMemory(m2), Represents(m2, l, t), SameElse(m2, mem, l, S),
           \A k \in List \ {l} : On(k) \cap S = {}
    PROVE  /\ Chain(m2, l) = t
           /\ \A k \in List \ {l} : Chain(m2, k) = Chain(mem, k)
           /\ \A k \in List : Represents(m2, k, Chain(m2, k))
<1>1. Chain(m2, l) = t
  BY ChainIs
<1>2. ASSUME NEW k \in List \ {l}
      PROVE  Chain(m2, k) = Chain(mem, k) /\ Represents(m2, k, Chain(m2, k))
  <2>1. Represents(mem, k, Chain(mem, k)) /\ Range(Chain(mem, k)) \cap S = {}
    BY DEF ListsOK, On
  <2>2. Represents(m2, k, Chain(mem, k))
    BY <2>1, OtherList
  <2> QED
    BY <2>2, ChainIs
<1> QED
  BY <1>1, <1>2

\* AddTo: the new node is at the end of its list, and was nowhere before.
LEMMA AddShape ==
    ASSUME ListsOK, NEW l \in List, NEW entry \in Entry, AddTo(l, entry)
    PROVE  /\ ListsOK'
           /\ Malloc \in Node /\ data[Malloc] = Null /\ \A k \in List : Malloc \notin On(k)
           /\ Chain(mem', l) = Append(Chain(mem, l), Malloc)
           /\ \A k \in List \ {l} : Chain(mem', k) = Chain(mem, k)
           /\ On(l)' = On(l) \cup {Malloc}
           /\ \A k \in List \ {l} : On(k)' = On(k)
           /\ \A n \in Node : data'[n] = IF n = Malloc THEN entry ELSE data[n]
<1> DEFINE x == Malloc
           s == Chain(mem, l)
<1>1. x \in Node /\ data[x] = Null
  BY DEF AddTo, Malloc
<1>2. \A k \in List : x \notin On(k)
  BY <1>1 DEF ListsOK
<1>3. /\ mem' = LinkToList(mem, x, l) /\ IsMemory(mem) /\ Represents(mem, l, s)
      /\ x \notin Range(s)
  BY <1>2 DEF AddTo, ListsOK, On
<1>d. /\ data' = [data EXCEPT ![x] = entry] /\ data \in [Node -> Entry \cup {Null}]
      /\ entry # Null
  BY ModulesAssumption DEF AddTo, ListsOK
<1> HIDE DEF x, s
<1>4. /\ IsMemory(mem') /\ Represents(mem', l, Append(s, x))
      /\ SameElse(mem', mem, l, Range(s) \cup {x})
  BY <1>1, <1>3, LinkShape
<1>5. \A k \in List \ {l} : On(k) \cap (Range(s) \cup {x}) = {}
  BY <1>2 DEF ListsOK, On, s
<1>6. /\ Chain(mem', l) = Append(s, x)
      /\ \A k \in List \ {l} : Chain(mem', k) = Chain(mem, k)
      /\ \A k \in List : Represents(mem', k, Chain(mem', k))
  BY <1>4, <1>5, OthersStay
<1>7. \A k \in List \ {l} : On(k)' = On(k)
  BY <1>6 DEF On
<1>8. On(l)' = On(l) \cup {x}
  <2>1. s \in Seq(Node) /\ Len(s) \in Nat
        /\ On(l) = {s[i] : i \in 1 .. Len(s)}
    BY PlacesOf DEF s
  <2>2. /\ Len(Append(s, x)) = Len(s) + 1 /\ Append(s, x)[Len(s) + 1] = x
        /\ DOMAIN Append(s, x) = 1 .. Len(s) + 1
        /\ \A i \in 1 .. Len(s) : Append(s, x)[i] = s[i]
    BY <1>1, <2>1, AppendProperties
  <2>3. On(l)' = {Append(s, x)[i] : i \in 1 .. Len(s) + 1}
    BY <1>6, <2>2 DEF On, Range
  <2>4. 1 .. Len(s) + 1 = (1 .. Len(s)) \cup {Len(s) + 1}
    BY <2>1
  <2> QED
    BY <2>1, <2>2, <2>3, <2>4
<1>9. \A n \in Node : data'[n] = IF n = x THEN entry ELSE data[n]
  BY <1>d
<1>10. ListsOK'
  <2>1. data' \in [Node -> Entry \cup {Null}]
    BY <1>d
  <2>2. \A k \in List : On(k) \subseteq Node
    BY PlacesOf
  <2>3. \A k \in List : \A n \in On(k)' : data'[n] # Null
    BY <1>1, <1>7, <1>8, <1>9, <1>d, <2>2 DEF ListsOK
  <2>4. \A j, k \in List : j # k => On(j)' \cap On(k)' = {}
    BY <1>2, <1>7, <1>8 DEF ListsOK
  <2> QED
    BY <1>4, <1>6, <2>1, <2>3, <2>4 DEF ListsOK
<1> QED
  BY <1>1, <1>2, <1>6, <1>7, <1>8, <1>9, <1>10 DEF x, s

\* Drop: the node is off its list, and the others stay in order.
LEMMA DropShape ==
    ASSUME ListsOK, NEW l \in List, NEW i \in DOMAIN Chain(mem, l),
           Drop(Chain(mem, l)[i], l)
    PROVE  /\ ListsOK'
           /\ Chain(mem', l) = RemoveAt(Chain(mem, l), i)
           /\ \A k \in List \ {l} : Chain(mem', k) = Chain(mem, k)
           /\ On(l)' = On(l) \ {Chain(mem, l)[i]}
           /\ \A k \in List \ {l} : On(k)' = On(k)
           /\ \A n \in Node : data'[n] = IF n = Chain(mem, l)[i] THEN Null ELSE data[n]
<1> DEFINE s == Chain(mem, l)
           x == s[i]
<1>1. /\ s \in Seq(Node) /\ Len(s) \in Nat /\ i \in 1 .. Len(s) /\ i \in DOMAIN s
      /\ On(l) = {s[j] : j \in 1 .. Len(s)} /\ x \in Node /\ x \in On(l)
      /\ \A j, k \in 1 .. Len(s) : s[j] = s[k] => j = k
  BY PlacesOf
<1>2. /\ mem' = UnlinkListItem(mem, s[i], l) /\ IsMemory(mem) /\ Represents(mem, l, s)
      /\ data' = [data EXCEPT ![x] = Null] /\ data \in [Node -> Entry \cup {Null}]
  BY DEF Drop, ListsOK
<1>x. x = s[i]
  OBVIOUS
<1> HIDE DEF x, s
<1>3. /\ IsMemory(mem') /\ Represents(mem', l, RemoveAt(s, i))
      /\ SameElse(mem', mem, l, Range(s))
  BY <1>1, <1>2, UnlinkShape
<1>4. \A k \in List \ {l} : On(k) \cap Range(s) = {}
  BY DEF ListsOK, On, s
<1>5. /\ Chain(mem', l) = RemoveAt(s, i)
      /\ \A k \in List \ {l} : Chain(mem', k) = Chain(mem, k)
      /\ \A k \in List : Represents(mem', k, Chain(mem', k))
  BY <1>3, <1>4, OthersStay
<1>6. \A k \in List \ {l} : On(k)' = On(k)
  BY <1>5 DEF On
<1>7. On(l)' = On(l) \ {x}
  <2> DEFINE t == RemoveAt(s, i)
             n == Len(s)
  <2>1. /\ DOMAIN t = 1 .. n - 1
        /\ \A j \in 1 .. n - 1 : t[j] = IF j < i THEN s[j] ELSE s[j + 1]
    BY <1>1, RemoveAtShape
  <2>2. On(l)' = {t[j] : j \in 1 .. n - 1}
    BY <1>5, <2>1 DEF On, Range
  <2> HIDE DEF t
  <2>3. ASSUME NEW j \in 1 .. n - 1
        PROVE  t[j] \in On(l) \ {x}
    <3>1. /\ j < i => j \in 1 .. n /\ j # i
          /\ ~(j < i) => j + 1 \in 1 .. n /\ j + 1 # i
      BY <1>1
    <3> QED
      BY <1>1, <1>x, <2>1, <3>1
  <2>4. ASSUME NEW k \in 1 .. n, s[k] # x
        PROVE  \E j \in 1 .. n - 1 : t[j] = s[k]
    <3>1. k # i
      BY <1>x, <2>4
    <3>2. CASE k < i
      <4>1. k \in 1 .. n - 1
        BY <1>1, <3>2
      <4> QED
        BY <2>1, <3>2, <4>1
    <3>3. CASE k > i
      <4>1. k - 1 \in 1 .. n - 1 /\ ~(k - 1 < i) /\ k - 1 + 1 = k
        BY <1>1, <3>3
      <4> QED
        BY <2>1, <4>1
    <3> QED
      BY <1>1, <3>1, <3>2, <3>3
  <2>5. On(l)' \subseteq On(l) \ {x}
    BY <2>2, <2>3
  <2>6. On(l) \ {x} \subseteq On(l)'
    <3> SUFFICES ASSUME NEW y \in On(l), y # x
                 PROVE  y \in On(l)'
      OBVIOUS
    <3>1. PICK k \in 1 .. n : s[k] = y
      BY <1>1
    <3>2. PICK j \in 1 .. n - 1 : t[j] = s[k]
      BY <2>4, <3>1
    <3> QED
      BY <2>2, <3>1, <3>2
  <2> QED
    BY <2>5, <2>6
<1>8. \A n \in Node : data'[n] = IF n = x THEN Null ELSE data[n]
  BY <1>2
<1>9. ListsOK'
  <2>1. data' \in [Node -> Entry \cup {Null}]
    BY <1>2
  <2>2. \A k \in List : On(k) \subseteq Node
    BY PlacesOf
  <2>3. \A k \in List : \A n \in On(k)' : data'[n] # Null
    <3> SUFFICES ASSUME NEW k \in List, NEW n \in On(k)'
                 PROVE  data'[n] # Null
      OBVIOUS
    <3>1. n \in On(k) /\ n \in Node /\ n # x
      BY <1>1, <1>6, <1>7, <2>2 DEF ListsOK
    <3> QED
      BY <1>8, <3>1 DEF ListsOK
  <2>4. \A j, k \in List : j # k => On(j)' \cap On(k)' = {}
    BY <1>6, <1>7 DEF ListsOK
  <2> QED
    BY <1>3, <1>5, <2>1, <2>3, <2>4 DEF ListsOK
<1> QED
  BY <1>5, <1>6, <1>7, <1>8, <1>9 DEF x, s

-----------------------------------------------------------------------------
(* The inductive invariant *)

\* The list of modules holds modules, the registries hold handlers.
EntriesOK ==
    /\ \A n \in On(Loaded) : data[n] \in ModuleEntry
    /\ \A l \in Kinds : \A n \in On(l) : data[n] \in HandlerEntry

\* The nodes of f on the list of modules are as many as dlopen counts.
Copies(f) == {n \in On(Loaded) : data[n].module = f}

RefsOK ==
    /\ refs \in [File -> Nat]
    /\ \A f \in File : refs[f] = Cardinality(Copies(f))

InitFrames == [at : {"init"}, node : Node, i : Nat \ {0}]
ShutdownFrames == [at : {"shutdown"}, node : Node, i : Nat \ {0}, then : Name \cup {Null}]
ClearFrames == [at : {"clear"}, file : File, k : DOMAIN Order, node : Pointer,
                then : Name \cup {Null}]

\* The pointers held lead to nodes of the lists they are for.
FrameOK ==
    /\ frame \in {Idle, Crashed} \cup InitFrames \cup ShutdownFrames \cup ClearFrames
    /\ frame.at \in {"init", "shutdown"} => frame.node \in On(Loaded)
    /\ frame.at = "clear" /\ frame.node # Null => frame.node \in On(Order[frame.k])

\* The walk that is at frame.node has n still to come to.
Remaining(n, l) ==
    \E i, j \in DOMAIN Chain(mem, l) :
        i <= j /\ Chain(mem, l)[i] = frame.node /\ Chain(mem, l)[j] = n

\* The loader will come to the handler n on l.
ToClear(n, l) ==
    /\ frame.at = "clear" /\ data[n].module = frame.file
    /\ \/ \E j \in DOMAIN Order : frame.k < j /\ Order[j] = l
       \/ l = Order[frame.k] /\ Remaining(n, l)

\* The module of the handler n is listed.
HasModule(n) == \E m \in On(Loaded) : data[m].module = data[n].module

\* A handler's module is listed, or the handler is about to go.
Mapped ==
    frame # Crashed =>
        \A l \in Kinds : \A n \in On(l) :
            data[n].module # Null => HasModule(n) \/ ToClear(n, l)

\* Nothing is about to go.
AllMapped ==
    \A l \in Kinds : \A n \in On(l) : data[n].module # Null => HasModule(n)

IInv == toLoad \subseteq Installed /\ ListsOK /\ EntriesOK /\ RefsOK /\ FrameOK /\ Mapped

-----------------------------------------------------------------------------
(* What a step does to the registries and the list of modules *)

\* The registries are lists other than the list of modules.
LEMMA KindsAreLists ==
    /\ \A l \in Kinds : l \in List /\ l # Loaded
    /\ \A k \in DOMAIN Order : Order[k] \in Kinds
    /\ Loaded \in List
    /\ DOMAIN Order = 1 .. Len(Order) /\ Len(Order) \in Nat /\ 1 \in DOMAIN Order
<1>1. Order \in Seq(List \ {Loaded}) /\ Order # << >> /\ Loaded \in List
  BY ModulesAssumption
<1>2. /\ DOMAIN Order = 1 .. Len(Order) /\ Len(Order) \in Nat
      /\ \A k \in 1 .. Len(Order) : Order[k] \in List \ {Loaded}
  BY <1>1, LenProperties, ElementOfSeq
<1>3. 1 \in DOMAIN Order
  BY <1>1, <1>2, EmptySeq
<1> QED
  BY <1>1, <1>2, <1>3 DEF Kinds, Range

\* Whose an entry is.
LEMMA EntryTypes ==
    /\ \A e \in ModuleEntry : e \in Entry /\ e.key \in Name /\ e.module \in File
    /\ \A e \in HandlerEntry : e \in Entry /\ e.module \in File \cup {Null}
    /\ Null \notin File /\ Null \notin Name /\ Null \notin Entry
BY ModulesAssumption DEF ModuleEntry, HandlerEntry, Entry

\* A handler of a loaded module is a handler, and none of the bot's own.
LEMMA HookTypes ==
    ASSUME NEW f \in File
    PROVE  /\ Len(Registers[f]) \in Nat /\ Len(Drops[f]) \in Nat
           /\ \A i \in 1 .. Len(Registers[f]) :
                 /\ Registers[f][i].kind \in Kinds
                 /\ [key |-> Registers[f][i].key, module |-> f] \in HandlerEntry
           /\ \A i \in 1 .. Len(Drops[f]) :
                 /\ Drops[f][i].kind \in Kinds
                 /\ [key |-> Drops[f][i].key, module |-> f] \in HandlerEntry
<1>1. Registers[f] \in Seq(Hook) /\ Drops[f] \in Seq(Hook)
  BY ModulesAssumption
<1>2. \A h \in Hook : h.kind \in Kinds /\ [key |-> h.key, module |-> f] \in HandlerEntry
  <2> SUFFICES ASSUME NEW h \in Hook
               PROVE  h.kind \in Kinds /\ [key |-> h.key, module |-> f] \in HandlerEntry
    OBVIOUS
  <2>1. h.kind \in Kinds
    BY DEF Hook
  <2>2. h.key \in {g.key : g \in Hook}
    OBVIOUS
  <2>3. [key |-> h.key, module |-> f] \in [key : {g.key : g \in Hook}, module : File]
    BY <2>2
  <2> QED
    BY <2>1, <2>3 DEF HandlerEntry
<1>3. /\ Len(Registers[f]) \in Nat /\ \A i \in 1 .. Len(Registers[f]) : Registers[f][i] \in Hook
      /\ Len(Drops[f]) \in Nat /\ \A i \in 1 .. Len(Drops[f]) : Drops[f][i] \in Hook
  BY <1>1, LenProperties, ElementOfSeq
<1> QED
  BY <1>2, <1>3

\* A turn of module_init or module_shutdown is for one of its handlers.
LEMMA TurnIs ==
    ASSUME NEW f \in File, NEW i \in Nat \ {0}
    PROVE  /\ i <= Len(Registers[f]) => i \in 1 .. Len(Registers[f])
           /\ i <= Len(Drops[f]) => i \in 1 .. Len(Drops[f])
BY HookTypes

\* Copies are nodes, and finitely many.
LEMMA CopiesFinite ==
    ASSUME ListsOK, NEW f
    PROVE  /\ Copies(f) \subseteq Node /\ IsFiniteSet(Copies(f))
           /\ Cardinality(Copies(f)) \in Nat
<1>1. Copies(f) \subseteq Node
  BY PlacesOf, KindsAreLists DEF Copies
<1> QED
  BY <1>1, NodeAssumption, FS_Subset, FS_CardinalityType

\* Registering leaves the modules as they are.
LEMMA AddHandler ==
    ASSUME ListsOK, EntriesOK, NEW l \in Kinds, NEW e \in HandlerEntry, AddTo(l, e)
    PROVE  /\ ListsOK' /\ EntriesOK'
           /\ On(Loaded)' = On(Loaded)
           /\ \A n \in On(Loaded) : data'[n] = data[n]
           /\ \A f : Copies(f)' = Copies(f)
           /\ On(l)' = On(l) \cup {Malloc}
           /\ data'[Malloc] = e
           /\ \A k \in Kinds : \A n \in On(k) : data'[n] = data[n]
           /\ \A k \in Kinds : k # l => On(k)' = On(k)
<1>1. l \in List /\ Loaded \in List /\ l # Loaded /\ e \in Entry
      /\ \A k \in Kinds : k \in List
  BY KindsAreLists, EntryTypes
<1>2. /\ ListsOK'
      /\ Malloc \in Node /\ \A k \in List : Malloc \notin On(k)
      /\ On(l)' = On(l) \cup {Malloc}
      /\ \A k \in List \ {l} : On(k)' = On(k)
      /\ \A n \in Node : data'[n] = IF n = Malloc THEN e ELSE data[n]
  BY <1>1, AddShape
<1>3. \A k \in List : On(k) \subseteq Node
  BY PlacesOf
<1>4. \A k \in List : \A n \in On(k) : data'[n] = data[n]
  BY <1>2, <1>3
<1>5. On(Loaded)' = On(Loaded)
  BY <1>1, <1>2
<1>6. \A f : Copies(f)' = Copies(f)
  BY <1>1, <1>4, <1>5 DEF Copies
<1>7. EntriesOK'
  BY <1>1, <1>2, <1>4, <1>5 DEF EntriesOK
<1> QED
  BY <1>1, <1>2, <1>4, <1>5, <1>6, <1>7

\* So does dropping a handler.
LEMMA DropHandler ==
    ASSUME ListsOK, EntriesOK, NEW l \in Kinds, NEW i \in DOMAIN Chain(mem, l),
           Drop(Chain(mem, l)[i], l)
    PROVE  /\ ListsOK' /\ EntriesOK'
           /\ On(Loaded)' = On(Loaded)
           /\ \A n \in On(Loaded) : data'[n] = data[n]
           /\ \A f : Copies(f)' = Copies(f)
           /\ On(l)' = On(l) \ {Chain(mem, l)[i]}
           /\ \A k \in Kinds : \A n \in On(k)' : n \in On(k) /\ data'[n] = data[n]
           /\ \A k \in Kinds : k # l => On(k)' = On(k)
<1> DEFINE x == Chain(mem, l)[i]
<1>1. l \in List /\ Loaded \in List /\ l # Loaded
      /\ \A k \in Kinds : k \in List
  BY KindsAreLists
<1>2. /\ ListsOK'
      /\ On(l)' = On(l) \ {x}
      /\ \A k \in List \ {l} : On(k)' = On(k)
      /\ \A n \in Node : data'[n] = IF n = x THEN Null ELSE data[n]
  BY <1>1, DropShape
<1>3. (\A k \in List : On(k) \subseteq Node) /\ x \in On(l)
  BY <1>1, PlacesOf
<1> HIDE DEF x
<1>4. ASSUME NEW k \in List, NEW n \in On(k)'
      PROVE  n \in On(k) /\ data'[n] = data[n]
  <2>1. n \in On(k) /\ n # x /\ n \in Node
    BY <1>1, <1>2, <1>3 DEF ListsOK
  <2> QED
    BY <1>2, <2>1
<1>5. On(Loaded)' = On(Loaded)
  BY <1>1, <1>2
<1>6. \A f : Copies(f)' = Copies(f)
  BY <1>1, <1>4, <1>5 DEF Copies
<1>7. EntriesOK'
  BY <1>1, <1>4, <1>5 DEF EntriesOK
<1> QED
  BY <1>1, <1>2, <1>4, <1>5, <1>6, <1>7 DEF x

\* A module joins the list, and the handlers stay.
LEMMA AddModule ==
    ASSUME ListsOK, EntriesOK, RefsOK, NEW e \in ModuleEntry, AddTo(Loaded, e),
           refs' = [refs EXCEPT ![e.module] = @ + 1]
    PROVE  /\ ListsOK' /\ EntriesOK' /\ RefsOK'
           /\ Malloc \in Node /\ On(Loaded)' = On(Loaded) \cup {Malloc}
           /\ data'[Malloc] = e
           /\ \A f : Copies(f) \subseteq Copies(f)'
           /\ \A k \in Kinds : On(k)' = On(k) /\ \A n \in On(k) : data'[n] = data[n]
<1>1. Loaded \in List /\ e \in Entry /\ e.module \in File
      /\ \A k \in Kinds : k \in List /\ k # Loaded
  BY KindsAreLists, EntryTypes
<1>2. /\ ListsOK'
      /\ Malloc \in Node /\ \A k \in List : Malloc \notin On(k)
      /\ On(Loaded)' = On(Loaded) \cup {Malloc}
      /\ \A k \in List \ {Loaded} : On(k)' = On(k)
      /\ \A n \in Node : data'[n] = IF n = Malloc THEN e ELSE data[n]
  BY <1>1, AddShape
<1>3. \A k \in List : On(k) \subseteq Node
  BY PlacesOf
<1>4. \A k \in List : \A n \in On(k) : data'[n] = data[n]
  BY <1>2, <1>3
<1>5. EntriesOK'
  BY <1>1, <1>2, <1>4 DEF EntriesOK
<1>6. \A f : Copies(f)' = IF f = e.module THEN Copies(f) \cup {Malloc} ELSE Copies(f)
  BY <1>1, <1>2, <1>4 DEF Copies
<1>7. RefsOK'
  <2>1. refs' \in [File -> Nat]
        /\ \A f \in File : refs'[f] = IF f = e.module THEN refs[f] + 1 ELSE refs[f]
    BY <1>1 DEF RefsOK
  <2>2. Malloc \notin Copies(e.module)
    BY <1>1, <1>2 DEF Copies
  <2>3. Cardinality(Copies(e.module) \cup {Malloc}) = Cardinality(Copies(e.module)) + 1
    BY <2>2, CopiesFinite, FS_AddElement
  <2> QED
    BY <1>6, <2>1, <2>3 DEF RefsOK
<1>8. \A f : Copies(f) \subseteq Copies(f)'
  BY <1>6
<1>9. \A k \in Kinds : On(k)' = On(k) /\ \A n \in On(k) : data'[n] = data[n]
  BY <1>1, <1>2, <1>4
<1> QED
  BY <1>2, <1>5, <1>7, <1>8, <1>9

\* A module leaves the list, and the handlers stay.
LEMMA DropModule ==
    ASSUME ListsOK, EntriesOK, RefsOK, NEW n \in On(Loaded), Drop(n, Loaded),
           refs' = [refs EXCEPT ![data[n].module] = @ - 1]
    PROVE  /\ ListsOK' /\ EntriesOK' /\ RefsOK'
           /\ \A f : f # data[n].module => Copies(f)' = Copies(f)
           /\ \A k \in Kinds : On(k)' = On(k) /\ \A y \in On(k) : data'[y] = data[y]
           /\ \A k \in Kinds : Chain(mem', k) = Chain(mem, k)
<1> DEFINE g == data[n].module
<1>1. Loaded \in List /\ g \in File
      /\ \A k \in Kinds : k \in List /\ k # Loaded
  BY KindsAreLists, EntryTypes DEF EntriesOK
<1>2. PICK i \in DOMAIN Chain(mem, Loaded) : n = Chain(mem, Loaded)[i]
  BY <1>1, PlacesOf
<1>3. /\ ListsOK'
      /\ On(Loaded)' = On(Loaded) \ {n}
      /\ \A k \in List \ {Loaded} : On(k)' = On(k) /\ Chain(mem', k) = Chain(mem, k)
      /\ \A y \in Node : data'[y] = IF y = n THEN Null ELSE data[y]
  BY <1>1, <1>2, DropShape
<1>4. \A k \in List : On(k) \subseteq Node
  BY PlacesOf
<1>5. ASSUME NEW k \in List, NEW y \in On(k)'
      PROVE  y \in On(k) /\ y # n /\ data'[y] = data[y]
  <2>1. y \in On(k) /\ y # n /\ y \in Node
    BY <1>1, <1>3, <1>4 DEF ListsOK
  <2> QED
    BY <1>3, <2>1
<1>6. EntriesOK'
  BY <1>1, <1>5 DEF EntriesOK
<1>7. \A f : Copies(f)' = IF f = g THEN Copies(f) \ {n} ELSE Copies(f)
  BY <1>1, <1>3, <1>5 DEF Copies
<1>8. RefsOK'
  <2>1. n \in Copies(g)
    BY DEF Copies
  <2>2. /\ Cardinality(Copies(g) \ {n}) = Cardinality(Copies(g)) - 1
        /\ Cardinality(Copies(g) \ {n}) \in Nat
    <3>1. IsFiniteSet(Copies(g) \ {n})
      BY CopiesFinite, FS_Subset
    <3> QED
      BY <2>1, <3>1, CopiesFinite, FS_RemoveElement, FS_CardinalityType
  <2> HIDE DEF g
  <2>3. refs[g] - 1 \in Nat
    BY <1>1, <2>2 DEF RefsOK
  <2>4. refs' = [refs EXCEPT ![g] = @ - 1]
    BY DEF g
  <2>5. refs' \in [File -> Nat]
        /\ \A f \in File : refs'[f] = IF f = g THEN refs[f] - 1 ELSE refs[f]
    BY <1>1, <2>3, <2>4 DEF RefsOK
  <2> QED
    BY <1>7, <2>2, <2>5 DEF RefsOK
<1>9. /\ \A k \in Kinds : On(k)' = On(k) /\ \A y \in On(k) : data'[y] = data[y]
      /\ \A k \in Kinds : Chain(mem', k) = Chain(mem, k)
  BY <1>1, <1>3, <1>5
<1> QED
  BY <1>3, <1>6, <1>7, <1>8, <1>9

\* The pointers of a list, by its places.
LEMMA PointersOf ==
    ASSUME ListsOK, NEW l \in List
    PROVE  /\ mem.head[l] = IF Len(Chain(mem, l)) = 0 THEN Null ELSE Chain(mem, l)[1]
           /\ mem.head[l] \in Pointer
           /\ \A i \in 1 .. Len(Chain(mem, l)) :
                 /\ Chain(mem, l)[i] \in Node /\ Chain(mem, l)[i] # Null
                 /\ mem.next[Chain(mem, l)[i]] =
                       IF i = Len(Chain(mem, l)) THEN Null ELSE Chain(mem, l)[i + 1]
                 /\ mem.next[Chain(mem, l)[i]] \in Pointer
<1> DEFINE s == Chain(mem, l)
<1>1. Represents(mem, l, s) /\ IsMemory(mem)
  BY DEF ListsOK
<1> HIDE DEF s
<1>2. /\ Len(s) \in Nat /\ \A i \in 1 .. Len(s) : s[i] \in Node
      /\ s = << >> <=> Len(s) = 0
  BY <1>1, ListFits
<1>3. /\ mem.head[l] = IF Len(s) = 0 THEN Null ELSE s[1]
      /\ \A i \in 1 .. Len(s) : mem.next[s[i]] = IF i = Len(s) THEN Null ELSE s[i + 1]
  BY <1>1, <1>2 DEF Represents
<1>4. mem.head[l] \in Pointer /\ \A n \in Node : mem.next[n] \in Pointer /\ n # Null
  BY <1>1, NodeAssumption DEF IsMemory
<1> QED
  BY <1>2, <1>3, <1>4 DEF s

-----------------------------------------------------------------------------
(* Every step keeps the invariant *)

\* What a frame holds.
LEMMA FrameShapes ==
    ASSUME FrameOK
    PROVE  /\ frame.at = "init" => frame \in InitFrames
           /\ frame.at = "shutdown" => frame \in ShutdownFrames
           /\ frame.at = "clear" => frame \in ClearFrames
           /\ frame.at \in {"init", "shutdown"} => frame.node \in On(Loaded)
           /\ frame.at = "clear" /\ frame.node # Null => frame.node \in On(Order[frame.k])
           /\ frame = Crashed => frame.at = "crashed"
BY DEF FrameOK, Idle, Crashed, InitFrames, ShutdownFrames, ClearFrames

\* Outside the walks, and at their end, nothing is about to go.
Finished == frame.at = "clear" => frame.node = Null /\ frame.k = Len(Order)

\* Outside the walks, and at their end, every handler left is of a listed module
\* that is open.
LEMMA MappedIsAll ==
    ASSUME IInv, frame # Crashed, Finished
    PROVE  AllMapped
<1> SUFFICES ASSUME NEW l \in Kinds, NEW n \in On(l), data[n].module # Null, ToClear(n, l)
             PROVE  FALSE
  BY DEF IInv, Mapped, AllMapped
<1>1. frame.at = "clear" /\ frame.node = Null /\ frame.k = Len(Order)
  BY DEF ToClear, Finished
<1>2. ~ \E j \in DOMAIN Order : frame.k < j
  BY <1>1, KindsAreLists
<1>3. Remaining(n, l)
  BY <1>2 DEF ToClear
<1>4. l \in List /\ ListsOK
  BY KindsAreLists DEF IInv
<1>5. \A i \in DOMAIN Chain(mem, l) : Chain(mem, l)[i] # Null
  BY <1>4, PointersOf, PlacesOf
<1> QED
  BY <1>1, <1>3, <1>5 DEF Remaining

\* When nothing is about to go, that is enough.
LEMMA AllIsMapped ==
    ASSUME AllMapped'
    PROVE  Mapped'
BY DEF Mapped, AllMapped

\* A module that is opened joins the list.
LEMMA InitModuleOK ==
    ASSUME IInv, AllMapped, NEW name \in Name, initmodule(name),
           toLoad' \subseteq Installed
    PROVE  IInv'
<1>1. CASE frame' = Idle /\ UNCHANGED <<mem, data, refs>>
  <2>1. ListsOK' /\ EntriesOK' /\ RefsOK' /\ AllMapped'
    BY <1>1 DEF IInv, ListsOK, EntriesOK, RefsOK, Copies, AllMapped, HasModule, On
  <2>2. FrameOK'
    BY <1>1 DEF FrameOK, Idle, Crashed
  <2> QED
    BY <2>1, <2>2, AllIsMapped DEF IInv
<1>2. CASE /\ AddTo(Loaded, [key |-> name, module |-> FileOf[name]])
           /\ refs' = [refs EXCEPT ![FileOf[name]] = @ + 1]
           /\ frame' = [at |-> "init", node |-> Malloc, i |-> 1]
  <2> DEFINE e == [key |-> name, module |-> FileOf[name]]
  <2>1. e \in ModuleEntry /\ e.module = FileOf[name]
    BY ModulesAssumption DEF ModuleEntry
  <2>2. AddTo(Loaded, e) /\ refs' = [refs EXCEPT ![e.module] = @ + 1]
    BY <1>2
  <2> HIDE DEF e
  <2>3. /\ ListsOK' /\ EntriesOK' /\ RefsOK'
        /\ Malloc \in Node /\ On(Loaded)' = On(Loaded) \cup {Malloc}
        /\ \A f : Copies(f) \subseteq Copies(f)'
        /\ \A k \in Kinds : On(k)' = On(k) /\ \A n \in On(k) : data'[n] = data[n]
    BY <2>1, <2>2, AddModule DEF IInv
  <2>4. FrameOK'
    <3>1. frame' \in InitFrames /\ frame'.node \in On(Loaded)' /\ frame'.at = "init"
      BY <1>2, <2>3 DEF InitFrames
    <3> QED
      BY <3>1 DEF FrameOK
  <2>5. AllMapped'
    <3> SUFFICES ASSUME NEW l \in Kinds, NEW n \in On(l)', data'[n].module # Null
                 PROVE  HasModule(n)'
      BY DEF AllMapped
    <3>1. n \in On(l) /\ data'[n] = data[n]
      BY <2>3
    <3>2. PICK m \in On(Loaded) : data[m].module = data[n].module
      BY <3>1 DEF AllMapped, HasModule
    <3>3. m \in Copies(data[n].module)
      BY <3>2 DEF Copies
    <3> DEFINE g == data[n].module
    <3>4. g = data'[n].module
      BY <3>1
    <3> HIDE DEF g
    <3>5. m \in {y \in On(Loaded)' : data'[y].module = g}
      BY <2>3, <3>3 DEF g, Copies
    <3> QED
      BY <3>4, <3>5 DEF HasModule
  <2> QED
    BY <2>3, <2>4, <2>5, AllIsMapped DEF IInv
<1> QED
  BY <1>1, <1>2 DEF initmodule

\* module_init registers a handler: its module is listed.
LEMMA InitStepOK ==
    ASSUME IInv, InitStep
    PROVE  IInv'
<1>1. /\ frame \in InitFrames /\ frame.node \in On(Loaded) /\ frame # Crashed
      /\ frame.at = "init" /\ frame.at # "clear"
  BY FrameShapes DEF IInv, InitStep
<1>2. PICK l \in Kinds, e \in HandlerEntry :
         AddTo(l, e) /\ e.module = data[frame.node].module
  <2> DEFINE f == data[frame.node].module
             r == Registers[f][frame.i]
  <2>1. f \in File /\ frame.i \in Nat \ {0}
    BY <1>1, EntryTypes DEF IInv, EntriesOK, InitFrames
  <2>2. frame.i \in 1 .. Len(Registers[f])
    <3>1. frame.i <= Len(Registers[f])
      BY DEF InitStep
    <3> QED
      BY <3>1, <2>1, TurnIs
  <2>3. r.kind \in Kinds /\ [key |-> r.key, module |-> f] \in HandlerEntry
    BY <2>1, <2>2, HookTypes
  <2>4. AddTo(r.kind, [key |-> r.key, module |-> f])
    BY DEF InitStep
  <2>5. [key |-> r.key, module |-> f].module = f
    OBVIOUS
  <2> HIDE DEF r
  <2> QED
    BY <2>3, <2>4, <2>5
<1>6. /\ frame' = [frame EXCEPT !.i = @ + 1] /\ refs' = refs /\ toLoad' = toLoad
  BY DEF InitStep
<1>7. /\ ListsOK' /\ EntriesOK'
      /\ On(Loaded)' = On(Loaded)
      /\ \A n \in On(Loaded) : data'[n] = data[n]
      /\ \A g : Copies(g)' = Copies(g)
      /\ On(l)' = On(l) \cup {Malloc}
      /\ data'[Malloc] = e
      /\ \A k \in Kinds : \A n \in On(k) : data'[n] = data[n]
      /\ \A k \in Kinds : k # l => On(k)' = On(k)
  BY <1>2, AddHandler DEF IInv
<1>8. RefsOK'
  BY <1>6, <1>7 DEF IInv, RefsOK
<1>9. FrameOK'
  <2>1. frame' \in InitFrames /\ frame'.node = frame.node /\ frame'.at = "init"
    BY <1>1, <1>6 DEF InitFrames
  <2> QED
    BY <1>1, <1>7, <2>1 DEF FrameOK
<1>10. AllMapped
  BY <1>1, MappedIsAll DEF Finished
<1>11. AllMapped'
  <2> SUFFICES ASSUME NEW k \in Kinds, NEW n \in On(k)', data'[n].module # Null
               PROVE  HasModule(n)'
    BY DEF AllMapped
  <2>1. CASE n \in On(k)
    <3>1. data'[n] = data[n]
      BY <1>7, <2>1
    <3>2. PICK m \in On(Loaded) : data[m].module = data[n].module
      BY <1>10, <2>1, <3>1 DEF AllMapped, HasModule
    <3> QED
      BY <1>7, <3>1, <3>2 DEF HasModule
  <2>2. CASE n \notin On(k)
    <3>1. k = l
      BY <1>7, <2>2
    <3>x. n = Malloc /\ data'[n] = e
      BY <1>7, <2>2, <3>1
    <3>2. frame.node \in On(Loaded)' /\ data'[frame.node] = data[frame.node]
      BY <1>1, <1>7
    <3> QED
      BY <1>2, <3>x, <3>2 DEF HasModule
  <2> QED
    BY <2>1, <2>2
<1> QED
  BY <1>6, <1>7, <1>8, <1>9, <1>11, AllIsMapped DEF IInv

\* module_init returns.
LEMMA InitEndOK ==
    ASSUME IInv, InitEnd
    PROVE  IInv'
<1>1. frame.at = "init" /\ frame.at # "clear" /\ frame # Crashed
  BY FrameShapes DEF IInv, InitEnd
<1>2. AllMapped
  BY <1>1, MappedIsAll DEF Finished
<1>3. ListsOK' /\ EntriesOK' /\ RefsOK' /\ AllMapped' /\ toLoad' \subseteq Installed
  BY <1>2 DEF InitEnd, IInv, ListsOK, EntriesOK, RefsOK, Copies, AllMapped, HasModule, On
<1>4. FrameOK'
  BY DEF InitEnd, FrameOK, Idle, Crashed
<1> QED
  BY <1>3, <1>4, AllIsMapped DEF IInv

\* The module is about to be shut down: it is one of the list.
LEMMA ShutdownBegins ==
    ASSUME IInv, AllMapped, NEW n \in On(Loaded), NEW then \in Name \cup {Null},
           frame' = Shutdown(n, then), UNCHANGED <<mem, data, refs, toLoad>>
    PROVE  IInv'
<1>1. ListsOK' /\ EntriesOK' /\ RefsOK' /\ AllMapped' /\ toLoad' \subseteq Installed
  BY DEF IInv, ListsOK, EntriesOK, RefsOK, Copies, AllMapped, HasModule, On
<1>2. n \in Node /\ n \in On(Loaded)'
  BY PlacesOf, KindsAreLists DEF IInv, On
<1>3. frame' \in ShutdownFrames /\ frame'.node = n /\ frame'.at = "shutdown"
  BY <1>2 DEF Shutdown, ShutdownFrames
<1>4. FrameOK'
  BY <1>2, <1>3 DEF FrameOK
<1> QED
  BY <1>1, <1>4, AllIsMapped DEF IInv

\* module_init fails: its module is shut down.
LEMMA InitFailsOK ==
    ASSUME IInv, InitFails
    PROVE  IInv'
<1>1. frame.at = "init" /\ frame.at # "clear" /\ frame # Crashed /\ frame.node \in On(Loaded)
  BY FrameShapes DEF IInv, InitFails
<1>2. AllMapped
  BY <1>1, MappedIsAll DEF Finished
<1> QED
  BY <1>1, <1>2, ShutdownBegins DEF InitFails

\* What is dropped of a registry leaves the others' modules as they are.
LEMMA DropKeepsMapped ==
    ASSUME AllMapped, On(Loaded)' = On(Loaded),
           \A n \in On(Loaded) : data'[n] = data[n],
           \A k \in Kinds : \A n \in On(k)' : n \in On(k) /\ data'[n] = data[n]
    PROVE  AllMapped'
BY DEF AllMapped, HasModule

\* module_shutdown drops a handler, or finds none.
LEMMA ShutdownStepOK ==
    ASSUME IInv, ShutdownStep
    PROVE  IInv'
<1>1. /\ frame \in ShutdownFrames /\ frame.node \in On(Loaded) /\ frame # Crashed
      /\ frame.at = "shutdown" /\ frame.at # "clear"
  BY FrameShapes DEF IInv, ShutdownStep
<1>2. PICK l \in Kinds, e \in HandlerEntry : DeleteFirst(l, e)
  <2> DEFINE f == data[frame.node].module
             r == Drops[f][frame.i]
  <2>1. f \in File /\ frame.i \in Nat \ {0}
    BY <1>1, EntryTypes DEF IInv, EntriesOK, ShutdownFrames
  <2>2. frame.i \in 1 .. Len(Drops[f])
    <3>1. frame.i <= Len(Drops[f])
      BY DEF ShutdownStep
    <3> QED
      BY <3>1, <2>1, TurnIs
  <2>3. r.kind \in Kinds /\ [key |-> r.key, module |-> f] \in HandlerEntry
    BY <2>1, <2>2, HookTypes
  <2>4. DeleteFirst(r.kind, [key |-> r.key, module |-> f])
    BY DEF ShutdownStep
  <2> HIDE DEF r
  <2> QED
    BY <2>3, <2>4
<1>3. /\ frame' = [frame EXCEPT !.i = @ + 1] /\ refs' = refs /\ toLoad' = toLoad
  BY DEF ShutdownStep
<1>4. AllMapped
  BY <1>1, MappedIsAll DEF Finished
<1>5. /\ ListsOK' /\ EntriesOK' /\ AllMapped'
      /\ On(Loaded)' = On(Loaded)
      /\ \A g : Copies(g)' = Copies(g)
  <2>1. CASE UNCHANGED <<mem, data>>
    BY <1>4, <2>1 DEF IInv, ListsOK, EntriesOK, Copies, AllMapped, HasModule, On
  <2>2. ASSUME NEW i \in DOMAIN Chain(mem, l), Drop(Chain(mem, l)[i], l)
        PROVE  /\ ListsOK' /\ EntriesOK' /\ AllMapped'
               /\ On(Loaded)' = On(Loaded)
               /\ \A g : Copies(g)' = Copies(g)
    <3>1. /\ ListsOK' /\ EntriesOK'
          /\ On(Loaded)' = On(Loaded)
          /\ \A n \in On(Loaded) : data'[n] = data[n]
          /\ \A g : Copies(g)' = Copies(g)
          /\ \A k \in Kinds : \A n \in On(k)' : n \in On(k) /\ data'[n] = data[n]
      BY <2>2, DropHandler DEF IInv
    <3> QED
      BY <1>4, <3>1, DropKeepsMapped
  <2> QED
    BY <1>2, <2>1, <2>2 DEF DeleteFirst, IsFirst
<1>6. RefsOK'
  BY <1>3, <1>5 DEF IInv, RefsOK
<1>7. FrameOK'
  <2>1. frame' \in ShutdownFrames /\ frame'.node = frame.node /\ frame'.at = "shutdown"
    BY <1>1, <1>3 DEF ShutdownFrames
  <2> QED
    BY <1>1, <1>5, <2>1 DEF FrameOK
<1> QED
  BY <1>3, <1>5, <1>6, <1>7, AllIsMapped DEF IInv

\* From the head of a list on, all of it is still to come.
LEMMA FromHead ==
    ASSUME ListsOK, NEW l \in List
    PROVE  /\ mem.head[l] \in Pointer
           /\ mem.head[l] # Null => mem.head[l] \in On(l)
           /\ \A n \in On(l) : \E i, j \in DOMAIN Chain(mem, l) :
                 i <= j /\ Chain(mem, l)[i] = mem.head[l] /\ Chain(mem, l)[j] = n
<1> DEFINE s == Chain(mem, l)
<1>1. /\ Len(s) \in Nat /\ DOMAIN s = 1 .. Len(s) /\ On(l) = {s[i] : i \in 1 .. Len(s)}
  BY PlacesOf
<1>2. mem.head[l] \in Pointer /\ mem.head[l] = IF Len(s) = 0 THEN Null ELSE s[1]
  BY PointersOf
<1> HIDE DEF s
<1>3. ASSUME NEW n \in On(l)
      PROVE  \E i, j \in DOMAIN s : i <= j /\ s[i] = mem.head[l] /\ s[j] = n
  <2>1. PICK j \in 1 .. Len(s) : s[j] = n
    BY <1>1
  <2>2. 1 \in DOMAIN s /\ j \in DOMAIN s /\ 1 <= j /\ s[1] = mem.head[l]
    BY <1>1, <1>2
  <2> QED
    BY <2>1, <2>2
<1>4. mem.head[l] # Null => mem.head[l] \in On(l)
  <2>1. Len(s) # 0 => 1 \in 1 .. Len(s)
    BY <1>1
  <2> QED
    BY <1>1, <1>2, <2>1
<1> QED
  BY <1>2, <1>3, <1>4 DEF s

\* dlclose: the handlers left of the module are all still to come.
LEMMA UnmapOK ==
    ASSUME IInv, Unmap
    PROVE  IInv'
<1>1. /\ frame \in ShutdownFrames /\ frame.node \in On(Loaded) /\ frame # Crashed
      /\ frame.at = "shutdown" /\ frame.at # "clear"
  BY FrameShapes DEF IInv, Unmap
<1>2. PICK f \in File : /\ f = data[frame.node].module
                        /\ refs' = [refs EXCEPT ![f] = @ - 1]
                        /\ frame' = [at |-> "clear", file |-> f, k |-> 1,
                                     node |-> mem.head[Order[1]], then |-> frame.then]
  BY <1>1, EntryTypes DEF IInv, EntriesOK, Unmap
<1>3. Drop(frame.node, Loaded) /\ toLoad' = toLoad
  BY DEF Unmap
<1>4. AllMapped
  BY <1>1, MappedIsAll DEF Finished
<1>5. /\ ListsOK' /\ EntriesOK' /\ RefsOK'
      /\ \A g : g # f => Copies(g)' = Copies(g)
      /\ \A k \in Kinds : On(k)' = On(k) /\ \A y \in On(k) : data'[y] = data[y]
      /\ \A k \in Kinds : Chain(mem', k) = Chain(mem, k)
  BY <1>1, <1>2, <1>3, DropModule DEF IInv
<1>6. 1 \in DOMAIN Order /\ Order[1] \in Kinds /\ Order[1] \in List
  BY KindsAreLists
<1>7. FrameOK'
  <2>1. frame' \in ClearFrames /\ frame'.at = "clear" /\ frame'.k = 1
        /\ frame'.node = mem.head[Order[1]]
    BY <1>1, <1>2, <1>6, FromHead DEF ClearFrames, ShutdownFrames, IInv
  <2>2. frame'.node # Null => frame'.node \in On(Order[1])
    BY <1>6, <2>1, FromHead DEF IInv
  <2> QED
    BY <1>5, <1>6, <2>1, <2>2 DEF FrameOK
<1>8. Mapped'
  <2> SUFFICES ASSUME NEW l \in Kinds, NEW n \in On(l)', data'[n].module # Null
               PROVE  HasModule(n)' \/ ToClear(n, l)'
    BY DEF Mapped
  <2>1. n \in On(l) /\ data'[n] = data[n]
    BY <1>5
  <2>2. CASE data[n].module = f
    <3>1. frame'.at = "clear" /\ data'[n].module = frame'.file /\ frame'.k = 1
          /\ frame'.node = mem.head[Order[1]]
      BY <1>2, <2>1, <2>2
    <3>2. CASE l = Order[1]
      <4>1. \E i, j \in DOMAIN Chain(mem, l) :
               i <= j /\ Chain(mem, l)[i] = mem.head[l] /\ Chain(mem, l)[j] = n
        BY <1>6, <2>1, <3>2, FromHead DEF IInv
      <4>2. Remaining(n, l)'
        BY <1>5, <3>1, <3>2, <4>1 DEF Remaining
      <4> QED
        BY <3>1, <3>2, <4>2 DEF ToClear
    <3>3. CASE l # Order[1]
      <4>1. PICK j \in DOMAIN Order : Order[j] = l
        BY DEF Kinds, Range
      <4>2. 1 < j
        BY <3>3, <4>1, KindsAreLists
      <4> QED
        BY <3>1, <4>1, <4>2 DEF ToClear
    <3> QED
      BY <3>2, <3>3
  <2>3. CASE data[n].module # f
    <3>1. PICK m \in On(Loaded) : data[m].module = data[n].module
      BY <1>4, <2>1 DEF AllMapped, HasModule
    <3> DEFINE g == data[n].module
    <3>2. m \in Copies(g)
      BY <3>1 DEF Copies
    <3>3. g = data'[n].module /\ g # f
      BY <2>1, <2>3
    <3> HIDE DEF g
    <3>4. \A h : h = data[n].module => m \in {y \in On(Loaded)' : data'[y].module = h}
      BY <1>5, <2>3, <3>2 DEF Copies, g
    <3> QED
      BY <3>3, <3>4 DEF HasModule, g
  <2> QED
    BY <2>2, <2>3
<1> QED
  BY <1>3, <1>5, <1>7, <1>8 DEF IInv

\* The walk of a registry has taken out the i-th handler, which was none of a
\* listed module, and goes on to the one behind it.
LEMMA ClearDropOK ==
    ASSUME IInv, frame \in ClearFrames, frame.at = "clear",
           NEW l \in Kinds, l = Order[frame.k],
           NEW i \in DOMAIN Chain(mem, l), frame.node = Chain(mem, l)[i],
           Drop(Chain(mem, l)[i], l),
           frame' = [frame EXCEPT !.node = mem.next[@]],
           UNCHANGED <<refs, toLoad>>
    PROVE  IInv'
<1> DEFINE s == Chain(mem, l)
           t == RemoveAt(s, i)
<1>0. l \in List
  BY KindsAreLists
<1>1. /\ Len(s) \in Nat /\ i \in 1 .. Len(s) /\ DOMAIN s = 1 .. Len(s) /\ s \in Seq(Node)
      /\ On(l) = {s[j] : j \in 1 .. Len(s)}
  BY <1>0, PlacesOf DEF IInv
<1>2. /\ mem.next[s[i]] = IF i = Len(s) THEN Null ELSE s[i + 1]
      /\ mem.next[s[i]] \in Pointer
  BY <1>0, <1>1, PointersOf DEF IInv
<1>3. /\ DOMAIN t = 1 .. Len(s) - 1
      /\ \A j \in 1 .. Len(s) - 1 : t[j] = IF j < i THEN s[j] ELSE s[j + 1]
  BY <1>1, RemoveAtShape
<1>4. /\ Chain(mem', l) = t
      /\ \A k \in List \ {l} : Chain(mem', k) = Chain(mem, k)
  BY <1>0, DropShape DEF IInv
<1>5. /\ ListsOK' /\ EntriesOK'
      /\ On(Loaded)' = On(Loaded)
      /\ \A n \in On(Loaded) : data'[n] = data[n]
      /\ \A g : Copies(g)' = Copies(g)
      /\ On(l)' = On(l) \ {s[i]}
      /\ \A k \in Kinds : \A n \in On(k)' : n \in On(k) /\ data'[n] = data[n]
  BY DropHandler DEF IInv
<1>6. On(l)' = {t[j] : j \in 1 .. Len(s) - 1}
  BY <1>3, <1>4 DEF On, Range
<1>7. /\ frame' \in ClearFrames /\ frame'.at = "clear" /\ frame'.k = frame.k
      /\ frame'.file = frame.file /\ frame'.node = mem.next[s[i]]
  BY <1>2 DEF ClearFrames
<1>x. frame.node = s[i]
  OBVIOUS
<1> HIDE DEF s, t
<1>n. i # Len(s) => i \in 1 .. Len(s) - 1 /\ t[i] = s[i + 1]
  <2>1. i # Len(s) => i \in 1 .. Len(s) - 1
    BY <1>1
  <2>2. i \in 1 .. Len(s) - 1 => t[i] = s[i + 1]
    BY <1>1, <1>3
  <2> QED
    BY <2>1, <2>2
<1>8. FrameOK'
  <2>1. frame'.node # Null => frame'.node \in On(l)'
    BY <1>2, <1>6, <1>7, <1>n
  <2> QED
    BY <1>7, <2>1 DEF FrameOK
<1>9. RefsOK'
  BY <1>5 DEF IInv, RefsOK
<1>10. Mapped'
  <2> SUFFICES ASSUME NEW k \in Kinds, NEW n \in On(k)', data'[n].module # Null
               PROVE  HasModule(n)' \/ ToClear(n, k)'
    BY DEF Mapped
  <2>1. n \in On(k) /\ data'[n] = data[n]
    BY <1>5
  <2>2. HasModule(n) \/ ToClear(n, k)
    BY <2>1, FrameShapes DEF IInv, Mapped
  <2>3. CASE HasModule(n)
    BY <1>5, <2>1, <2>3 DEF HasModule
  <2>4. CASE \E j \in DOMAIN Order : frame.k < j /\ Order[j] = k
    <3>1. CASE HasModule(n)
      BY <2>3, <3>1
    <3>2. CASE ToClear(n, k)
      BY <1>7, <2>1, <2>4, <3>2 DEF ToClear
    <3> QED
      BY <2>2, <3>1, <3>2
  <2>5. CASE ToClear(n, k) /\ k = Order[frame.k] /\ Remaining(n, k)
    <3>1. k = l
      BY <2>5
    <3>2. PICK h, j \in DOMAIN s : h <= j /\ s[h] = frame.node /\ s[j] = n
      BY <2>5, <3>1 DEF Remaining, s
    <3>3. \A a, b \in 1 .. Len(s) : s[a] = s[b] => a = b
      BY <1>0, PlacesOf DEF IInv, s
    <3>4. h = i /\ j # i /\ j \in 1 .. Len(s)
      BY <1>1, <1>5, <1>x, <3>1, <3>2, <3>3
    <3>5. /\ i \in 1 .. Len(s) - 1 /\ j - 1 \in 1 .. Len(s) - 1 /\ i <= j - 1
          /\ ~(j - 1 < i) /\ j - 1 + 1 = j /\ i # Len(s)
      BY <1>1, <3>2, <3>4
    <3>6. t[j - 1] = n /\ t[i] = frame'.node
      BY <1>2, <1>3, <1>7, <1>n, <3>2, <3>5
    <3>7. Chain(mem', k) = t
      BY <1>4, <3>1
    <3>8. Remaining(n, k)'
      BY <1>3, <3>5, <3>6, <3>7 DEF Remaining
    <3> QED
      BY <1>7, <2>1, <2>5, <3>8 DEF ToClear
  <2> QED
    BY <2>2, <2>3, <2>4, <2>5 DEF ToClear
<1> QED
  BY <1>5, <1>8, <1>9, <1>10 DEF IInv

\* The walk has passed over the i-th handler, which is another module's.
LEMMA ClearPassOK ==
    ASSUME IInv, frame \in ClearFrames, frame.at = "clear",
           NEW l \in Kinds, l = Order[frame.k],
           NEW i \in DOMAIN Chain(mem, l), frame.node = Chain(mem, l)[i],
           data[frame.node].module # frame.file,
           frame' = [frame EXCEPT !.node = mem.next[@]],
           UNCHANGED <<mem, data, refs, toLoad>>
    PROVE  IInv'
<1> DEFINE s == Chain(mem, l)
<1>0. l \in List
  BY KindsAreLists
<1>1. /\ Len(s) \in Nat /\ i \in 1 .. Len(s) /\ DOMAIN s = 1 .. Len(s)
      /\ On(l) = {s[j] : j \in 1 .. Len(s)}
      /\ \A a, b \in 1 .. Len(s) : s[a] = s[b] => a = b
  BY <1>0, PlacesOf DEF IInv
<1>2. /\ mem.next[s[i]] = IF i = Len(s) THEN Null ELSE s[i + 1]
      /\ mem.next[s[i]] \in Pointer
  BY <1>0, <1>1, PointersOf DEF IInv
<1>3. ListsOK' /\ EntriesOK' /\ RefsOK' /\ toLoad' \subseteq Installed
  BY DEF IInv, ListsOK, EntriesOK, RefsOK, Copies, On
<1>4. /\ \A k \in List : On(k)' = On(k) /\ Chain(mem', k) = Chain(mem, k)
      /\ \A n : HasModule(n) => HasModule(n)'
  BY DEF On, HasModule
<1>7. /\ frame' \in ClearFrames /\ frame'.at = "clear" /\ frame'.k = frame.k
      /\ frame'.file = frame.file /\ frame'.node = mem.next[s[i]]
  BY <1>2 DEF ClearFrames
<1>x. frame.node = s[i]
  OBVIOUS
<1> HIDE DEF s
<1>8. FrameOK'
  <2>1. i # Len(s) => i + 1 \in 1 .. Len(s)
    BY <1>1
  <2>2. frame'.node # Null => i # Len(s) /\ frame'.node = s[i + 1]
    BY <1>2, <1>7
  <2>3. frame'.node # Null => frame'.node \in On(l)
    BY <1>1, <2>1, <2>2
  <2>4. On(l)' = On(l)
    BY <1>0, <1>4
  <2> QED
    BY <1>7, <2>3, <2>4 DEF FrameOK
<1>9. Mapped'
  <2> SUFFICES ASSUME NEW k \in Kinds, NEW n \in On(k)', data'[n].module # Null
               PROVE  HasModule(n)' \/ ToClear(n, k)'
    BY DEF Mapped
  <2>1. n \in On(k) /\ data'[n] = data[n] /\ k \in List
    BY <1>4, KindsAreLists
  <2>2. HasModule(n) \/ ToClear(n, k)
    BY <2>1, FrameShapes DEF IInv, Mapped
  <2>3. CASE HasModule(n)
    BY <1>4, <2>3
  <2>4. CASE ToClear(n, k) /\ \E j \in DOMAIN Order : frame.k < j /\ Order[j] = k
    BY <1>7, <2>1, <2>4 DEF ToClear
  <2>5. CASE ToClear(n, k) /\ k = Order[frame.k] /\ Remaining(n, k)
    <3>1. k = l
      BY <2>5
    <3>2. PICK h, j \in DOMAIN s : h <= j /\ s[h] = frame.node /\ s[j] = n
      BY <2>5, <3>1 DEF Remaining, s
    <3>3. data[n].module = frame.file
      BY <2>5 DEF ToClear
    <3>4. h = i /\ j # i /\ j \in 1 .. Len(s)
      BY <1>1, <1>x, <3>2, <3>3
    <3>5. i + 1 \in 1 .. Len(s) /\ i + 1 <= j /\ i # Len(s)
      BY <1>1, <3>2, <3>4
    <3>6. s[i + 1] = frame'.node
      BY <1>2, <1>7, <3>5
    <3>7. Chain(mem', k) = s
      BY <1>4, <2>1, <3>1 DEF s
    <3>8. Remaining(n, k)'
      BY <1>1, <3>2, <3>5, <3>6, <3>7 DEF Remaining
    <3> QED
      BY <1>7, <2>1, <2>5, <3>8 DEF ToClear
  <2> QED
    BY <2>2, <2>3, <2>4, <2>5 DEF ToClear
<1> QED
  BY <1>3, <1>8, <1>9 DEF IInv

\* A turn of a walk.
LEMMA ClearStepOK ==
    ASSUME IInv, ClearStep
    PROVE  IInv'
<1>1. /\ frame \in ClearFrames /\ frame.at = "clear" /\ frame.node # Null
      /\ frame.node \in On(Order[frame.k]) /\ frame.k \in DOMAIN Order
      /\ UNCHANGED <<refs, toLoad>>
  BY FrameShapes DEF IInv, ClearStep, ClearFrames
<1>2. PICK l \in Kinds : l = Order[frame.k]
  BY <1>1, KindsAreLists
<1>3. PICK i \in DOMAIN Chain(mem, l) : frame.node = Chain(mem, l)[i]
  BY <1>1, <1>2, PlacesOf, KindsAreLists DEF IInv
<1>4. CASE data[frame.node].module = frame.file
  <2>1. Drop(Chain(mem, l)[i], l)
    BY <1>2, <1>3, <1>4 DEF ClearStep
  <2>2. CASE frame' = [frame EXCEPT !.node = mem.next[@]]
    BY <1>1, <1>2, <1>3, <2>1, <2>2, ClearDropOK
  <2>3. CASE frame' = Crashed
    <3>1. ListsOK' /\ EntriesOK' /\ \A g : Copies(g)' = Copies(g)
      BY <2>1, DropHandler DEF IInv
    <3>2. RefsOK'
      BY <1>1, <3>1 DEF IInv, RefsOK
    <3>3. FrameOK' /\ Mapped'
      BY <2>3 DEF FrameOK, Mapped, Crashed
    <3> QED
      BY <1>1, <3>1, <3>2, <3>3 DEF IInv
  <2> QED
    BY <1>4, <2>2, <2>3 DEF ClearStep
<1>5. CASE data[frame.node].module # frame.file
  <2>1. UNCHANGED <<mem, data>> /\ frame' = [frame EXCEPT !.node = mem.next[@]]
    BY <1>5 DEF ClearStep
  <2> QED
    BY <1>1, <1>2, <1>3, <1>5, <2>1, ClearPassOK
<1> QED
  BY <1>4, <1>5

\* On to the next registry.
LEMMA ClearNextOK ==
    ASSUME IInv, ClearNext
    PROVE  IInv'
<1>1. /\ frame \in ClearFrames /\ frame.at = "clear" /\ frame.node = Null
      /\ frame.k \in DOMAIN Order /\ frame.k + 1 \in DOMAIN Order
  BY FrameShapes, KindsAreLists DEF IInv, ClearNext, ClearFrames
<1>2. PICK l \in Kinds : l = Order[frame.k + 1] /\ l \in List
  BY <1>1, KindsAreLists
<1>3. /\ frame' = [frame EXCEPT !.k = @ + 1, !.node = mem.head[l]]
      /\ UNCHANGED <<mem, data, refs, toLoad>>
  BY <1>2 DEF ClearNext
<1>4. ListsOK' /\ EntriesOK' /\ RefsOK' /\ toLoad' \subseteq Installed
  BY <1>3 DEF IInv, ListsOK, EntriesOK, RefsOK, Copies, On
<1>5. /\ \A k \in List : On(k)' = On(k) /\ Chain(mem', k) = Chain(mem, k)
      /\ \A n : HasModule(n) => HasModule(n)'
  BY <1>3 DEF On, HasModule
<1>6. /\ mem.head[l] \in Pointer /\ (mem.head[l] # Null => mem.head[l] \in On(l))
      /\ \A n \in On(l) : \E i, j \in DOMAIN Chain(mem, l) :
            i <= j /\ Chain(mem, l)[i] = mem.head[l] /\ Chain(mem, l)[j] = n
  BY <1>2, FromHead DEF IInv
<1>7. /\ frame' \in ClearFrames /\ frame'.at = "clear" /\ frame'.k = frame.k + 1
      /\ frame'.file = frame.file /\ frame'.node = mem.head[l]
  BY <1>1, <1>3, <1>6 DEF ClearFrames
<1>8. FrameOK'
  BY <1>2, <1>5, <1>6, <1>7 DEF FrameOK
<1>9. Mapped'
  <2> SUFFICES ASSUME NEW k \in Kinds, NEW n \in On(k)', data'[n].module # Null
               PROVE  HasModule(n)' \/ ToClear(n, k)'
    BY DEF Mapped
  <2>1. n \in On(k) /\ data'[n] = data[n] /\ k \in List
    BY <1>3, <1>5, KindsAreLists
  <2>2. HasModule(n) \/ ToClear(n, k)
    BY <1>1, <2>1, FrameShapes DEF IInv, Mapped
  <2>3. CASE HasModule(n)
    BY <1>5, <2>3
  <2>4. CASE ToClear(n, k)
    <3>1. ~Remaining(n, k)
      <4>1. \A i \in DOMAIN Chain(mem, k) : Chain(mem, k)[i] # Null
        BY <2>1, PointersOf, PlacesOf DEF IInv
      <4> QED
        BY <1>1, <4>1 DEF Remaining
    <3>2. PICK j \in DOMAIN Order : frame.k < j /\ Order[j] = k
      BY <2>4, <3>1 DEF ToClear
    <3>3. frame'.file = data'[n].module
      BY <1>7, <2>1, <2>4 DEF ToClear
    <3>4. CASE j = frame.k + 1
      <4>1. k = l /\ k = Order[frame'.k]
        BY <1>2, <1>7, <3>2, <3>4
      <4>2. Remaining(n, k)'
        BY <1>5, <1>6, <1>7, <2>1, <4>1 DEF Remaining
      <4> QED
        BY <1>7, <3>3, <4>1, <4>2 DEF ToClear
    <3>5. CASE j # frame.k + 1
      <4>1. frame'.k < j
        BY <1>1, <1>7, <3>2, <3>5, KindsAreLists
      <4> QED
        BY <1>7, <3>2, <3>3, <4>1 DEF ToClear
    <3> QED
      BY <3>4, <3>5
  <2> QED
    BY <2>2, <2>3, <2>4
<1> QED
  BY <1>4, <1>8, <1>9 DEF IInv

\* The end of the last walk.
LEMMA ClearEndOK ==
    ASSUME IInv, ClearEnd
    PROVE  IInv'
<1>1. /\ frame.at = "clear" /\ frame.node = Null /\ frame.k = Len(Order)
      /\ frame # Crashed /\ toLoad' = toLoad
  BY FrameShapes DEF IInv, ClearEnd
<1>2. AllMapped
  BY <1>1, MappedIsAll DEF Finished
<1>3. CASE frame.then \in Name
  BY <1>1, <1>2, <1>3, InitModuleOK DEF ClearEnd, IInv
<1>4. CASE frame.then \notin Name
  <2>1. frame' = Idle /\ UNCHANGED <<mem, data, refs>>
    BY <1>4 DEF ClearEnd
  <2>2. ListsOK' /\ EntriesOK' /\ RefsOK' /\ AllMapped' /\ toLoad' \subseteq Installed
    BY <1>1, <1>2, <2>1
       DEF IInv, ListsOK, EntriesOK, RefsOK, Copies, AllMapped, HasModule, On
  <2>3. FrameOK'
    BY <2>1 DEF FrameOK, Idle, Crashed
  <2> QED
    BY <2>2, <2>3, AllIsMapped DEF IInv
<1> QED
  BY <1>3, <1>4

\* Between two commands nothing is about to go.
LEMMA IdleIsAll ==
    ASSUME IInv, frame = Idle
    PROVE  AllMapped
<1>1. frame # Crashed /\ Finished
  BY DEF Idle, Crashed, Finished
<1> QED
  BY <1>1, MappedIsAll

\* A node of the list of modules, by its place.
LEMMA NamedAreListed ==
    ASSUME NEW name
    PROVE  \A n \in Named(name) : n \in On(Loaded)
BY DEF Named, On

\* REMOVEMODULE.
LEMMA RemoveModuleOK ==
    ASSUME IInv, NEW name \in Name, removemodule(name)
    PROVE  IInv'
<1>1. frame = Idle /\ AllMapped /\ UNCHANGED <<mem, data, refs, toLoad>>
  BY IdleIsAll DEF removemodule
<1>2. CASE frame' = Idle
  BY <1>1, <1>2 DEF IInv, ListsOK, EntriesOK, RefsOK, FrameOK, Mapped, AllMapped,
                    Copies, HasModule, On, Idle
<1>3. CASE \E n \in Named(name) : frame' = Shutdown(n, Null)
  <2>1. PICK n \in On(Loaded) : frame' = Shutdown(n, Null)
    BY <1>3, NamedAreListed
  <2> QED
    BY <1>1, <2>1, ShutdownBegins
<1> QED
  BY <1>2, <1>3 DEF removemodule

\* LOADMODULE.
LEMMA LoadModuleOK ==
    ASSUME IInv, NEW name \in Name, loadmodule(name)
    PROVE  IInv'
<1>1. frame = Idle /\ AllMapped /\ toLoad' = toLoad
  BY IdleIsAll DEF loadmodule
<1>2. CASE initmodule(name)
  BY <1>1, <1>2, InitModuleOK DEF IInv
<1>3. CASE \E n \in Named(name) : /\ frame' = Shutdown(n, name)
                                 /\ UNCHANGED <<mem, data, refs, answer>>
  <2>1. PICK n \in On(Loaded) : /\ frame' = Shutdown(n, name)
                                /\ UNCHANGED <<mem, data, refs, answer>>
    BY <1>3, NamedAreListed
  <2> QED
    BY <1>1, <2>1, ShutdownBegins
<1> QED
  BY <1>2, <1>3 DEF loadmodule

\* An entry of the directory of modules.
LEMMA AutoloadOK ==
    ASSUME IInv, NEW name \in Name, autoloadmods(name)
    PROVE  IInv'
<1>1. frame = Idle /\ AllMapped /\ toLoad' \subseteq Installed
  BY IdleIsAll DEF autoloadmods, IInv
<1>2. CASE initmodule(name)
  BY <1>1, <1>2, InitModuleOK
<1>3. CASE UNCHANGED <<mem, data, refs, frame, answer>>
  BY <1>1, <1>3 DEF IInv, ListsOK, EntriesOK, RefsOK, FrameOK, Mapped, AllMapped,
                    Copies, HasModule, On, Idle
<1> QED
  BY <1>2, <1>3 DEF autoloadmods

\* Every call of the loader and every turn of it keeps the invariant.
LEMMA NextIInv == IInv /\ [Next]_vars => IInv'
<1> SUFFICES ASSUME IInv, [Next]_vars
             PROVE  IInv'
  OBVIOUS
<1>1. CASE \E name \in Name : loadmodule(name) \/ removemodule(name) \/ autoloadmods(name)
  BY <1>1, LoadModuleOK, RemoveModuleOK, AutoloadOK
<1>2. CASE InitStep
  BY <1>2, InitStepOK
<1>3. CASE InitEnd
  BY <1>3, InitEndOK
<1>4. CASE InitFails
  BY <1>4, InitFailsOK
<1>5. CASE ShutdownStep
  BY <1>5, ShutdownStepOK
<1>6. CASE Unmap
  BY <1>6, UnmapOK
<1>7. CASE ClearStep
  BY <1>7, ClearStepOK
<1>8. CASE ClearNext
  BY <1>8, ClearNextOK
<1>9. CASE ClearEnd
  BY <1>9, ClearEndOK
<1>10. CASE UNCHANGED vars
  BY <1>10 DEF vars, IInv, ListsOK, EntriesOK, RefsOK, FrameOK, Mapped,
               Copies, HasModule, ToClear, Remaining, On
<1> QED
  BY <1>1, <1>2, <1>3, <1>4, <1>5, <1>6, <1>7, <1>8, <1>9, <1>10 DEF Next, Continue

-----------------------------------------------------------------------------
(* What the bot starts with *)

\* The places of the bot's own handlers.
LEMMA OwnPlaces ==
    /\ \A l, i : <<l, i>> \in OwnPlace <=> l \in Kinds /\ i \in DOMAIN Own[l]
    /\ \A p \in OwnPlace : /\ p = <<p[1], p[2]>>
                           /\ p[1] \in Kinds /\ p[2] \in DOMAIN Own[p[1]]
    /\ \A l \in Kinds : DOMAIN Own[l] = 1 .. Len(Own[l]) /\ Len(Own[l]) \in Nat
<1>1. \A l, i : <<l, i>> \in OwnPlace <=> l \in Kinds /\ i \in DOMAIN Own[l]
  <2> SUFFICES ASSUME NEW l, NEW i
               PROVE  <<l, i>> \in OwnPlace <=> l \in Kinds /\ i \in DOMAIN Own[l]
    OBVIOUS
  <2>1. \A k : <<l, i>> \in {k} \X DOMAIN Own[k] <=> l = k /\ i \in DOMAIN Own[k]
    OBVIOUS
  <2> QED
    BY <2>1, Zenon DEF OwnPlace
<1>2. ASSUME NEW p \in OwnPlace
      PROVE  p = <<p[1], p[2]>> /\ p[1] \in Kinds /\ p[2] \in DOMAIN Own[p[1]]
  <2>1. PICK l \in Kinds : p \in {l} \X DOMAIN Own[l]
    BY Zenon DEF OwnPlace
  <2> QED
    BY <2>1
<1>3. \A l \in Kinds : DOMAIN Own[l] = 1 .. Len(Own[l]) /\ Len(Own[l]) \in Nat
  <2> SUFFICES ASSUME NEW l \in Kinds
               PROVE  DOMAIN Own[l] = 1 .. Len(Own[l]) /\ Len(Own[l]) \in Nat
    OBVIOUS
  <2>1. Own[l] \in Seq(Range(Own[l]))
    BY ModulesAssumption
  <2> QED
    BY <2>1, LenProperties
<1> QED
  BY <1>1, <1>2, <1>3

\* There are blocks for them, and each is one handler's.
LEMMA BlockOK ==
    /\ Block \in [OwnPlace -> Node]
    /\ \A p \in OwnPlace : /\ IsOwn(Block[p])
                           /\ ListOf(Block[p]) = p[1] /\ PlaceOf(Block[p]) = p[2]
    /\ \A p, q \in OwnPlace : Block[p] = Block[q] => p = q
<1>1. \E b \in [OwnPlace -> Node] : IsAllocation(b)
  BY ModulesAssumption
<1>2. IsAllocation(Block)
  BY <1>1, Zenon DEF Block
<1>3. ASSUME NEW p \in OwnPlace
      PROVE  IsOwn(Block[p]) /\ ListOf(Block[p]) = p[1] /\ PlaceOf(Block[p]) = p[2]
  <2> DEFINE q == CHOOSE q \in OwnPlace : Block[q] = Block[p]
  <2>1. q \in OwnPlace /\ Block[q] = Block[p]
    OBVIOUS
  <2>2. q = p
    BY <1>2, <2>1 DEF IsAllocation
  <2>3. ListOf(Block[p]) = q[1] /\ PlaceOf(Block[p]) = q[2]
    BY Zenon DEF ListOf, PlaceOf
  <2> HIDE DEF q
  <2>4. IsOwn(Block[p])
    BY DEF IsOwn
  <2> QED
    BY <2>2, <2>3, <2>4
<1> QED
  BY <1>2, <1>3 DEF IsAllocation

\* The nodes of a list when the bot starts.
FirstNodes(l) == [i \in 1 .. (IF l \in Kinds THEN Len(Own[l]) ELSE 0) |-> Block[<<l, i>>]]

\* The lists are lists from the first.
LEMMA StartedOK ==
    /\ IsMemory(Started)
    /\ \A l \in List : Represents(Started, l, FirstNodes(l))
<1>1. \A l, i : BlockAt(l, i) \in Pointer
  <2> SUFFICES ASSUME NEW l, NEW i
               PROVE  BlockAt(l, i) \in Pointer
    OBVIOUS
  <2>1. <<l, i>> \in OwnPlace => Block[<<l, i>>] \in Node
    BY BlockOK
  <2> QED
    BY <2>1 DEF BlockAt, Pointer
<1>2. Null \in Pointer
  BY DEF Pointer
<1>3. /\ DOMAIN Started = {"next", "prev", "head"}
      /\ Started.next =
            [n \in Node |-> IF IsOwn(n) THEN BlockAt(ListOf(n), PlaceOf(n) + 1) ELSE Null]
      /\ Started.prev =
            [n \in Node |-> IF IsOwn(n) THEN BlockAt(ListOf(n), PlaceOf(n) - 1) ELSE Null]
      /\ Started.head = [l \in List |-> BlockAt(l, 1)]
  BY DEF Started
<1>4. IsMemory(Started)
  BY <1>1, <1>2, <1>3 DEF IsMemory
<1>5. ASSUME NEW l \in List
      PROVE  Represents(Started, l, FirstNodes(l))
  <2> DEFINE s == FirstNodes(l)
             n == IF l \in Kinds THEN Len(Own[l]) ELSE 0
  <2>1. n \in Nat /\ \A i \in 1 .. n : l \in Kinds /\ <<l, i>> \in OwnPlace
    BY OwnPlaces
  <2>2. \A i \in 1 .. n : Block[<<l, i>>] \in Node
    BY <2>1, BlockOK
  <2>3. \A i \in Int : i \notin 1 .. n => <<l, i>> \notin OwnPlace
    BY OwnPlaces
  <2>4. s = [i \in 1 .. n |-> Block[<<l, i>>]]
    BY DEF FirstNodes
  <2> HIDE DEF s, n
  <2>5. /\ \A i \in 1 .. n : s[i] = Block[<<l, i>>]
        /\ DOMAIN s = 1 .. n
    BY <2>4
  <2>6. s \in Seq(Node) /\ Len(s) = n
    <3>1. s \in [1 .. n -> Node]
      BY <2>2, <2>4
    <3> QED
      BY <2>1, <3>1, SeqDef
  <2>7. \A i \in Int : BlockAt(l, i) = IF i \in 1 .. n THEN s[i] ELSE Null
    BY <2>1, <2>3, <2>5 DEF BlockAt
  <2>8. \A i, j \in 1 .. n : s[i] = s[j] => i = j
    <3> SUFFICES ASSUME NEW i \in 1 .. n, NEW j \in 1 .. n, s[i] = s[j]
                 PROVE  i = j
      OBVIOUS
    <3> DEFINE p == <<l, i>>
               q == <<l, j>>
    <3>1. p \in OwnPlace /\ q \in OwnPlace /\ Block[p] = Block[q]
      BY <2>1, <2>5
    <3>2. p[2] = i /\ q[2] = j
      OBVIOUS
    <3> HIDE DEF p, q
    <3>3. p = q
      BY <3>1, BlockOK
    <3> QED
      BY <3>2, <3>3
  <2>9. Started.head[l] = IF s = << >> THEN Null ELSE s[1]
    <3>1. s = << >> <=> n = 0
      BY <2>6, EmptySeq, LenProperties
    <3>2. Started.head[l] = BlockAt(l, 1)
      BY <1>3
    <3>3. 1 \in 1 .. n <=> n # 0
      BY <2>1
    <3> QED
      BY <2>7, <3>1, <3>2, <3>3
  <2>10. ASSUME NEW i \in 1 .. n
         PROVE  /\ Started.next[s[i]] = IF i = n THEN Null ELSE s[i + 1]
                /\ Started.prev[s[i]] = IF i = 1 THEN Null ELSE s[i - 1]
    <3>1. /\ s[i] \in Node /\ IsOwn(s[i]) /\ ListOf(s[i]) = l /\ PlaceOf(s[i]) = i
      <4> DEFINE p == <<l, i>>
      <4>1. p \in OwnPlace /\ s[i] = Block[p] /\ s[i] \in Node
        BY <2>1, <2>2, <2>5
      <4>2. p[1] = l /\ p[2] = i
        OBVIOUS
      <4> HIDE DEF p
      <4> QED
        BY <4>1, <4>2, BlockOK
    <3>2. /\ Started.next[s[i]] = BlockAt(l, i + 1)
          /\ Started.prev[s[i]] = BlockAt(l, i - 1)
      BY <1>3, <3>1
    <3>3. /\ i + 1 \in Int /\ i - 1 \in Int
          /\ i + 1 \in 1 .. n <=> i # n
          /\ i - 1 \in 1 .. n <=> i # 1
      BY <2>1
    <3> QED
      BY <2>7, <3>2, <3>3
  <2> QED
    BY <2>6, <2>8, <2>9, <2>10 DEF Represents, s
<1> QED
  BY <1>4, <1>5

\* The first nodes carry the bot's own handlers.
LEMMA InitLists ==
    ASSUME Init
    PROVE  /\ IsMemory(mem)
           /\ \A l \in List : Chain(mem, l) = FirstNodes(l) /\ Represents(mem, l, FirstNodes(l))
           /\ On(Loaded) = {}
           /\ \A l \in List : \A n \in On(l) :
                 \E i \in DOMAIN Own[l] : /\ l \in Kinds /\ n = Block[<<l, i>>]
                                          /\ <<l, i>> \in OwnPlace
                                          /\ data[n] = [key |-> Own[l][i], module |-> Null]
           /\ \A l \in Kinds : \A i \in DOMAIN Own[l] :
                 data[Block[<<l, i>>]] = [key |-> Own[l][i], module |-> Null]
<1>1. mem = Started
  BY DEF Init
<1>2. IsMemory(mem) /\ \A l \in List : Represents(mem, l, FirstNodes(l))
  BY <1>1, StartedOK
<1>3. \A l \in List : Chain(mem, l) = FirstNodes(l)
  BY <1>2, ChainIs
<1>4. ASSUME NEW l \in Kinds, NEW i \in DOMAIN Own[l]
      PROVE  /\ data[Block[<<l, i>>]] = [key |-> Own[l][i], module |-> Null]
             /\ <<l, i>> \in OwnPlace
  <2> DEFINE p == <<l, i>>
             n == Block[p]
  <2>1. p \in OwnPlace /\ p[1] = l /\ p[2] = i
    BY OwnPlaces
  <2>2. n \in Node /\ IsOwn(n) /\ ListOf(n) = l /\ PlaceOf(n) = i
    BY <2>1, BlockOK
  <2> HIDE DEF n
  <2>3. data[n] = OwnHandlers[ListOf(n)][PlaceOf(n)]
    BY <2>2 DEF Init
  <2>4. OwnHandlers[l][i] = [key |-> Own[l][i], module |-> Null]
    BY DEF OwnHandlers
  <2> QED
    BY <2>1, <2>2, <2>3, <2>4 DEF n
<1>5. ASSUME NEW l \in List, NEW n \in On(l)
      PROVE  \E i \in DOMAIN Own[l] : /\ l \in Kinds /\ n = Block[<<l, i>>]
                                      /\ <<l, i>> \in OwnPlace
                                      /\ data[n] = [key |-> Own[l][i], module |-> Null]
  <2>1. n \in Range(FirstNodes(l))
    BY <1>3 DEF On
  <2>2. PICK i \in 1 .. (IF l \in Kinds THEN Len(Own[l]) ELSE 0) : n = Block[<<l, i>>]
    BY <2>1 DEF FirstNodes, Range
  <2>3. l \in Kinds /\ i \in DOMAIN Own[l]
    BY <2>2, OwnPlaces
  <2> QED
    BY <1>4, <2>2, <2>3
<1>6. On(Loaded) = {}
  BY <1>5, KindsAreLists
<1> QED
  BY <1>2, <1>3, <1>4, <1>5, <1>6

\* It holds when the bot has registered its own handlers.
LEMMA InitIInv == Init => IInv
<1> SUFFICES ASSUME Init
             PROVE  IInv
  OBVIOUS
<1>1. /\ IsMemory(mem)
      /\ \A l \in List : Represents(mem, l, Chain(mem, l))
      /\ On(Loaded) = {}
  BY InitLists
<1>2. \A l \in Kinds : \A i \in DOMAIN Own[l] :
         [key |-> Own[l][i], module |-> Null] \in HandlerEntry
  BY DEF HandlerEntry, Range
<1>3. \A l \in List : \A n \in On(l) :
         l \in Kinds /\ data[n] \in HandlerEntry /\ data[n].module = Null
  <2> SUFFICES ASSUME NEW l \in List, NEW n \in On(l)
               PROVE  l \in Kinds /\ data[n] \in HandlerEntry /\ data[n].module = Null
    OBVIOUS
  <2>1. PICK i \in DOMAIN Own[l] :
           l \in Kinds /\ data[n] = [key |-> Own[l][i], module |-> Null]
    BY InitLists
  <2> QED
    BY <1>2, <2>1
<1>4. \A l \in List : \A n \in On(l) : data[n] # Null
  BY <1>3, EntryTypes
<1>5. \A l, k \in List : l # k => On(l) \cap On(k) = {}
  <2> SUFFICES ASSUME NEW l \in List, NEW k \in List, NEW n \in On(l), n \in On(k)
               PROVE  l = k
    OBVIOUS
  <2>1. PICK i : n = Block[<<l, i>>] /\ <<l, i>> \in OwnPlace
    BY InitLists
  <2>2. PICK j : n = Block[<<k, j>>] /\ <<k, j>> \in OwnPlace
    BY InitLists
  <2>3. <<l, i>> = <<k, j>>
    BY <2>1, <2>2, BlockOK
  <2> QED
    BY <2>3
<1>6. data \in [Node -> Entry \cup {Null}]
  <2>1. ASSUME NEW n \in Node, IsOwn(n)
        PROVE  OwnHandlers[ListOf(n)][PlaceOf(n)] \in Entry
    <3>1. PICK p \in OwnPlace : Block[p] = n
      BY <2>1 DEF IsOwn
    <3>2. ListOf(n) = p[1] /\ PlaceOf(n) = p[2] /\ p[1] \in Kinds /\ p[2] \in DOMAIN Own[p[1]]
      BY <3>1, BlockOK, OwnPlaces
    <3>3. OwnHandlers[p[1]][p[2]] = [key |-> Own[p[1]][p[2]], module |-> Null]
      BY <3>2 DEF OwnHandlers
    <3> QED
      BY <1>2, <3>2, <3>3, EntryTypes
  <2> QED
    BY <2>1 DEF Init
<1>7. ListsOK
  BY <1>1, <1>4, <1>5, <1>6 DEF ListsOK
<1>8. EntriesOK
  BY <1>1, <1>3, KindsAreLists DEF EntriesOK
<1>9. RefsOK
  <2>1. \A f \in File : Copies(f) = {} /\ refs[f] = 0
    BY <1>1 DEF Copies, Init
  <2>2. refs \in [File -> Nat]
    BY DEF Init
  <2> QED
    BY <2>1, <2>2, FS_EmptySet DEF RefsOK
<1>10. FrameOK /\ toLoad \subseteq Installed
  BY DEF Init, FrameOK, Idle
<1>11. Mapped
  BY <1>3, KindsAreLists DEF Mapped
<1> QED
  BY <1>7, <1>8, <1>9, <1>10, <1>11 DEF IInv

-----------------------------------------------------------------------------
(* The lists as sequences of handlers *)

\* h is what the nodes s carry in the data d, and so is g.
BothCarried(h, g, s, d) ==
    /\ s \in Seq(Node)
    /\ h = [i \in DOMAIN s |-> d[s[i]]]
    /\ g \in Seq(Entry) /\ Len(g) = Len(s)
    /\ \A i \in 1 .. Len(s) : d[s[i]] = g[i]

\* What the nodes of a list carry, in their order, is one sequence.
LEMMA Carried ==
    ASSUME NEW h, NEW g, NEW s, NEW d, BothCarried(h, g, s, d)
    PROVE  h = g
<1> USE DEF BothCarried
<1>1. DOMAIN s = 1 .. Len(s) /\ Len(s) \in Nat
  BY LenProperties
<1>2. g \in [1 .. Len(s) -> Entry]
  BY LenProperties
<1>3. h = [i \in 1 .. Len(s) |-> g[i]]
  BY <1>1
<1> QED
  BY <1>2, <1>3

\* The handlers of a list are what its nodes carry.
LEMMA HandlersShape ==
    ASSUME ListsOK, NEW l \in List
    PROVE  /\ Handlers(l) \in Seq(Entry)
           /\ Len(Handlers(l)) = Len(Chain(mem, l)) /\ Len(Handlers(l)) \in Nat
           /\ DOMAIN Handlers(l) = 1 .. Len(Chain(mem, l))
           /\ \A i \in 1 .. Len(Chain(mem, l)) :
                 Handlers(l)[i] = data[Chain(mem, l)[i]] /\ Chain(mem, l)[i] \in On(l)
<1> DEFINE s == Chain(mem, l)
           h == Handlers(l)
           n == Len(s)
<1>1. /\ n \in Nat /\ DOMAIN s = 1 .. n /\ On(l) = {s[i] : i \in 1 .. n} /\ On(l) \subseteq Node
  BY PlacesOf
<1>2. h = [i \in DOMAIN s |-> data[s[i]]]
  BY DEF Handlers
<1> HIDE DEF s, h, n
<1>3. h = [i \in 1 .. n |-> data[s[i]]]
  BY <1>1, <1>2
<1>4. \A i \in 1 .. n : s[i] \in On(l) /\ data[s[i]] \in Entry
  BY <1>1 DEF ListsOK
<1>5. h \in [1 .. n -> Entry]
  BY <1>3, <1>4
<1>6. h \in Seq(Entry) /\ Len(h) = n
  BY <1>1, <1>5, SeqDef
<1> QED
  BY <1>1, <1>3, <1>4, <1>6 DEF s, h, n

\* The same nodes with the same data are the same handlers.
LEMMA SameHandlers ==
    ASSUME ListsOK, NEW l \in List, Chain(mem', l) = Chain(mem, l),
           \A n \in On(l) : data'[n] = data[n]
    PROVE  Handlers(l)' = Handlers(l)
<1>1. \A i \in DOMAIN Chain(mem, l) : data'[Chain(mem, l)[i]] = data[Chain(mem, l)[i]]
  BY PlacesOf
<1>2. Handlers(l)' = [i \in DOMAIN Chain(mem', l) |-> data'[Chain(mem', l)[i]]]
  BY DEF Handlers
<1>3. Handlers(l) = [i \in DOMAIN Chain(mem, l) |-> data[Chain(mem, l)[i]]]
  BY DEF Handlers
<1> QED
  BY <1>1, <1>2, <1>3

\* What AddTo appends.
LEMMA AddHandlers ==
    ASSUME ListsOK, NEW l \in List, NEW e \in Entry, AddTo(l, e)
    PROVE  /\ Handlers(l)' = Append(Handlers(l), e)
           /\ \A k \in List \ {l} : Handlers(k)' = Handlers(k)
<1> DEFINE s == Chain(mem, l)
           n == Len(s)
           h == Handlers(l)
<1>1. /\ ListsOK'
      /\ Malloc \in Node /\ \A k \in List : Malloc \notin On(k)
      /\ Chain(mem', l) = Append(s, Malloc)
      /\ \A k \in List \ {l} : Chain(mem', k) = Chain(mem, k)
      /\ \A x \in Node : data'[x] = IF x = Malloc THEN e ELSE data[x]
  BY AddShape
<1>2. \A k \in List : On(k) \subseteq Node
  BY PlacesOf
<1>3. \A k \in List \ {l} : Handlers(k)' = Handlers(k)
  <2> SUFFICES ASSUME NEW k \in List \ {l}
               PROVE  Handlers(k)' = Handlers(k)
    OBVIOUS
  <2>1. Chain(mem', k) = Chain(mem, k) /\ \A x \in On(k) : data'[x] = data[x]
    BY <1>1, <1>2
  <2> QED
    BY <2>1, SameHandlers
<1>4. s \in Seq(Node) /\ n \in Nat
  BY PlacesOf
<1>5. /\ h \in Seq(Entry) /\ Len(h) = n
      /\ \A i \in 1 .. n : h[i] = data[s[i]] /\ s[i] \in On(l)
  BY HandlersShape
<1> HIDE DEF h, s, n
<1>6. /\ Append(s, Malloc) \in Seq(Node) /\ Len(Append(s, Malloc)) = n + 1
      /\ \A i \in 1 .. n : Append(s, Malloc)[i] = s[i]
      /\ Append(s, Malloc)[n + 1] = Malloc
  BY <1>1, <1>4, AppendProperties DEF n
<1>7. /\ Append(h, e) \in Seq(Entry) /\ Len(Append(h, e)) = n + 1
      /\ \A i \in 1 .. n : Append(h, e)[i] = h[i]
      /\ Append(h, e)[n + 1] = e
  BY <1>5, AppendProperties
<1>8. \A i \in 1 .. n + 1 : data'[Append(s, Malloc)[i]] = Append(h, e)[i]
  <2> SUFFICES ASSUME NEW i \in 1 .. n + 1
               PROVE  data'[Append(s, Malloc)[i]] = Append(h, e)[i]
    OBVIOUS
  <2>1. CASE i = n + 1
    BY <1>1, <1>6, <1>7, <2>1
  <2>2. CASE i # n + 1
    <3>1. i \in 1 .. n
      BY <1>4, <2>2
    <3>2. s[i] \in On(l) /\ s[i] \in Node /\ s[i] # Malloc
      BY <1>1, <1>2, <1>5, <3>1
    <3> QED
      BY <1>1, <1>5, <1>6, <1>7, <3>1, <3>2
  <2> QED
    BY <2>1, <2>2
<1>9. Handlers(l)' = [i \in DOMAIN Append(s, Malloc) |-> data'[Append(s, Malloc)[i]]]
  BY <1>1 DEF Handlers
<1>10. Handlers(l)' = Append(h, e)
  <2> DEFINE t == Append(s, Malloc)
             g == Append(h, e)
  <2>1. t \in Seq(Node) /\ g \in Seq(Entry) /\ Len(g) = Len(t)
    BY <1>6, <1>7
  <2>2. \A i \in 1 .. Len(t) : data'[t[i]] = g[i]
    BY <1>6, <1>8
  <2>3. BothCarried(Handlers(l)', g, t, data')
    BY <1>9, <2>1, <2>2 DEF BothCarried
  <2> QED
    BY <2>3, Carried
<1> QED
  BY <1>3, <1>10 DEF h

\* What Drop takes out.
LEMMA DropHandlers ==
    ASSUME ListsOK, NEW l \in List, NEW i \in DOMAIN Chain(mem, l),
           Drop(Chain(mem, l)[i], l)
    PROVE  /\ Handlers(l)' = RemoveAt(Handlers(l), i)
           /\ \A k \in List \ {l} : Handlers(k)' = Handlers(k)
<1> DEFINE s == Chain(mem, l)
           n == Len(s)
           h == Handlers(l)
<1>1. /\ ListsOK'
      /\ Chain(mem', l) = RemoveAt(s, i)
      /\ \A k \in List \ {l} : Chain(mem', k) = Chain(mem, k)
      /\ \A x \in Node : data'[x] = IF x = s[i] THEN Null ELSE data[x]
  BY DropShape
<1>2. /\ \A k \in List : On(k) \subseteq Node
      /\ \A k \in List \ {l} : On(k) \cap On(l) = {}
  BY PlacesOf DEF ListsOK
<1>4. /\ s \in Seq(Node) /\ n \in Nat /\ i \in 1 .. n /\ i \in DOMAIN s
      /\ \A a, b \in 1 .. n : s[a] = s[b] => a = b
  BY PlacesOf
<1>5. /\ h \in Seq(Entry) /\ Len(h) = n /\ i \in DOMAIN h
      /\ \A j \in 1 .. n : h[j] = data[s[j]] /\ s[j] \in On(l)
  BY HandlersShape
<1> HIDE DEF h, s, n
<1>3. \A k \in List \ {l} : Handlers(k)' = Handlers(k)
  <2> SUFFICES ASSUME NEW k \in List \ {l}
               PROVE  Handlers(k)' = Handlers(k)
    OBVIOUS
  <2>1. s[i] \in On(l) /\ s[i] \notin On(k)
    BY <1>2, <1>4, <1>5
  <2>2. Chain(mem', k) = Chain(mem, k) /\ \A x \in On(k) : data'[x] = data[x]
    BY <1>1, <1>2, <2>1
  <2> QED
    BY <2>2, SameHandlers
<1>6. /\ RemoveAt(s, i) \in Seq(Node) /\ Len(RemoveAt(s, i)) = n - 1
      /\ \A j \in 1 .. n - 1 : RemoveAt(s, i)[j] = IF j < i THEN s[j] ELSE s[j + 1]
  BY <1>4, RemoveAtShape DEF n
<1>7. /\ RemoveAt(h, i) \in Seq(Entry) /\ Len(RemoveAt(h, i)) = n - 1
      /\ \A j \in 1 .. n - 1 : RemoveAt(h, i)[j] = IF j < i THEN h[j] ELSE h[j + 1]
  <2>1. h \in Seq(Entry) /\ i \in DOMAIN h
    BY <1>5
  <2>2. /\ RemoveAt(h, i) \in Seq(Entry) /\ Len(RemoveAt(h, i)) = Len(h) - 1
        /\ \A j \in 1 .. (Len(h) - 1) :
              RemoveAt(h, i)[j] = IF j < i THEN h[j] ELSE h[j + 1]
    BY <2>1, RemoveAtShape, Zenon
  <2> QED
    BY <1>5, <2>2
<1>8. \A j \in 1 .. n - 1 : data'[RemoveAt(s, i)[j]] = RemoveAt(h, i)[j]
  <2> SUFFICES ASSUME NEW j \in 1 .. n - 1
               PROVE  data'[RemoveAt(s, i)[j]] = RemoveAt(h, i)[j]
    OBVIOUS
  <2> DEFINE r == IF j < i THEN j ELSE j + 1
  <2>1. r \in 1 .. n /\ r # i
    BY <1>4
  <2>2. RemoveAt(s, i)[j] = s[r] /\ RemoveAt(h, i)[j] = h[r]
    BY <1>6, <1>7
  <2> HIDE DEF r
  <2>3. s[r] \in Node /\ s[r] # s[i]
    BY <1>2, <1>4, <1>5, <2>1
  <2>4. h[r] = data[s[r]]
    BY <1>5, <2>1
  <2> QED
    BY <1>1, <2>2, <2>3, <2>4
<1>9. Handlers(l)' = [j \in DOMAIN RemoveAt(s, i) |-> data'[RemoveAt(s, i)[j]]]
  BY <1>1 DEF Handlers
<1>10. Handlers(l)' = RemoveAt(h, i)
  <2> DEFINE t == RemoveAt(s, i)
             g == RemoveAt(h, i)
  <2>1. t \in Seq(Node) /\ g \in Seq(Entry) /\ Len(g) = Len(t)
    BY <1>6, <1>7
  <2>2. \A j \in 1 .. Len(t) : data'[t[j]] = g[j]
    BY <1>6, <1>8
  <2>3. BothCarried(Handlers(l)', g, t, data')
    BY <1>9, <2>1, <2>2 DEF BothCarried
  <2> QED
    BY <2>3, Carried
<1> QED
  BY <1>3, <1>10 DEF h

-----------------------------------------------------------------------------
(* The registries are sequences *)

\* The registries as Registry sees them.
Table == [l \in Kinds |-> Handlers(l)]

\* The bot's own handlers are no module's.
LEMMA CoreIsNobodys ==
    \A e \in UNION {Range(OwnHandlers[l]) : l \in Kinds} : e.module = Null
<1> SUFFICES ASSUME NEW l \in Kinds, NEW e \in Range(OwnHandlers[l])
             PROVE  e.module = Null
  OBVIOUS
<1>1. OwnHandlers[l] = [i \in DOMAIN Own[l] |-> [key |-> Own[l][i], module |-> Null]]
  BY DEF OwnHandlers
<1>2. PICK i \in DOMAIN Own[l] : e = [key |-> Own[l][i], module |-> Null]
  BY <1>1 DEF Range
<1> QED
  BY <1>2

\* At first the registries are the bot's own handlers.
LEMMA InitTable == Init => R!Init
<1> SUFFICES ASSUME Init
             PROVE  Table = OwnHandlers
  BY DEF R!Init, Table
<1>1. ASSUME NEW l \in Kinds
      PROVE  Handlers(l) = [i \in DOMAIN Own[l] |-> [key |-> Own[l][i], module |-> Null]]
  <2>1. l \in List /\ DOMAIN Own[l] = 1 .. Len(Own[l])
    BY KindsAreLists, OwnPlaces
  <2>2. Chain(mem, l) = [i \in DOMAIN Own[l] |-> Block[<<l, i>>]]
    BY <2>1, InitLists DEF FirstNodes
  <2>3. Handlers(l) = [i \in DOMAIN Own[l] |-> data[Block[<<l, i>>]]]
    BY <2>2 DEF Handlers
  <2>4. \A i \in DOMAIN Own[l] :
           data[Block[<<l, i>>]] = [key |-> Own[l][i], module |-> Null]
    BY InitLists
  <2> QED
    BY <2>3, <2>4
<1> QED
  BY <1>1 DEF Table, OwnHandlers

\* A handler at the end of a registry is a registration.
LEMMA AddIsRegister ==
    ASSUME ListsOK, NEW l \in Kinds, NEW e \in HandlerEntry, e.module \in File, AddTo(l, e)
    PROVE  R!Next
<1>1. l \in List /\ e \in Entry /\ \A k \in Kinds : k \in List
  BY KindsAreLists, EntryTypes
<1>2. /\ Handlers(l)' = Append(Handlers(l), e)
      /\ \A k \in List \ {l} : Handlers(k)' = Handlers(k)
  BY <1>1, AddHandlers
<1>3. Handlers(l) \in Seq(Entry)
  BY <1>1, HandlersShape
<1>4. Table[l] = Handlers(l) /\ Table'[l] = Append(Table[l], e)
  BY <1>2 DEF Table
<1>5. Table' = [Table EXCEPT ![l] = Append(@, e)]
  BY <1>1, <1>2 DEF Table
<1>6. /\ Len(Table'[l]) = Len(Table[l]) + 1
      /\ Last(Table'[l]) = e
  BY <1>1, <1>3, <1>4, AppendProperties DEF Last
<1>7. e \notin UNION {Range(OwnHandlers[k]) : k \in Kinds}
  BY CoreIsNobodys, EntryTypes
<1>8. R!Register(l)
  <2>1. R!Last(Table'[l]) = e
    BY <1>6 DEF R!Last, Last
  <2> QED
    BY <1>1, <1>5, <1>7, <2>1 DEF R!Register, Table
<1> QED
  BY <1>6, <1>8 DEF R!Next, Table

\* A handler out of a registry is a removal, if it is a module's.
LEMMA DropIsUnregister ==
    ASSUME ListsOK, NEW l \in Kinds, NEW i \in DOMAIN Chain(mem, l),
           data[Chain(mem, l)[i]].module \in File, Drop(Chain(mem, l)[i], l)
    PROVE  R!Next
<1>1. l \in List /\ \A k \in Kinds : k \in List
  BY KindsAreLists
<1>2. /\ Handlers(l)' = RemoveAt(Handlers(l), i)
      /\ \A k \in List \ {l} : Handlers(k)' = Handlers(k)
  BY <1>1, DropHandlers
<1>3. i \in DOMAIN Handlers(l) /\ Handlers(l)[i] = data[Chain(mem, l)[i]]
  BY <1>1, HandlersShape, PlacesOf
<1>4. Table[l] = Handlers(l)
  BY DEF Table
<1>5. Table' = [Table EXCEPT ![l] = RemoveAt(@, i)]
  BY <1>1, <1>2 DEF Table
<1>6. Table[l][i] \notin UNION {Range(OwnHandlers[k]) : k \in Kinds}
  BY <1>3, <1>4, CoreIsNobodys, EntryTypes
<1>7. R!Unregister(l, i) /\ i \in DOMAIN Table[l]
  <2>1. R!RemoveAt(Table[l], i) = RemoveAt(Table[l], i)
    BY DEF R!RemoveAt, RemoveAt
  <2>2. Table' = [Table EXCEPT ![l] = R!RemoveAt(Table[l], i)]
    BY <1>5, <2>1
  <2> QED
    BY <1>3, <1>4, <1>6, <2>2 DEF R!Unregister, Table
<1> QED
  BY <1>7 DEF R!Next, Table

\* What leaves the registries' nodes alone leaves the registries.
LEMMA SameTable ==
    ASSUME ListsOK, \A l \in Kinds : Chain(mem', l) = Chain(mem, l),
           \A l \in Kinds : \A n \in On(l) : data'[n] = data[n]
    PROVE  UNCHANGED Table
<1>1. \A l \in Kinds : Handlers(l)' = Handlers(l)
  BY SameHandlers, KindsAreLists
<1> QED
  BY <1>1 DEF Table

\* initmodule changes no registry.
LEMMA InitModuleTable ==
    ASSUME ListsOK, NEW name \in Name, initmodule(name)
    PROVE  UNCHANGED Table
<1>1. CASE UNCHANGED <<mem, data>>
  BY <1>1 DEF Table, Handlers
<1>2. CASE AddTo(Loaded, [key |-> name, module |-> FileOf[name]])
  <2> DEFINE e == [key |-> name, module |-> FileOf[name]]
  <2>1. e \in ModuleEntry
    BY ModulesAssumption DEF ModuleEntry
  <2>2. e \in Entry /\ AddTo(Loaded, e)
    BY <1>2, <2>1, EntryTypes
  <2> HIDE DEF e
  <2>3. /\ \A k \in List \ {Loaded} : Handlers(k)' = Handlers(k)
    BY <2>2, AddHandlers, KindsAreLists
  <2> QED
    BY <2>3, KindsAreLists DEF Table
<1> QED
  BY <1>1, <1>2 DEF initmodule

\* Every step of the loader is one registration, one removal or none.
LEMMA NextTable == IInv /\ [Next]_vars => R!Next \/ UNCHANGED Table
<1> SUFFICES ASSUME IInv, [Next]_vars
             PROVE  R!Next \/ UNCHANGED Table
  OBVIOUS
<1>0. ListsOK
  BY DEF IInv
<1>1. CASE UNCHANGED <<mem, data>>
  BY <1>1 DEF Table, Handlers
<1>2. CASE \E name \in Name : initmodule(name)
  BY <1>0, <1>2, InitModuleTable
<1>3. CASE InitStep
  <2>1. /\ frame \in InitFrames /\ frame.node \in On(Loaded)
    BY <1>3, FrameShapes DEF IInv, InitStep
  <2> DEFINE f == data[frame.node].module
             r == Registers[f][frame.i]
             e == [key |-> r.key, module |-> f]
  <2>2. f \in File /\ frame.i \in Nat \ {0}
    BY <2>1, EntryTypes DEF IInv, EntriesOK, InitFrames
  <2>3. frame.i \in 1 .. Len(Registers[f])
    <3>1. frame.i <= Len(Registers[f])
      BY <1>3 DEF InitStep
    <3> QED
      BY <3>1, <2>2, TurnIs
  <2>4. r.kind \in Kinds /\ e \in HandlerEntry
    BY <2>2, <2>3, HookTypes
  <2>5. AddTo(r.kind, e) /\ e.module \in File
    BY <1>3, <2>2 DEF InitStep
  <2> HIDE DEF r, e
  <2> QED
    BY <1>0, <2>4, <2>5, AddIsRegister
<1>4. CASE ShutdownStep
  <2>1. /\ frame \in ShutdownFrames /\ frame.node \in On(Loaded)
    BY <1>4, FrameShapes DEF IInv, ShutdownStep
  <2> DEFINE f == data[frame.node].module
             r == Drops[f][frame.i]
             e == [key |-> r.key, module |-> f]
  <2>2. f \in File /\ frame.i \in Nat \ {0}
    BY <2>1, EntryTypes DEF IInv, EntriesOK, ShutdownFrames
  <2>3. frame.i \in 1 .. Len(Drops[f])
    <3>1. frame.i <= Len(Drops[f])
      BY <1>4 DEF ShutdownStep
    <3> QED
      BY <3>1, <2>2, TurnIs
  <2>4. r.kind \in Kinds
    BY <2>2, <2>3, HookTypes
  <2>5. DeleteFirst(r.kind, e) /\ e.module \in File
    BY <1>4, <2>2 DEF ShutdownStep
  <2> HIDE DEF r, e
  <2>6. CASE UNCHANGED <<mem, data>>
    BY <1>1, <2>6
  <2>7. ASSUME NEW n, data[n] = e, IsFirst(n, r.kind, {m \in Range(Chain(mem, r.kind)) : data[m] = e}),
               Drop(n, r.kind)
        PROVE  R!Next
    <3>1. PICK i \in DOMAIN Chain(mem, r.kind) : n = Chain(mem, r.kind)[i]
      BY <2>7 DEF IsFirst
    <3>2. data[Chain(mem, r.kind)[i]].module \in File
      BY <2>5, <2>7, <3>1
    <3>3. Drop(Chain(mem, r.kind)[i], r.kind)
      BY <2>7, <3>1
    <3> QED
      BY <1>0, <2>4, <3>2, <3>3, DropIsUnregister
  <2> QED
    BY <2>5, <2>6, <2>7 DEF DeleteFirst
<1>5. CASE Unmap
  <2>1. frame.node \in On(Loaded) /\ Drop(frame.node, Loaded)
        /\ refs' = [refs EXCEPT ![data[frame.node].module] = @ - 1]
    BY <1>5, FrameShapes DEF IInv, Unmap
  <2>2. /\ \A k \in Kinds : \A y \in On(k) : data'[y] = data[y]
        /\ \A k \in Kinds : Chain(mem', k) = Chain(mem, k)
    BY <2>1, DropModule DEF IInv
  <2> QED
    BY <1>0, <2>2, SameTable
<1>6. CASE ClearStep
  <2>1. /\ frame.at = "clear" /\ frame.node # Null /\ frame.file \in File
        /\ frame.node \in On(Order[frame.k]) /\ frame.k \in DOMAIN Order
    BY <1>6, FrameShapes DEF IInv, ClearStep, ClearFrames
  <2>2. PICK l \in Kinds : l = Order[frame.k] /\ l \in List
    BY <2>1, KindsAreLists
  <2>3. PICK i \in DOMAIN Chain(mem, l) : frame.node = Chain(mem, l)[i]
    BY <1>0, <2>1, <2>2, PlacesOf
  <2>4. CASE data[frame.node].module = frame.file
    <3>1. Drop(Chain(mem, l)[i], l) /\ data[Chain(mem, l)[i]].module \in File
      BY <1>6, <2>1, <2>2, <2>3, <2>4 DEF ClearStep
    <3> QED
      BY <1>0, <3>1, DropIsUnregister
  <2>5. CASE data[frame.node].module # frame.file
    BY <1>1, <1>6, <2>5 DEF ClearStep
  <2> QED
    BY <2>4, <2>5
<1> QED
  BY <1>1, <1>2, <1>3, <1>4, <1>5, <1>6
     DEF Next, Continue, vars, loadmodule, removemodule, autoloadmods,
         InitEnd, InitFails, ClearNext, ClearEnd

-----------------------------------------------------------------------------
(* What a module has registered *)

\* Of what f registers, the places of what is for the list l, among the first n.
Meant(f, l, n) == {i \in 1 .. n : Registers[f][i].kind = l}

\* place leads from them to where they are in h, and to all that h has of f.
LeadsInto(place, h, f, l, n) ==
    /\ place \in [Meant(f, l, n) -> DOMAIN h]
    /\ \A i, j \in Meant(f, l, n) : i < j => place[i] < place[j]
    /\ \A i \in Meant(f, l, n) : h[place[i]] = [key |-> Registers[f][i].key, module |-> f]
    /\ \A k \in DOMAIN h : h[k].module = f => \E i \in Meant(f, l, n) : place[i] = k

InOrder(h, f, l, n) == \E place : LeadsInto(place, h, f, l, n)

\* That is what ListedIsComplete asks of a module.
LEMMA InOrderIsRegistered ==
    ASSUME NEW f, NEW l, NEW n, InOrder(Handlers(l), f, l, n)
    PROVE  HasRegistered(f, l, n)
<1>1. PICK place : LeadsInto(place, Handlers(l), f, l, n)
  BY DEF InOrder
<1>2. DOMAIN place = Meant(f, l, n) /\ place \in [Meant(f, l, n) -> DOMAIN Handlers(l)]
  BY <1>1 DEF LeadsInto
<1> QED
  BY <1>1, <1>2 DEF LeadsInto, Meant, HasRegistered

\* Of a module that has registered nothing there is nothing.
LEMMA NoneInOrder ==
    ASSUME NEW h, NEW f, NEW l, \A k \in DOMAIN h : h[k].module # f
    PROVE  InOrder(h, f, l, 0)
<1>1. Meant(f, l, 0) = {}
  BY DEF Meant
<1> DEFINE place == [i \in Meant(f, l, 0) |-> 1]
<1>2. LeadsInto(place, h, f, l, 0)
  BY <1>1 DEF LeadsInto
<1> QED
  BY <1>2 DEF InOrder

\* A handler of another module at the end disturbs nothing.
LEMMA OtherAppended ==
    ASSUME NEW h \in Seq(Entry), NEW e \in Entry, NEW f, NEW l, NEW n,
           e.module # f, InOrder(h, f, l, n)
    PROVE  InOrder(Append(h, e), f, l, n)
<1>1. PICK place : LeadsInto(place, h, f, l, n)
  BY DEF InOrder
<1> DEFINE g == Append(h, e)
<1>2. /\ DOMAIN h = 1 .. Len(h) /\ Len(h) \in Nat /\ DOMAIN g = 1 .. Len(h) + 1
      /\ \A k \in 1 .. Len(h) : g[k] = h[k]
      /\ g[Len(h) + 1] = e
  BY AppendProperties, LenProperties
<1> HIDE DEF g
<1>3. DOMAIN h \subseteq DOMAIN g /\ \A k \in DOMAIN g : k \in DOMAIN h \/ k = Len(h) + 1
  BY <1>2
<1>4. LeadsInto(place, g, f, l, n)
  <2> USE DEF LeadsInto
  <2>1. place \in [Meant(f, l, n) -> DOMAIN h]
    BY <1>1
  <2>2. place \in [Meant(f, l, n) -> DOMAIN g]
    BY <1>3, <2>1
  <2>3. \A i \in Meant(f, l, n) : g[place[i]] = [key |-> Registers[f][i].key, module |-> f]
    BY <1>1, <1>2, <2>1
  <2>4. \A k \in DOMAIN g : g[k].module = f => \E i \in Meant(f, l, n) : place[i] = k
    BY <1>1, <1>2, <1>3
  <2> QED
    BY <1>1, <2>2, <2>3, <2>4
<1> QED
  BY <1>4 DEF InOrder, g

\* The next handler of the module itself.
LEMMA NextAppended ==
    ASSUME NEW h \in Seq(Entry), NEW e \in Entry, NEW f, NEW l, NEW n \in Nat,
           Registers[f][n + 1].kind = l,
           e = [key |-> Registers[f][n + 1].key, module |-> f], InOrder(h, f, l, n)
    PROVE  InOrder(Append(h, e), f, l, n + 1)
<1>1. PICK place : LeadsInto(place, h, f, l, n)
  BY DEF InOrder
<1> DEFINE g == Append(h, e)
           M == Meant(f, l, n)
           N == Meant(f, l, n + 1)
           m == Len(h)
           to == [i \in N |-> IF i = n + 1 THEN m + 1 ELSE place[i]]
<1>2. /\ DOMAIN h = 1 .. m /\ m \in Nat /\ DOMAIN g = 1 .. m + 1
      /\ \A k \in 1 .. m : g[k] = h[k]
      /\ g[m + 1] = e
  BY AppendProperties, LenProperties
<1>3. N = M \cup {n + 1} /\ \A i \in M : i \in Nat /\ i < n + 1
  BY DEF Meant
<1>4. /\ place \in [M -> 1 .. m]
      /\ \A i, j \in M : i < j => place[i] < place[j]
      /\ \A i \in M : h[place[i]] = [key |-> Registers[f][i].key, module |-> f]
      /\ \A k \in 1 .. m : h[k].module = f => \E i \in M : place[i] = k
  BY <1>1, <1>2 DEF LeadsInto
<1> HIDE DEF g, M, N, m
<1>5. to \in [N -> 1 .. m + 1]
  BY <1>2, <1>3, <1>4
<1>6. \A i \in N : to[i] = IF i = n + 1 THEN m + 1 ELSE place[i]
  OBVIOUS
<1> HIDE DEF to
<1>7. \A i, j \in N : i < j => to[i] < to[j]
  <2> SUFFICES ASSUME NEW i \in N, NEW j \in N, i < j
               PROVE  to[i] < to[j]
    OBVIOUS
  <2>1. i \in M /\ to[i] = place[i] /\ place[i] \in 1 .. m
    BY <1>3, <1>4, <1>6
  <2>2. CASE j = n + 1
    BY <1>2, <1>6, <2>1, <2>2
  <2>3. CASE j # n + 1
    BY <1>3, <1>4, <1>6, <2>1, <2>3
  <2> QED
    BY <2>2, <2>3
<1>8. \A i \in N : g[to[i]] = [key |-> Registers[f][i].key, module |-> f]
  <2> SUFFICES ASSUME NEW i \in N
               PROVE  g[to[i]] = [key |-> Registers[f][i].key, module |-> f]
    OBVIOUS
  <2>1. CASE i = n + 1
    BY <1>2, <1>6, <2>1
  <2>2. CASE i # n + 1
    <3>1. i \in M /\ to[i] = place[i] /\ place[i] \in 1 .. m
      BY <1>3, <1>4, <1>6, <2>2
    <3>2. g[place[i]] = h[place[i]]
      BY <1>2, <3>1
    <3> QED
      BY <1>4, <3>1, <3>2
  <2> QED
    BY <2>1, <2>2
<1>9. \A k \in 1 .. m + 1 : g[k].module = f => \E i \in N : to[i] = k
  <2> SUFFICES ASSUME NEW k \in 1 .. m + 1, g[k].module = f
               PROVE  \E i \in N : to[i] = k
    OBVIOUS
  <2>1. CASE k = m + 1
    BY <1>3, <1>6, <2>1
  <2>2. CASE k # m + 1
    <3>1. k \in 1 .. m /\ h[k].module = f
      BY <1>2, <2>2
    <3>2. PICK i \in M : place[i] = k
      BY <1>4, <3>1
    <3>3. i \in N /\ i # n + 1
      BY <1>3
    <3> QED
      BY <1>6, <3>2, <3>3
  <2> QED
    BY <2>1, <2>2
<1>10. LeadsInto(to, g, f, l, n + 1)
  BY <1>2, <1>5, <1>7, <1>8, <1>9 DEF LeadsInto, N
<1> QED
  BY <1>10 DEF InOrder, g

\* The next is for another list.
LEMMA NextElsewhere ==
    ASSUME NEW h, NEW f, NEW l, NEW n \in Nat,
           Registers[f][n + 1].kind # l, InOrder(h, f, l, n)
    PROVE  InOrder(h, f, l, n + 1)
<1>1. Meant(f, l, n + 1) = Meant(f, l, n)
  BY DEF Meant
<1> QED
  BY <1>1 DEF InOrder, LeadsInto

\* A handler of another module is taken out.
LEMMA OtherRemoved ==
    ASSUME NEW h \in Seq(Entry), NEW p \in DOMAIN h, NEW f, NEW l, NEW n,
           h[p].module # f, InOrder(h, f, l, n)
    PROVE  InOrder(RemoveAt(h, p), f, l, n)
<1>1. PICK place : LeadsInto(place, h, f, l, n)
  BY DEF InOrder
<1> DEFINE g == RemoveAt(h, p)
           M == Meant(f, l, n)
           m == Len(h)
           to == [i \in M |-> IF place[i] < p THEN place[i] ELSE place[i] - 1]
<1>2. /\ DOMAIN h = 1 .. m /\ m \in Nat /\ p \in 1 .. m
  BY LenProperties
<1>3. /\ DOMAIN g = 1 .. m - 1
      /\ \A k \in 1 .. m - 1 : g[k] = IF k < p THEN h[k] ELSE h[k + 1]
  BY RemoveAtShape
<1>4. /\ place \in [M -> 1 .. m]
      /\ \A i, j \in M : i < j => place[i] < place[j]
      /\ \A i \in M : h[place[i]] = [key |-> Registers[f][i].key, module |-> f]
      /\ \A k \in 1 .. m : h[k].module = f => \E i \in M : place[i] = k
  BY <1>1, <1>2 DEF LeadsInto
<1>5. \A i \in M : to[i] = IF place[i] < p THEN place[i] ELSE place[i] - 1
  OBVIOUS
<1>6. DOMAIN to = M /\ to = [i \in M |-> to[i]]
  OBVIOUS
<1> HIDE DEF g, M, m, to
<1>7. ASSUME NEW i \in M
      PROVE  place[i] \in 1 .. m /\ place[i] # p
  <2>1. place[i] \in 1 .. m
    BY <1>4
  <2>2. h[place[i]] = [key |-> Registers[f][i].key, module |-> f]
    BY <1>4
  <2>3. h[place[i]].module = f
    BY <2>2
  <2> QED
    BY <2>1, <2>3
<1>8. ASSUME NEW i \in M
      PROVE  to[i] \in 1 .. m - 1 /\ g[to[i]] = h[place[i]]
  <2>1. place[i] \in 1 .. m /\ place[i] # p
    BY <1>7
  <2>2. CASE place[i] < p
    <3>1. to[i] = place[i] /\ to[i] \in 1 .. m - 1
      BY <1>2, <1>5, <2>1, <2>2
    <3> QED
      BY <1>3, <2>2, <3>1
  <2>3. CASE ~(place[i] < p)
    <3>1. /\ to[i] = place[i] - 1 /\ to[i] \in 1 .. m - 1 /\ ~(to[i] < p)
          /\ to[i] + 1 = place[i]
      BY <1>2, <1>5, <2>1, <2>3
    <3> QED
      BY <1>3, <3>1
  <2> QED
    BY <2>2, <2>3
<1>9. to \in [M -> 1 .. m - 1]
  BY <1>6, <1>8
<1>10. \A i, j \in M : i < j => to[i] < to[j]
  <2> SUFFICES ASSUME NEW i \in M, NEW j \in M, i < j
               PROVE  to[i] < to[j]
    OBVIOUS
  <2>1. /\ place[i] \in 1 .. m /\ place[i] # p /\ place[j] \in 1 .. m /\ place[j] # p
        /\ place[i] < place[j]
    BY <1>4, <1>7
  <2>2. /\ to[i] = IF place[i] < p THEN place[i] ELSE place[i] - 1
        /\ to[j] = IF place[j] < p THEN place[j] ELSE place[j] - 1
    BY <1>5
  <2> QED
    BY <1>2, <2>1, <2>2
<1>11. \A i \in M : g[to[i]] = [key |-> Registers[f][i].key, module |-> f]
  BY <1>4, <1>8
<1>12. \A k \in 1 .. m - 1 : g[k].module = f => \E i \in M : to[i] = k
  <2> SUFFICES ASSUME NEW k \in 1 .. m - 1, g[k].module = f
               PROVE  \E i \in M : to[i] = k
    OBVIOUS
  <2>1. CASE k < p
    <3>1. k \in 1 .. m /\ h[k].module = f
      BY <1>2, <1>3, <2>1
    <3>2. PICK i \in M : place[i] = k
      BY <1>4, <3>1
    <3> QED
      BY <1>5, <2>1, <3>2
  <2>2. CASE ~(k < p)
    <3>1. k + 1 \in 1 .. m /\ h[k + 1].module = f
      BY <1>2, <1>3, <2>2
    <3>2. PICK i \in M : place[i] = k + 1
      BY <1>4, <3>1
    <3>3. ~(k + 1 < p) /\ k + 1 - 1 = k
      BY <1>2, <2>2
    <3> QED
      BY <1>5, <3>2, <3>3
  <2> QED
    BY <2>1, <2>2
<1>13. LeadsInto(to, g, f, l, n)
  BY <1>3, <1>9, <1>10, <1>11, <1>12 DEF LeadsInto, M
<1> QED
  BY <1>13 DEF InOrder, g

-----------------------------------------------------------------------------
(* The handlers of the listed modules *)

\* No file has two names in use: no links in the directory of modules, no two
\* ways to write a path.
OnePathEach == \A a, b \in Name : FileOf[a] = FileOf[b] => a = b

\* The module is being shut down.
Leaving(n) == frame.at = "shutdown" /\ frame.node = n

\* How many handlers the module has registered.
Progress(n) ==
    IF frame.at = "init" /\ frame.node = n
      THEN frame.i - 1
      ELSE Len(Registers[data[n].module])

\* Listed is the file of that name, once, and not one that is still to load.
NamesOK ==
    /\ \A n \in On(Loaded) : data[n].module = FileOf[data[n].key] /\ data[n].key \notin toLoad
    /\ \A m, n \in On(Loaded) : data[m].key = data[n].key => m = n

\* What is to load next is not listed, but for the copy that leaves.
ThenOK ==
    frame.at \in {"shutdown", "clear"} /\ frame.then \in Name =>
        toLoad = {} /\ \A n \in On(Loaded) : data[n].key = frame.then => Leaving(n)

\* The file whose handlers are cleared is not listed.
FileGone == frame.at = "clear" => \A n \in On(Loaded) : data[n].module # frame.file

\* What stays has its handlers in order.
RegisteredOK ==
    \A n \in On(Loaded) : ~Leaving(n) =>
        \A l \in Kinds : InOrder(Handlers(l), data[n].module, l, Progress(n))

CInv == NamesOK /\ ThenOK /\ FileGone /\ RegisteredOK

\* No file is listed twice.
LEMMA ModulesDiffer ==
    ASSUME OnePathEach, EntriesOK, NamesOK
    PROVE  \A m, n \in On(Loaded) : data[m].module = data[n].module => m = n
<1>1. \A n \in On(Loaded) : data[n].key \in Name /\ data[n].module = FileOf[data[n].key]
  BY EntryTypes DEF EntriesOK, NamesOK
<1> QED
  BY <1>1 DEF OnePathEach, NamesOK

\* A step that leaves the lists alone, and lets no module go on or come back.
LEMMA ListsAlone ==
    ASSUME CInv, UNCHANGED <<mem, data>>, toLoad' \subseteq toLoad,
           \A n \in On(Loaded) : ~Leaving(n)' => ~Leaving(n) /\ Progress(n)' = Progress(n),
           ThenOK', FileGone'
    PROVE  CInv'
<1>1. /\ On(Loaded)' = On(Loaded) /\ data' = data
      /\ \A l \in Kinds : Handlers(l)' = Handlers(l)
  BY DEF On, Handlers
<1>2. NamesOK'
  BY <1>1 DEF CInv, NamesOK
<1>3. RegisteredOK'
  BY <1>1 DEF CInv, RegisteredOK
<1> QED
  BY <1>2, <1>3 DEF CInv

\* A handler that goes is in nobody's way but its module's.
LEMMA DropKeepsOrder ==
    ASSUME ListsOK, NEW l \in Kinds, NEW i \in DOMAIN Chain(mem, l),
           Drop(Chain(mem, l)[i], l),
           NEW f, data[Chain(mem, l)[i]].module # f,
           NEW k \in Kinds, NEW n, InOrder(Handlers(k), f, k, n)
    PROVE  InOrder(Handlers(k)', f, k, n)
<1>1. l \in List /\ k \in List
  BY KindsAreLists
<1>2. /\ Handlers(l)' = RemoveAt(Handlers(l), i)
      /\ k # l => Handlers(k)' = Handlers(k)
  BY <1>1, DropHandlers
<1>3. CASE k = l
  <2>1. /\ Handlers(l) \in Seq(Entry) /\ i \in DOMAIN Handlers(l)
        /\ Handlers(l)[i] = data[Chain(mem, l)[i]]
    BY <1>1, HandlersShape, PlacesOf
  <2>2. Handlers(l)[i].module # f
    BY <2>1
  <2>3. InOrder(Handlers(l), f, l, n)
    BY <1>3
  <2>4. InOrder(RemoveAt(Handlers(l), i), f, l, n)
    BY <2>1, <2>2, <2>3, OtherRemoved
  <2> QED
    BY <1>2, <1>3, <2>4
<1> QED
  BY <1>2, <1>3

\* A handler that comes is in nobody's way but its module's.
LEMMA AddKeepsOrder ==
    ASSUME ListsOK, NEW l \in Kinds, NEW e \in Entry, AddTo(l, e),
           NEW f, e.module # f,
           NEW k \in Kinds, NEW n, InOrder(Handlers(k), f, k, n)
    PROVE  InOrder(Handlers(k)', f, k, n)
<1>1. l \in List /\ k \in List
  BY KindsAreLists
<1>2. /\ Handlers(l)' = Append(Handlers(l), e)
      /\ k # l => Handlers(k)' = Handlers(k)
  BY <1>1, AddHandlers
<1>3. Handlers(k) \in Seq(Entry)
  BY <1>1, HandlersShape
<1>4. InOrder(Append(Handlers(k), e), f, k, n)
  BY <1>3, OtherAppended
<1> QED
  BY <1>2, <1>4

\* A module that joins the list has registered nothing.
LEMMA InitModuleC ==
    ASSUME OnePathEach, IInv, AllMapped, CInv, NEW name \in Name, initmodule(name),
           frame.at \notin {"init", "shutdown"},
           \A n \in On(Loaded) : data[n].key # name,
           name \notin toLoad', toLoad' \subseteq toLoad
    PROVE  CInv'
<1>0. ListsOK /\ EntriesOK
  BY DEF IInv
<1>1. CASE frame' = Idle /\ UNCHANGED <<mem, data, refs>>
  <2>1. \A n \in On(Loaded) : ~Leaving(n) /\ Progress(n)' = Progress(n)
    BY <1>1 DEF Leaving, Progress, Idle
  <2>2. ThenOK' /\ FileGone'
    BY <1>1 DEF ThenOK, FileGone, Idle
  <2> QED
    BY <1>1, <2>1, <2>2, ListsAlone
<1>2. CASE /\ AddTo(Loaded, [key |-> name, module |-> FileOf[name]])
           /\ frame' = [at |-> "init", node |-> Malloc, i |-> 1]
  <2> DEFINE e == [key |-> name, module |-> FileOf[name]]
  <2>1. e \in ModuleEntry /\ e.key = name /\ e.module = FileOf[name]
    BY ModulesAssumption DEF ModuleEntry
  <2>2. AddTo(Loaded, e) /\ Loaded \in List /\ e \in Entry
    BY <1>2, <2>1, EntryTypes, KindsAreLists
  <2> HIDE DEF e
  <2>3. /\ Malloc \notin On(Loaded)
        /\ On(Loaded)' = On(Loaded) \cup {Malloc}
        /\ \A n \in Node : data'[n] = IF n = Malloc THEN e ELSE data[n]
        /\ Malloc \in Node /\ On(Loaded) \subseteq Node
    BY <1>0, <2>2, AddShape, PlacesOf
  <2>4. \A n \in On(Loaded) : data'[n] = data[n]
    BY <2>3
  <2>5. \A l \in Kinds : Handlers(l)' = Handlers(l) /\ l \in List
    BY <1>0, <2>2, AddHandlers, KindsAreLists
  <2>6. NamesOK'
    <3>1. \A n \in On(Loaded) : data[n].module = FileOf[data[n].key] /\ data[n].key \notin toLoad
      BY DEF CInv, NamesOK
    <3>2. data'[Malloc] = e
      BY <2>3
    <3> QED
      BY <2>1, <2>3, <2>4, <3>1, <3>2 DEF CInv, NamesOK
  <2>7. ThenOK' /\ FileGone'
    BY <1>2 DEF ThenOK, FileGone
  <2>8. RegisteredOK'
    <3> SUFFICES ASSUME NEW n \in On(Loaded)', NEW l \in Kinds
                 PROVE  InOrder(Handlers(l)', data'[n].module, l, Progress(n)')
      BY DEF RegisteredOK
    <3>1. CASE n = Malloc
      <4>1. Progress(n)' = 0 /\ data'[n].module = FileOf[name]
        BY <1>2, <2>1, <2>3, <3>1 DEF Progress
      <4>2. \A m \in On(Loaded) : data[m].module # FileOf[name]
        <5> SUFFICES ASSUME NEW m \in On(Loaded), data[m].module = FileOf[name]
                     PROVE  FALSE
          OBVIOUS
        <5>1. data[m].key \in Name /\ data[m].module = FileOf[data[m].key]
          BY <1>0, EntryTypes DEF EntriesOK, CInv, NamesOK
        <5>2. data[m].key = name
          BY <5>1 DEF OnePathEach
        <5> QED
          BY <5>2
      <4>3. \A k \in DOMAIN Handlers(l) : Handlers(l)[k].module # FileOf[name]
        <5> SUFFICES ASSUME NEW k \in DOMAIN Handlers(l),
                            Handlers(l)[k].module = FileOf[name]
                     PROVE  FALSE
          OBVIOUS
        <5>1. PICK x \in On(l) : Handlers(l)[k] = data[x]
          BY <1>0, <2>5, HandlersShape
        <5>2. data[x].module = FileOf[name] /\ FileOf[name] # Null
          BY <5>1, ModulesAssumption
        <5> QED
          BY <4>2, <5>2 DEF AllMapped, HasModule
      <4> QED
        BY <2>5, <4>1, <4>3, NoneInOrder
    <3>2. CASE n # Malloc
      <4>1. n \in On(Loaded) /\ data'[n] = data[n]
        BY <2>3, <2>4, <3>2
      <4>2. Progress(n)' = Progress(n) /\ ~Leaving(n)
        BY <1>2, <3>2, <4>1 DEF Progress, Leaving
      <4> QED
        BY <2>5, <4>1, <4>2 DEF CInv, RegisteredOK
    <3> QED
      BY <3>1, <3>2
  <2> QED
    BY <2>6, <2>7, <2>8 DEF CInv
<1> QED
  BY <1>1, <1>2 DEF initmodule

\* module_init registers its next handler.
LEMMA InitStepC ==
    ASSUME OnePathEach, IInv, CInv, InitStep
    PROVE  CInv'
<1>0. ListsOK /\ EntriesOK
  BY DEF IInv
<1>1. /\ frame \in InitFrames /\ frame.node \in On(Loaded) /\ frame.at = "init"
      /\ frame' = [frame EXCEPT !.i = @ + 1] /\ toLoad' = toLoad
  BY FrameShapes DEF IInv, InitStep
<1>2. PICK f \in File : f = data[frame.node].module
  BY <1>0, <1>1, EntryTypes DEF EntriesOK
<1>3. PICK c \in Nat : c + 1 = frame.i /\ c = frame.i - 1
  <2>1. frame.i \in Nat \ {0}
    BY <1>1 DEF InitFrames
  <2>2. frame.i - 1 \in Nat /\ frame.i - 1 + 1 = frame.i
    BY <2>1
  <2> QED
    BY <2>2
<1>4. PICK l \in Kinds, e \in HandlerEntry :
         /\ l = Registers[f][c + 1].kind
         /\ e = [key |-> Registers[f][c + 1].key, module |-> f]
         /\ AddTo(l, e)
  <2>1. frame.i \in 1 .. Len(Registers[f])
    <3>1. frame.i <= Len(Registers[f])
      BY <1>2 DEF InitStep
    <3>2. frame.i \in Nat \ {0}
      BY <1>1 DEF InitFrames
    <3> QED
      BY <3>1, <3>2, TurnIs
  <2>2. /\ Registers[f][frame.i].kind \in Kinds
        /\ [key |-> Registers[f][frame.i].key, module |-> f] \in HandlerEntry
    BY <2>1, HookTypes
  <2>3. AddTo(Registers[f][frame.i].kind, [key |-> Registers[f][frame.i].key, module |-> f])
    BY <1>2 DEF InitStep
  <2> QED
    BY <1>3, <2>2, <2>3
<1>5. e.module = f /\ e \in Entry
  BY <1>4, EntryTypes
<1>6. /\ On(Loaded)' = On(Loaded)
      /\ \A n \in On(Loaded) : data'[n] = data[n]
  BY <1>0, <1>4, AddHandler
<1>7. NamesOK'
  BY <1>1, <1>6 DEF CInv, NamesOK
<1>8. ThenOK' /\ FileGone' /\ frame'.at = "init" /\ frame'.node = frame.node /\ frame'.i = c + 2
  <2>1. frame'.at = "init" /\ frame'.node = frame.node /\ frame'.i = frame.i + 1
    BY <1>1 DEF InitFrames
  <2> QED
    BY <1>3, <2>1 DEF ThenOK, FileGone
<1>9. RegisteredOK'
  <2> SUFFICES ASSUME NEW n \in On(Loaded)', NEW k \in Kinds
               PROVE  InOrder(Handlers(k)', data'[n].module, k, Progress(n)')
    BY DEF RegisteredOK
  <2>1. n \in On(Loaded) /\ data'[n] = data[n] /\ ~Leaving(n)
    BY <1>1, <1>6 DEF Leaving
  <2>2. InOrder(Handlers(k), data[n].module, k, Progress(n))
    BY <2>1 DEF CInv, RegisteredOK
  <2>3. CASE n = frame.node
    <3>1. Progress(n) = c /\ Progress(n)' = c + 1 /\ data[n].module = f
      BY <1>1, <1>2, <1>3, <1>8, <2>3 DEF Progress
    <3>2. InOrder(Handlers(k), f, k, c)
      BY <2>2, <3>1
    <3>3. k \in List /\ l \in List
      BY KindsAreLists
    <3>4. CASE k = l
      <4>1. Handlers(k)' = Append(Handlers(k), e) /\ Handlers(k) \in Seq(Entry)
        BY <1>0, <1>4, <1>5, <3>3, <3>4, AddHandlers, HandlersShape
      <4>2. InOrder(Append(Handlers(k), e), f, k, c + 1)
        BY <1>4, <1>5, <3>2, <3>4, <4>1, NextAppended
      <4> QED
        BY <2>1, <3>1, <4>1, <4>2
    <3>5. CASE k # l
      <4>1. Handlers(k)' = Handlers(k)
        BY <1>0, <1>4, <1>5, <3>3, <3>5, AddHandlers
      <4>2. InOrder(Handlers(k), f, k, c + 1)
        BY <1>4, <3>2, <3>5, NextElsewhere
      <4> QED
        BY <2>1, <3>1, <4>1, <4>2
    <3> QED
      BY <3>4, <3>5
  <2>4. CASE n # frame.node
    <3>1. Progress(n)' = Progress(n)
      BY <1>8, <2>1, <2>4 DEF Progress
    <3>2. data[n].module # f
      BY <1>0, <1>1, <1>2, <2>1, <2>4, ModulesDiffer DEF CInv
    <3>3. InOrder(Handlers(k)', data[n].module, k, Progress(n))
      BY <1>0, <1>4, <1>5, <2>2, <3>2, AddKeepsOrder
    <3> QED
      BY <2>1, <3>1, <3>3
  <2> QED
    BY <2>3, <2>4
<1> QED
  BY <1>7, <1>8, <1>9 DEF CInv

\* A handler goes whose module is not among those that stay.
LEMMA DropHandlerC ==
    ASSUME IInv, CInv, NEW l \in Kinds, NEW i \in DOMAIN Chain(mem, l),
           Drop(Chain(mem, l)[i], l), toLoad' = toLoad,
           \A n \in On(Loaded) : ~Leaving(n) => data[n].module # data[Chain(mem, l)[i]].module,
           \A n \in On(Loaded) : Leaving(n)' <=> Leaving(n),
           frame.at # "init", frame'.at # "init"
    PROVE  /\ NamesOK' /\ RegisteredOK'
           /\ On(Loaded)' = On(Loaded)
           /\ \A n \in On(Loaded) : data'[n] = data[n]
<1>0. ListsOK /\ EntriesOK
  BY DEF IInv
<1>1. /\ On(Loaded)' = On(Loaded)
      /\ \A n \in On(Loaded) : data'[n] = data[n]
  BY <1>0, DropHandler
<1>2. NamesOK'
  BY <1>1 DEF CInv, NamesOK
<1>3. RegisteredOK'
  <2> SUFFICES ASSUME NEW n \in On(Loaded)', ~Leaving(n)', NEW k \in Kinds
               PROVE  InOrder(Handlers(k)', data'[n].module, k, Progress(n)')
    BY DEF RegisteredOK
  <2>1. n \in On(Loaded) /\ data'[n] = data[n] /\ ~Leaving(n)
    BY <1>1
  <2>2. Progress(n)' = Progress(n)
    BY <2>1 DEF Progress
  <2>3. InOrder(Handlers(k), data[n].module, k, Progress(n))
    BY <2>1 DEF CInv, RegisteredOK
  <2>4. data[Chain(mem, l)[i]].module # data[n].module
    BY <2>1
  <2>5. InOrder(Handlers(k)', data[n].module, k, Progress(n))
    BY <1>0, <2>3, <2>4, DropKeepsOrder
  <2> QED
    BY <2>1, <2>2, <2>5
<1> QED
  BY <1>1, <1>2, <1>3

\* module_shutdown drops handlers of its own module.
LEMMA ShutdownStepC ==
    ASSUME OnePathEach, IInv, CInv, ShutdownStep
    PROVE  CInv'
<1>0. ListsOK /\ EntriesOK
  BY DEF IInv
<1>1. /\ frame \in ShutdownFrames /\ frame.node \in On(Loaded) /\ frame.at = "shutdown"
      /\ frame' = [frame EXCEPT !.i = @ + 1] /\ toLoad' = toLoad
  BY FrameShapes DEF IInv, ShutdownStep
<1>2. /\ frame'.at = "shutdown" /\ frame'.node = frame.node /\ frame'.then = frame.then
  BY <1>1 DEF ShutdownFrames
<1>3. \A n : Leaving(n)' <=> Leaving(n)
  BY <1>1, <1>2 DEF Leaving
<1>4. ASSUME On(Loaded)' = On(Loaded), \A n \in On(Loaded) : data'[n] = data[n]
      PROVE  ThenOK' /\ FileGone'
  BY <1>1, <1>2, <1>3, <1>4 DEF CInv, ThenOK, FileGone
<1>5. CASE UNCHANGED <<mem, data>>
  <2>1. ThenOK' /\ FileGone'
    BY <1>4, <1>5 DEF On
  <2>2. \A n \in On(Loaded) : Progress(n)' = Progress(n)
    BY <1>1, <1>2, <1>5 DEF Progress
  <2> QED
    BY <1>1, <1>3, <1>5, <2>1, <2>2, ListsAlone
<1>6. CASE ~ UNCHANGED <<mem, data>>
  <2> DEFINE f == data[frame.node].module
             r == Drops[f][frame.i]
             e == [key |-> r.key, module |-> f]
  <2>2. f \in File /\ frame.i \in Nat \ {0}
    BY <1>0, <1>1, EntryTypes DEF EntriesOK, ShutdownFrames
  <2>3. frame.i \in 1 .. Len(Drops[f])
    <3>1. frame.i <= Len(Drops[f])
      BY DEF ShutdownStep
    <3> QED
      BY <3>1, <2>2, TurnIs
  <2>4. PICK l \in Kinds : l = r.kind
    BY <2>2, <2>3, HookTypes
  <2>5. DeleteFirst(r.kind, e) /\ e.module = f
    BY DEF ShutdownStep
  <2> HIDE DEF r, e
  <2>6. PICK n : data[n] = e /\ Drop(n, l)
                 /\ IsFirst(n, l, {m \in Range(Chain(mem, l)) : data[m] = e})
    BY <1>6, <2>4, <2>5 DEF DeleteFirst
  <2>7. PICK i \in DOMAIN Chain(mem, l) : n = Chain(mem, l)[i]
    BY <2>6 DEF IsFirst
  <2>8. Drop(Chain(mem, l)[i], l) /\ data[Chain(mem, l)[i]].module = data[frame.node].module
    BY <2>5, <2>6, <2>7
  <2>9. \A m \in On(Loaded) :
           ~Leaving(m) => data[m].module # data[Chain(mem, l)[i]].module
    BY <1>0, <1>1, <2>8, ModulesDiffer DEF CInv, Leaving
  <2>10. frame.at # "init" /\ frame'.at # "init"
    BY <1>1, <1>2
  <2>11. /\ NamesOK' /\ RegisteredOK'
         /\ On(Loaded)' = On(Loaded)
         /\ \A m \in On(Loaded) : data'[m] = data[m]
    BY <1>1, <1>3, <2>8, <2>9, <2>10, DropHandlerC
  <2> QED
    BY <1>4, <2>11 DEF CInv
<1> QED
  BY <1>5, <1>6

\* dlclose: the file is not listed any more.
LEMMA UnmapC ==
    ASSUME OnePathEach, IInv, CInv, Unmap
    PROVE  CInv'
<1>0. ListsOK /\ EntriesOK /\ RefsOK /\ Loaded \in List
  BY KindsAreLists DEF IInv
<1>1. /\ frame \in ShutdownFrames /\ frame.node \in On(Loaded) /\ frame.at = "shutdown"
      /\ toLoad' = toLoad /\ Drop(frame.node, Loaded)
      /\ refs' = [refs EXCEPT ![data[frame.node].module] = @ - 1]
  BY FrameShapes DEF IInv, Unmap
<1>2. /\ frame'.at = "clear" /\ frame'.file = data[frame.node].module
      /\ frame'.then = frame.then
  BY DEF Unmap
<1>3. PICK i \in DOMAIN Chain(mem, Loaded) : frame.node = Chain(mem, Loaded)[i]
  BY <1>0, <1>1, PlacesOf
<1>4. Drop(Chain(mem, Loaded)[i], Loaded)
  BY <1>1, <1>3
<1>5. /\ On(Loaded)' = On(Loaded) \ {frame.node}
      /\ \A n \in Node : data'[n] = IF n = frame.node THEN Null ELSE data[n]
      /\ \A k \in Kinds : Handlers(k)' = Handlers(k)
  BY <1>0, <1>3, <1>4, DropShape, DropHandlers, KindsAreLists
<1>6. On(Loaded) \subseteq Node
  BY <1>0, PlacesOf
<1>7. \A n \in On(Loaded)' :
         /\ n \in On(Loaded) /\ n # frame.node /\ data'[n] = data[n]
         /\ ~Leaving(n) /\ Progress(n)' = Progress(n)
  <2> SUFFICES ASSUME NEW n \in On(Loaded)'
               PROVE  /\ n \in On(Loaded) /\ n # frame.node /\ data'[n] = data[n]
                      /\ ~Leaving(n) /\ Progress(n)' = Progress(n)
    OBVIOUS
  <2>1. n \in On(Loaded) /\ n # frame.node /\ data'[n] = data[n]
    BY <1>5, <1>6
  <2> QED
    BY <1>1, <1>2, <2>1 DEF Leaving, Progress
<1>8. NamesOK'
  BY <1>1, <1>7 DEF CInv, NamesOK
<1>9. ThenOK'
  BY <1>1, <1>2, <1>7 DEF CInv, ThenOK
<1>10. FileGone'
  BY <1>0, <1>1, <1>2, <1>7, ModulesDiffer DEF CInv, FileGone
<1>11. RegisteredOK'
  BY <1>5, <1>7 DEF CInv, RegisteredOK
<1> QED
  BY <1>8, <1>9, <1>10, <1>11 DEF CInv

\* A turn of a walk takes no handler of a listed file.
LEMMA ClearStepC ==
    ASSUME IInv, CInv, ClearStep
    PROVE  CInv'
<1>0. ListsOK /\ EntriesOK
  BY DEF IInv
<1>1. /\ frame \in ClearFrames /\ frame.at = "clear" /\ frame.node # Null
      /\ frame.node \in On(Order[frame.k]) /\ frame.k \in DOMAIN Order
      /\ toLoad' = toLoad
      /\ frame' = [frame EXCEPT !.node = mem.next[@]] \/ frame' = Crashed
  BY FrameShapes DEF IInv, ClearStep, ClearFrames
<1>2. \/ frame'.at = "clear" /\ frame'.file = frame.file /\ frame'.then = frame.then
      \/ frame'.at = "crashed"
  BY <1>1 DEF ClearFrames, Crashed
<1>3. \A n : ~Leaving(n) /\ ~Leaving(n)'
  BY <1>1, <1>2 DEF Leaving
<1>4. ASSUME On(Loaded)' = On(Loaded), \A n \in On(Loaded) : data'[n] = data[n]
      PROVE  ThenOK' /\ FileGone'
  BY <1>1, <1>2, <1>3, <1>4 DEF CInv, ThenOK, FileGone
<1>5. frame.at # "init" /\ frame'.at # "init"
  BY <1>1, <1>2
<1>6. CASE data[frame.node].module = frame.file
  <2>1. PICK l \in Kinds : l = Order[frame.k] /\ l \in List
    BY <1>1, KindsAreLists
  <2>2. PICK i \in DOMAIN Chain(mem, l) : frame.node = Chain(mem, l)[i]
    BY <1>0, <1>1, <2>1, PlacesOf
  <2>3. Drop(Chain(mem, l)[i], l) /\ data[Chain(mem, l)[i]].module = frame.file
    BY <1>6, <2>1, <2>2 DEF ClearStep
  <2>4. \A n \in On(Loaded) :
           ~Leaving(n) => data[n].module # data[Chain(mem, l)[i]].module
    BY <1>1, <2>3 DEF CInv, FileGone
  <2>5. /\ NamesOK' /\ RegisteredOK'
        /\ On(Loaded)' = On(Loaded)
        /\ \A m \in On(Loaded) : data'[m] = data[m]
    BY <1>1, <1>3, <1>5, <2>3, <2>4, DropHandlerC
  <2> QED
    BY <1>4, <2>5 DEF CInv
<1>7. CASE data[frame.node].module # frame.file
  <2>1. UNCHANGED <<mem, data>>
    BY <1>7 DEF ClearStep
  <2>2. ThenOK' /\ FileGone'
    BY <1>4, <2>1 DEF On
  <2>3. \A n \in On(Loaded) : Progress(n)' = Progress(n)
    BY <1>5, <2>1 DEF Progress
  <2> QED
    BY <1>1, <1>3, <2>1, <2>2, <2>3, ListsAlone
<1> QED
  BY <1>6, <1>7

\* No module leaves and none is being initialised.
LEMMA Steady ==
    ASSUME frame.at \notin {"init", "shutdown"}, frame'.at \notin {"init", "shutdown"},
           UNCHANGED data
    PROVE  \A n : ~Leaving(n) /\ ~Leaving(n)' /\ Progress(n)' = Progress(n)
BY DEF Leaving, Progress

\* On to the next registry.
LEMMA ClearNextC ==
    ASSUME IInv, CInv, ClearNext
    PROVE  CInv'
<1>1. /\ frame \in ClearFrames /\ frame.at = "clear"
      /\ UNCHANGED <<mem, data>> /\ toLoad' = toLoad
      /\ frame' = [frame EXCEPT !.k = @ + 1, !.node = mem.head[Order[frame.k + 1]]]
  BY FrameShapes DEF IInv, ClearNext
<1>2. frame'.at = "clear" /\ frame'.file = frame.file /\ frame'.then = frame.then
  BY <1>1 DEF ClearFrames
<1>3. \A n : ~Leaving(n) /\ ~Leaving(n)' /\ Progress(n)' = Progress(n)
  BY <1>1, <1>2, Steady
<1>4. ThenOK' /\ FileGone'
  BY <1>1, <1>2, <1>3 DEF CInv, ThenOK, FileGone, On
<1> QED
  BY <1>1, <1>3, <1>4, ListsAlone

\* The loader has nothing more to do.
LEMMA IdleC ==
    ASSUME CInv, UNCHANGED <<mem, data>>, toLoad' \subseteq toLoad, frame' = Idle,
           \A n \in On(Loaded) : ~Leaving(n) /\ Progress(n) = Len(Registers[data[n].module])
    PROVE  CInv'
<1>1. ThenOK' /\ FileGone'
  BY DEF ThenOK, FileGone, Idle
<1>2. \A n \in On(Loaded) : Progress(n)' = Progress(n)
  BY DEF Progress, Idle
<1> QED
  BY <1>1, <1>2, ListsAlone

\* The end of the last walk.
LEMMA ClearEndC ==
    ASSUME OnePathEach, IInv, CInv, ClearEnd
    PROVE  CInv'
<1>1. /\ frame.at = "clear" /\ frame.node = Null /\ frame.k = Len(Order)
      /\ frame # Crashed /\ toLoad' = toLoad
  BY FrameShapes DEF IInv, ClearEnd
<1>2. \A n : ~Leaving(n) /\ Progress(n) = Len(Registers[data[n].module])
  BY <1>1 DEF Leaving, Progress
<1>3. CASE frame.then \in Name
  <2>1. toLoad = {} /\ \A n \in On(Loaded) : data[n].key # frame.then
    BY <1>1, <1>2, <1>3 DEF CInv, ThenOK
  <2>2. initmodule(frame.then)
    BY <1>3 DEF ClearEnd
  <2>3. AllMapped
    BY <1>1, MappedIsAll DEF Finished
  <2>4. /\ frame.at \notin {"init", "shutdown"}
        /\ frame.then \notin toLoad' /\ toLoad' \subseteq toLoad
    BY <1>1, <2>1
  <2> QED
    BY <1>3, <2>1, <2>2, <2>3, <2>4, InitModuleC
<1>4. CASE frame.then \notin Name
  <2>1. frame' = Idle /\ UNCHANGED <<mem, data>>
    BY <1>4 DEF ClearEnd
  <2> QED
    BY <1>1, <1>2, <2>1, IdleC
<1> QED
  BY <1>3, <1>4

\* A module is about to be shut down, perhaps to be loaded anew.
LEMMA ShutdownC ==
    ASSUME CInv, UNCHANGED <<mem, data>>, toLoad' = toLoad, NEW n \in On(Loaded), NEW then,
           frame' = Shutdown(n, then),
           then \in Name => toLoad = {} /\ \A m \in On(Loaded) : data[m].key = then => m = n,
           \A m \in On(Loaded) :
               m # n => ~Leaving(m) /\ Progress(m) = Len(Registers[data[m].module])
    PROVE  CInv'
<1>1. frame'.at = "shutdown" /\ frame'.node = n /\ frame'.then = then
  BY DEF Shutdown
<1>2. \A m : Leaving(m)' <=> m = n
  BY <1>1 DEF Leaving
<1>3. On(Loaded)' = On(Loaded) /\ data' = data
  BY DEF On
<1>4. ThenOK' /\ FileGone'
  BY <1>1, <1>2, <1>3 DEF ThenOK, FileGone
<1>5. \A m \in On(Loaded) : ~Leaving(m)' => ~Leaving(m) /\ Progress(m)' = Progress(m)
  <2>1. \A m : Progress(m)' = Len(Registers[data[m].module])
    BY <1>1 DEF Progress
  <2> QED
    BY <1>2, <2>1
<1> QED
  BY <1>4, <1>5, ListsAlone

\* module_init returns: all its handlers are in place.
LEMMA InitEndC ==
    ASSUME IInv, CInv, InitEnd
    PROVE  CInv'
<1>1. /\ frame \in InitFrames /\ frame.at = "init" /\ frame.node \in On(Loaded)
      /\ frame.i = Len(Registers[data[frame.node].module]) + 1
      /\ frame' = Idle /\ UNCHANGED <<mem, data>> /\ toLoad' = toLoad
  BY FrameShapes DEF IInv, InitEnd
<1>2. data[frame.node].module \in File
  BY <1>1, EntryTypes DEF IInv, EntriesOK
<1>3. frame.i - 1 = Len(Registers[data[frame.node].module])
  BY <1>1, <1>2, HookTypes
<1>4. \A n : ~Leaving(n) /\ Progress(n) = Len(Registers[data[n].module])
  BY <1>1, <1>3 DEF Leaving, Progress
<1> QED
  BY <1>1, <1>4, IdleC

\* module_init fails: its module leaves.
LEMMA InitFailsC ==
    ASSUME IInv, CInv, InitFails
    PROVE  CInv'
<1>1. /\ frame.at = "init" /\ frame.node \in On(Loaded)
      /\ frame' = Shutdown(frame.node, Null)
      /\ UNCHANGED <<mem, data>> /\ toLoad' = toLoad
  BY FrameShapes DEF IInv, InitFails
<1>2. \A m : m # frame.node => ~Leaving(m) /\ Progress(m) = Len(Registers[data[m].module])
  BY <1>1 DEF Leaving, Progress
<1>3. Null \notin Name
  BY EntryTypes
<1> QED
  BY <1>1, <1>2, <1>3, ShutdownC

\* Between two commands no module is under way.
LEMMA IdleIsSteady ==
    ASSUME frame = Idle
    PROVE  /\ \A n : ~Leaving(n) /\ Progress(n) = Len(Registers[data[n].module])
           /\ frame.at \notin {"init", "shutdown"}
BY DEF Leaving, Progress, Idle

\* REMOVEMODULE.
LEMMA RemoveModuleC ==
    ASSUME IInv, CInv, NEW name \in Name, removemodule(name)
    PROVE  CInv'
<1>1. frame = Idle /\ UNCHANGED <<mem, data>> /\ toLoad' = toLoad
  BY DEF removemodule
<1>2. \A n : ~Leaving(n) /\ Progress(n) = Len(Registers[data[n].module])
  BY <1>1, IdleIsSteady
<1>3. CASE frame' = Idle
  BY <1>1, <1>2, <1>3, IdleC
<1>4. CASE \E n \in Named(name) : frame' = Shutdown(n, Null)
  <2>1. PICK n \in On(Loaded) : frame' = Shutdown(n, Null)
    BY <1>4, NamedAreListed
  <2>2. Null \notin Name
    BY EntryTypes
  <2> QED
    BY <1>1, <1>2, <2>1, <2>2, ShutdownC
<1> QED
  BY <1>3, <1>4 DEF removemodule

\* LOADMODULE.
LEMMA LoadModuleC ==
    ASSUME OnePathEach, IInv, CInv, NEW name \in Name, loadmodule(name)
    PROVE  CInv'
<1>1. frame = Idle /\ toLoad = {} /\ toLoad' = toLoad
  BY DEF loadmodule
<1>2. /\ \A n : ~Leaving(n) /\ Progress(n) = Len(Registers[data[n].module])
      /\ frame.at \notin {"init", "shutdown"}
  BY <1>1, IdleIsSteady
<1>3. CASE Named(name) = {} /\ initmodule(name)
  <2>1. \A n \in On(Loaded) : data[n].key # name
    BY <1>3 DEF Named, On
  <2>2. AllMapped /\ name \notin toLoad' /\ toLoad' \subseteq toLoad
    BY <1>1, IdleIsAll
  <2> QED
    BY <1>2, <1>3, <2>1, <2>2, InitModuleC
<1>4. CASE \E n \in Named(name) : /\ frame' = Shutdown(n, name)
                                 /\ UNCHANGED <<mem, data, refs, answer>>
  <2>1. PICK n \in Named(name) : frame' = Shutdown(n, name) /\ UNCHANGED <<mem, data>>
    BY <1>4
  <2>2. n \in On(Loaded) /\ data[n].key = name
    BY <2>1 DEF Named, On
  <2>3. \A m \in On(Loaded) : data[m].key = name => m = n
    BY <2>2 DEF CInv, NamesOK
  <2> QED
    BY <1>1, <1>2, <2>1, <2>2, <2>3, ShutdownC
<1> QED
  BY <1>3, <1>4 DEF loadmodule

\* An entry of the directory of modules.
LEMMA AutoloadC ==
    ASSUME OnePathEach, IInv, CInv, NEW name \in Name, autoloadmods(name)
    PROVE  CInv'
<1>1. frame = Idle /\ name \in toLoad /\ toLoad' = toLoad \ {name}
  BY DEF autoloadmods
<1>2. /\ \A n : ~Leaving(n) /\ Progress(n) = Len(Registers[data[n].module])
      /\ frame.at \notin {"init", "shutdown"}
  BY <1>1, IdleIsSteady
<1>3. CASE initmodule(name)
  <2>1. \A n \in On(Loaded) : data[n].key # name
    BY <1>1 DEF CInv, NamesOK
  <2>2. AllMapped /\ name \notin toLoad' /\ toLoad' \subseteq toLoad
    BY <1>1, IdleIsAll
  <2> QED
    BY <1>2, <1>3, <2>1, <2>2, InitModuleC
<1>4. CASE UNCHANGED <<mem, data, refs, frame, answer>>
  BY <1>1, <1>2, <1>4, IdleC
<1> QED
  BY <1>3, <1>4 DEF autoloadmods

\* Every call of the loader and every turn of it keeps what makes the handlers
\* those of the listed modules.
LEMMA NextCInv ==
    ASSUME OnePathEach
    PROVE  IInv /\ CInv /\ [Next]_vars => CInv'
<1> SUFFICES ASSUME IInv, CInv, [Next]_vars
             PROVE  CInv'
  OBVIOUS
<1>1. CASE \E name \in Name : loadmodule(name) \/ removemodule(name) \/ autoloadmods(name)
  BY <1>1, LoadModuleC, RemoveModuleC, AutoloadC
<1>2. CASE InitStep
  BY <1>2, InitStepC
<1>3. CASE InitEnd
  BY <1>3, InitEndC
<1>4. CASE InitFails
  BY <1>4, InitFailsC
<1>5. CASE ShutdownStep
  BY <1>5, ShutdownStepC
<1>6. CASE Unmap
  BY <1>6, UnmapC
<1>7. CASE ClearStep
  BY <1>7, ClearStepC
<1>8. CASE ClearNext
  BY <1>8, ClearNextC
<1>9. CASE ClearEnd
  BY <1>9, ClearEndC
<1>10. CASE UNCHANGED vars
  BY <1>10 DEF vars, CInv, NamesOK, ThenOK, FileGone, RegisteredOK,
               Leaving, Progress, Handlers, On
<1> QED
  BY <1>1, <1>2, <1>3, <1>4, <1>5, <1>6, <1>7, <1>8, <1>9, <1>10 DEF Next, Continue

\* At first no module is listed.
LEMMA InitCInv == Init => CInv
<1> SUFFICES ASSUME Init
             PROVE  CInv
  OBVIOUS
<1>1. On(Loaded) = {}
  BY InitLists
<1>2. frame.at = "idle"
  BY DEF Init, Idle
<1> QED
  BY <1>1, <1>2 DEF CInv, NamesOK, ThenOK, FileGone, RegisteredOK

-----------------------------------------------------------------------------
(* Theorems *)

\* The inductive invariant holds in every reachable state (modules.c, list.h).
THEOREM Invariance == Spec => []IInv
<1>1. Init => IInv
  BY InitIInv
<1>2. IInv /\ [Next]_vars => IInv'
  BY NextIInv
<1> QED
  BY <1>1, <1>2, PTL DEF Spec

\* Whatever has been loaded, has failed and was removed, every list is a list in
\* both directions, of allocated nodes that are on no other (LinkToList and
\* UnlinkListItem of list.h as events.c, numeric.c, list.c and modules.c call
\* them).
THEOREM ListsStayLinked == Spec => []WellLinked
<1>1. IInv => WellLinked
  BY DEF IInv, ListsOK, RefsOK, FrameOK, WellLinked, TypeOK, On,
         Idle, Crashed, InitFrames, ShutdownFrames, ClearFrames
<1> QED
  BY <1>1, Invariance, PTL

\* The walks that free the nodes they stand on never hold a pointer to a free
\* node or to one of another list (delnumericmodule and its like).
THEOREM WalksStayOnTheirList == Spec => []WalkOnList
<1>1. IInv => WalkOnList
  <2> SUFFICES ASSUME IInv, frame.at = "clear", frame.node # Null
               PROVE  data[frame.node] # Null /\ frame.node \in Range(Chain(mem, Order[frame.k]))
    BY DEF WalkOnList
  <2>1. frame.node \in On(Order[frame.k]) /\ frame.k \in DOMAIN Order
    BY FrameShapes DEF IInv, ClearFrames
  <2>2. Order[frame.k] \in List
    BY <2>1, KindsAreLists
  <2> QED
    BY <2>1, <2>2 DEF IInv, ListsOK, On
<1> QED
  BY <1>1, Invariance, PTL

\* Once the loader has cleared up, the code of every handler is mapped and its
\* module is listed (unlinkmod, and the walks that follow dlclose).
THEOREM HandlersStayMapped == Spec => []EveryHandlerMapped
<1>1. IInv => EveryHandlerMapped
  <2> SUFFICES ASSUME IInv, frame = Idle, NEW l \in Kinds, NEW i \in DOMAIN Handlers(l),
                      Handlers(l)[i].module # Null
               PROVE  /\ refs[Handlers(l)[i].module] > 0
                      /\ \E n \in Range(Chain(mem, Loaded)) :
                            data[n].module = Handlers(l)[i].module
    BY DEF EveryHandlerMapped
  <2>1. l \in List /\ ListsOK /\ EntriesOK /\ RefsOK
    BY KindsAreLists DEF IInv
  <2>2. PICK x \in On(l) : Handlers(l)[i] = data[x]
    BY <2>1, HandlersShape
  <2>3. AllMapped
    BY IdleIsAll
  <2>4. PICK m \in On(Loaded) : data[m].module = data[x].module
    BY <2>2, <2>3 DEF AllMapped, HasModule
  <2>5. PICK f \in File : f = data[m].module
    BY <2>1, <2>4, EntryTypes DEF EntriesOK
  <2>6. m \in Copies(f) /\ Copies(f) # {}
    BY <2>5 DEF Copies
  <2>7. Cardinality(Copies(f)) > 0
    BY <2>1, <2>6, CopiesFinite, FS_EmptySet
  <2>8. refs[f] > 0
    BY <2>1, <2>7 DEF RefsOK
  <2> QED
    BY <2>2, <2>4, <2>5, <2>8 DEF On
<1> QED
  BY <1>1, Invariance, PTL

\* The registries, as pointers and freed nodes, implement the sequences of
\* Registry: calls in the order of registration, removals that leave the order
\* of the others, and the bot's own handlers for ever.
THEOREM RegistriesAreSequences == Spec => RegistrySpec
<1>1. Init => R!Init
  BY InitTable
<1>2. IInv /\ [Next]_vars => [R!Next]_(R!vars)
  BY NextTable DEF R!vars, Table
<1> QED
  BY <1>1, <1>2, Invariance, PTL DEF Spec, RegistrySpec, R!Spec

\* Between two commands the handlers are those of the listed modules, each once
\* and in the order of its module_init, whatever was loaded, has failed and was
\* removed (loadmodule, unlinkmod and autoloadmods).  No file may have two
\* names: without that it is not so.
THEOREM HandlersAreOfListed ==
    ASSUME OnePathEach
    PROVE  Spec => []HandlersOfListed
<1>1. Init => CInv
  BY InitCInv
<1>2. IInv /\ CInv /\ [Next]_vars => CInv'
  BY NextCInv
<1>3. CInv => ListedIsComplete
  <2> SUFFICES ASSUME CInv, frame = Idle, NEW n \in Range(Chain(mem, Loaded)), NEW l \in Kinds
               PROVE  HasRegistered(data[n].module, l, Len(Registers[data[n].module]))
    BY DEF ListedIsComplete
  <2>1. n \in On(Loaded) /\ ~Leaving(n) /\ Progress(n) = Len(Registers[data[n].module])
    BY IdleIsSteady DEF On
  <2>2. InOrder(Handlers(l), data[n].module, l, Len(Registers[data[n].module]))
    BY <2>1 DEF CInv, RegisteredOK
  <2> QED
    BY <2>2, InOrderIsRegistered
<1>4. EveryHandlerMapped /\ ListedIsComplete => HandlersOfListed
  BY DEF HandlersOfListed
<1> QED
  BY <1>1, <1>2, <1>3, <1>4, Invariance, HandlersStayMapped, PTL DEF Spec

=============================================================================
