----------------------------- MODULE LinkedList -----------------------------
(***************************************************************************)
(* The doubly linked lists of src/include/list.h, of which every list of   *)
(* acidblood is one: nodes with a prev and a next pointer, and a variable  *)
(* that points to the first.                                               *)
(*                                                                         *)
(* A memory m has the pointers of all nodes and the heads of all lists.    *)
(* Whose node is whose, and what it carries, is up to the modules that use *)
(* the lists.                                                              *)
(***************************************************************************)
EXTENDS Naturals, Sequences, FiniteSets, SequencesExt

CONSTANTS
    Node,       \* the blocks malloc gives
    List,       \* the head variables
    Null        \* NULL

\* Memory is finite, and NULL is none of its blocks.
ASSUME NodeAssumption == Null \notin Node /\ IsFiniteSet(Node)

Pointer == Node \cup {Null}

IsMemory(m) ==
    /\ DOMAIN m = {"next", "prev", "head"}
    /\ m.next \in [Node -> Pointer]
    /\ m.prev \in [Node -> Pointer]
    /\ m.head \in [List -> Pointer]

-----------------------------------------------------------------------------
\* From x on, a step of the walk after the other: as many as there are nodes,
\* since no list without a circle is longer.
Walk(step, x) ==
    LET at[k \in 0 .. Cardinality(Node)] == IF k = 0 THEN x ELSE step[at[k - 1]]
    IN  at

\* x = x->next, which stays where it is once x is NULL.
Step(m) == [x \in Pointer |-> IF x = Null THEN Null ELSE m.next[x]]

\* The nodes of a list, in order.
Chain(m, l) ==
    LET at == Walk(Step(m), m.head[l])
        n  == CHOOSE n \in 0 .. Cardinality(Node) :
                 /\ \A k \in 0 .. n - 1 : at[k] # Null
                 /\ n < Cardinality(Node) => at[n] = Null
    IN  [i \in 1 .. n |-> at[i - 1]]

\* FindEndOfList: follow next to the node that has none.
Ahead(m) == [x \in Node |-> IF m.next[x] = Null THEN x ELSE m.next[x]]

FindEndOfList(m, n) == Walk(Ahead(m), n)[Cardinality(Node)]

\* y is the last node of the list: x goes behind it.
LinkBehind(m, x, y) ==
    [m EXCEPT !.next = [@ EXCEPT ![x] = Null, ![y] = x],
              !.prev = [@ EXCEPT ![x] = y]]

\* Wrong on purpose: the new node does not point back.
LinkWithoutPrev(m, x, l) ==
    IF m.head[l] = Null
      THEN [m EXCEPT !.next[x] = Null, !.prev[x] = Null, !.head[l] = x]
      ELSE [m EXCEPT !.next = [@ EXCEPT ![x] = Null,
                                        ![FindEndOfList(m, m.head[l])] = x],
                     !.prev[x] = Null]

\* LinkToList: x becomes the last node of the list.
LinkToList(m, x, l) ==
    IF m.head[l] = Null
      THEN [m EXCEPT !.next[x] = Null, !.prev[x] = Null, !.head[l] = x]
      ELSE LinkBehind(m, x, FindEndOfList(m, m.head[l]))

\* UnlinkListItem: the only node, the last, the first, or one between two.
\* The node keeps its own pointers.
UnlinkListItem(m, x, l) ==
    CASE m.prev[x] = Null /\ m.next[x] = Null -> [m EXCEPT !.head[l] = Null]
      [] m.prev[x] # Null /\ m.next[x] = Null -> [m EXCEPT !.next[m.prev[x]] = Null]
      [] m.prev[x] = Null /\ m.next[x] # Null ->
            [m EXCEPT !.prev[m.next[x]] = Null, !.head[l] = m.next[x]]
      [] m.prev[x] # Null /\ m.next[x] # Null ->
            [m EXCEPT !.prev[m.next[x]] = m.prev[x], !.next[m.prev[x]] = m.next[x]]

-----------------------------------------------------------------------------
\* s is the list l of m, both ways.
Represents(m, l, s) ==
    /\ s \in Seq(Node)
    /\ \A i, j \in 1 .. Len(s) : s[i] = s[j] => i = j
    /\ m.head[l] = IF s = << >> THEN Null ELSE s[1]
    /\ \A i \in 1 .. Len(s) :
          /\ m.next[s[i]] = IF i = Len(s) THEN Null ELSE s[i + 1]
          /\ m.prev[s[i]] = IF i = 1 THEN Null ELSE s[i - 1]

=============================================================================
