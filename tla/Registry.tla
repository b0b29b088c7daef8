------------------------------ MODULE Registry ------------------------------
(***************************************************************************)
(* What the registries of acidblood promise: events.c for events,          *)
(* numeric.c for numerics, list.c for the three kinds of commands.         *)
(*                                                                         *)
(* Each is a sequence of handlers, called in the order in which they were  *)
(* registered.  A handler is taken out alone, the others stay in order,    *)
(* and those of the bot itself are never taken out.                        *)
(***************************************************************************)
EXTENDS Naturals, Sequences, SequencesExt

CONSTANTS
    Kind,       \* the registries
    Handler,    \* what can be registered: a key, and the module it is for
    Core,       \* the handlers of the bot itself
    Initially   \* the handlers the bot registers when it starts

VARIABLE table

Init == table = Initially

Register(k) ==
    LET h == Last(table'[k]) IN
    /\ h \in Handler \ Core
    /\ table' = [table EXCEPT ![k] = Append(@, h)]

Unregister(k, i) ==
    /\ table[k][i] \notin Core
    /\ table' = [table EXCEPT ![k] = RemoveAt(@, i)]

Next ==
    \E k \in Kind :
        \/ Len(table'[k]) = Len(table[k]) + 1 /\ Register(k)
        \/ \E i \in DOMAIN table[k] : Unregister(k, i)

vars == <<table>>

Spec == Init /\ [][Next]_vars

=============================================================================
