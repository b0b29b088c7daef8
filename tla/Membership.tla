---------------------------- MODULE Membership -----------------------------
(***************************************************************************)
(* What tracking.c promises to those who ask it: whom the bot knows, which *)
(* channels it keeps, and how often each user is listed on each of them.   *)
(*                                                                         *)
(* An event of the network is one step here, however many turns of a loop  *)
(* it takes in the code: it concerns one user or one channel and leaves    *)
(* all others alone.                                                       *)
(***************************************************************************)
EXTENDS Naturals

CONSTANTS Nick, Channel

VARIABLES
    known,  \* nicks of the users the bot has a record of
    open,   \* the channels it keeps
    who     \* how often each nick is listed on each channel

Init ==
    /\ known = {}
    /\ open = {}
    /\ who = [c \in Channel |-> [n \in Nick |-> 0]]

\* Somebody is heard of who is not known.
Meet(n) ==
    /\ n \notin known
    /\ known' = known \cup {n}
    /\ UNCHANGED <<open, who>>

\* Only who is on no channel is forgotten.
Forget(n) ==
    /\ n \in known
    /\ known' = known \ {n}
    /\ \A c \in Channel : who[c][n] = 0
    /\ UNCHANGED <<open, who>>

\* Somebody has come to a channel; he may be listed on it already.
Come(n, c) ==
    /\ known' = known \cup {n}
    /\ open' = open \cup {c}
    /\ who' = [who EXCEPT ![c][n] = @ + 1]

Leave(n, c) ==
    /\ UNCHANGED <<known, open>>
    /\ who[c][n] > 0
    /\ who' = [who EXCEPT ![c][n] = @ - 1]

\* He is gone from every channel at once, and his record with him.
Quit(n) ==
    /\ n \in known
    /\ known' = known \ {n}
    /\ UNCHANGED open
    /\ who' = [c \in Channel |-> [who[c] EXCEPT ![n] = 0]]

\* He takes his place on every channel with him, and takes nobody else's.
Rename(n, new) ==
    /\ n \in known
    /\ new \notin known
    /\ known' = (known \ {n}) \cup {new}
    /\ UNCHANGED open
    /\ who' = [c \in Channel |-> [who[c] EXCEPT ![new] = who[c][n], ![n] = 0]]

\* The bot leaves a channel.
Close(c) ==
    /\ c \in open
    /\ open' = open \ {c}
    /\ UNCHANGED known
    /\ who' = [who EXCEPT ![c] = [n \in Nick |-> 0]]

vars == <<known, open, who>>

\* A message that changes nothing is no event.
Next ==
    /\ vars' # vars
    /\ \/ \E n \in Nick : Meet(n) \/ Forget(n) \/ Quit(n)
       \/ \E n \in Nick, c \in Channel : Come(n, c) \/ Leave(n, c)
       \/ \E n, new \in Nick : Rename(n, new)
       \/ \E c \in Channel : Close(c)

Spec == Init /\ [][Next]_vars

=============================================================================
