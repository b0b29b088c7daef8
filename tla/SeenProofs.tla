----------------------------- MODULE SeenProofs -----------------------------
(***************************************************************************)
(* Proofs about Seen, for any nicks, spellings and channels: nobody        *)
(* present is overlooked, "is here" is true, and so is "was last seen in", *)
(* as far as the events reach the module.                                  *)
(*                                                                         *)
(* What a loop has still to do is part of the invariant: of a user who     *)
(* leaves or is renamed there may be entries left, and they are what the   *)
(* file will name.                                                         *)
(***************************************************************************)
EXTENDS Seen, Lemmas

\* An entry of the nick l, in whatever spelling, on c.
Listed(l, c) ==
    \E i \in DOMAIN chusers : Fold[chusers[i].nick] = l /\ chusers[i].channel = c

\* Somebody of that nick is on c.
Somebody(l, c) == \E m \in on[c] : Fold[m] = l

\* The loop that runs takes the entry of l on d away.
Going(l, d) ==
    \/ frame.at = "leave" /\ l = Fold[frame.nick] /\ frame.channel \in {Nothing, d}
    \/ frame.at = "rename" /\ l = Fold[frame.nick]

Frames ==
    {Idle} \cup [at : {"leave"}, nick : Nick, channel : Channel \cup {Nothing}]
           \cup [at : {"rename"}, nick : Nick, new : Nick]
           \cup [at : {"names"}, names : SUBSET Nick, channel : Channel]

\* A nick has one bearer, the bot's is its own, and the module has only been
\* told the names of channels the bot is on.
NetOK ==
    /\ on \in [Channel -> SUBSET Nick]
    /\ heard \subseteq {c \in Channel : BotOn(c)}
    /\ gone \in [Lower -> SUBSET Channel]
    /\ blind \in BOOLEAN
    /\ \A c, d \in Channel : \A m \in on[c], n \in on[d] : strcaseeq(m, n) => m = n
    /\ \A c \in Channel : on[c] \subseteq Free \cup {Bot}
    /\ ~loaded => heard = {} /\ \A l \in Lower : gone[l] = {}

\* Whose entries are taken away has gone.
FrameOK ==
    /\ frame \in Frames
    /\ frame.at = "rename" => ~strcaseeq(frame.nick, frame.new)
    /\ frame.at = "names" => BotOn(frame.channel) /\ frame.names \subseteq on[frame.channel]
    /\ \A d \in Channel : \A m \in on[d] : ~Going(Fold[m], d)

\* Who is on a channel whose names were told has an entry, is about to be named,
\* or has one by the nick he is about to lose in the list.
Hearing ==
    loaded => \A c \in heard : \A m \in on[c] :
        \/ Listed(Fold[m], c)
        \/ frame.at = "names" /\ c = frame.channel /\ m \in frame.names
        \/ frame.at = "rename" /\ strcaseeq(m, frame.new) /\ Listed(Fold[frame.nick], c)

Once ==
    \A i, j \in DOMAIN chusers :
        chusers[i].channel = chusers[j].channel /\ strcaseeq(chusers[i].nick, chusers[j].nick)
            => i = j

\* An entry is for somebody who is there, or on its way out.
Exact ==
    loaded /\ ~blind =>
        /\ Once
        /\ \A l \in Lower, d \in Channel : Listed(l, d) =>
              /\ BotOn(d)
              /\ \/ Somebody(l, d)
                 \/ /\ Going(l, d)
                    /\ frame.at = "rename" =>
                          Somebody(Fold[frame.new], d) /\ ~Listed(Fold[frame.new], d)

\* The file names a channel he went from, or an entry is left that does.
Filed ==
    loaded /\ ~blind => \A l \in Lower : gone[l] # {} =>
        /\ file[l] \in gone[l] \/ \E d \in Channel : Going(l, d) /\ Listed(l, d)
        /\ \A d \in Channel : Going(l, d) /\ Listed(l, d) => d \in gone[l]

IInv == TypeOK /\ NetOK /\ FrameOK /\ Hearing /\ Exact /\ Filed

-----------------------------------------------------------------------------
(* The list *)

\* seen_find_inchannel finds an entry when there is one, and the first.
LEMMA FoundShape ==
    ASSUME TypeOK, NEW n \in Nick, NEW c \in Channel \cup {Nothing}
    PROVE  /\ Found(n, c) # {} <=> \E d \in Channel : Listed(Fold[n], d) /\ c \in {Nothing, d}
           /\ Found(n, c) # {} =>
                 /\ FirstFound(n, c) \in DOMAIN chusers
                 /\ Fold[chusers[FirstFound(n, c)].nick] = Fold[n]
                 /\ c \in {Nothing, chusers[FirstFound(n, c)].channel}
<1>1. /\ DOMAIN chusers \subseteq Nat
      /\ \A i \in DOMAIN chusers : chusers[i] \in Entry
  BY LenProperties, ElementOfSeq DEF TypeOK
<1>2. \A i \in DOMAIN chusers : chusers[i].channel \in Channel /\ chusers[i].nick \in Nick
  BY <1>1 DEF Entry
<1>3. Found(n, c) = {i \in DOMAIN chusers : Fold[chusers[i].nick] = Fold[n]
                                             /\ c \in {Nothing, chusers[i].channel}}
  BY DEF Found, Fits, strcaseeq
<1>4. ASSUME Found(n, c) # {}
      PROVE  FirstFound(n, c) \in Found(n, c)
  <2>1. Found(n, c) \subseteq Nat
    BY <1>1, <1>3
  <2> QED
    BY <1>4, <2>1, LeastNumber DEF FirstFound
<1> QED
  BY <1>2, <1>3, <1>4 DEF Listed

\* seen_user_arrive adds what is not there.
LEMMA ArriveShape ==
    ASSUME TypeOK, NEW n \in Nick, NEW c \in Channel, seen_user_arrive(n, c)
    PROVE  /\ chusers' \in Seq(Entry)
           /\ \A l, d : Listed(l, d)' <=> Listed(l, d) \/ (l = Fold[n] /\ d = c)
           /\ Once => Once'
<1>1. Found(n, c) # {} <=> Listed(Fold[n], c)
  BY FoundShape, SeenAssumption
<1>2. CASE Found(n, c) # {}
  BY <1>1, <1>2 DEF seen_user_arrive, Listed, Once, TypeOK
<1>3. CASE Found(n, c) = {}
  <2> DEFINE e == [nick |-> n, channel |-> c]
             k == Len(chusers)
  <2>1. e \in Entry /\ e.nick = n /\ e.channel = c
    BY DEF Entry
  <2>2. chusers' = Append(chusers, e)
    BY <1>3 DEF seen_user_arrive
  <2> HIDE DEF e
  <2>3. /\ chusers' \in Seq(Entry) /\ k \in Nat
        /\ DOMAIN chusers = 1 .. k /\ DOMAIN chusers' = 1 .. k + 1
        /\ \A i \in 1 .. k : chusers'[i] = chusers[i]
        /\ chusers'[k + 1] = e
    BY <2>1, <2>2, AppendProperties, LenProperties DEF TypeOK
  <2>4. ASSUME NEW l, NEW d
        PROVE  Listed(l, d)' <=> Listed(l, d) \/ (l = Fold[n] /\ d = c)
    <3>1. \A i \in DOMAIN chusers' : i \in DOMAIN chusers \/ i = k + 1
      BY <2>3
    <3>2. \A i \in DOMAIN chusers : i \in DOMAIN chusers' /\ chusers'[i] = chusers[i]
      BY <2>3
    <3>3. k + 1 \in DOMAIN chusers'
      BY <2>3
    <3> QED
      BY <2>1, <2>3, <3>1, <3>2, <3>3 DEF Listed
  <2>5. ~Listed(Fold[n], c)
    BY <1>1, <1>3
  <2>6. ASSUME Once
        PROVE  Once'
    <3> SUFFICES ASSUME NEW i \in DOMAIN chusers', NEW j \in DOMAIN chusers',
                        chusers'[i].channel = chusers'[j].channel,
                        Fold[chusers'[i].nick] = Fold[chusers'[j].nick]
                 PROVE  i = j
      BY DEF Once, strcaseeq
    <3>1. CASE i \in 1 .. k /\ j \in 1 .. k
      BY <2>3, <2>6, <3>1 DEF Once, strcaseeq
    <3>2. CASE i = k + 1 \/ j = k + 1
      BY <2>1, <2>3, <2>5, <3>2 DEF Listed
    <3> QED
      BY <2>3, <3>1, <3>2
  <2> QED
    BY <2>3, <2>4, <2>6
<1> QED
  BY <1>2, <1>3

\* An entry is unlinked.
LEMMA RemoveShape ==
    ASSUME TypeOK, NEW i \in DOMAIN chusers, chusers' = RemoveAt(chusers, i)
    PROVE  /\ chusers' \in Seq(Entry)
           /\ \A l, d : Listed(l, d)' => Listed(l, d)
           /\ \A l, d : Listed(l, d) =>
                 Listed(l, d)' \/ (l = Fold[chusers[i].nick] /\ d = chusers[i].channel)
           /\ Once => Once'
<1> DEFINE k == Len(chusers)
           to(j) == IF j < i THEN j ELSE j + 1
<1>1. /\ chusers' \in Seq(Entry) /\ k \in Nat /\ i \in 1 .. k
      /\ DOMAIN chusers = 1 .. k /\ DOMAIN chusers' = 1 .. k - 1
      /\ \A j \in 1 .. k - 1 : chusers'[j] = IF j < i THEN chusers[j] ELSE chusers[j + 1]
  BY RemoveAtShape, LenProperties DEF TypeOK
<1>2. \A j \in DOMAIN chusers' : to(j) \in DOMAIN chusers /\ chusers'[j] = chusers[to(j)]
  BY <1>1
<1>3. \A j \in DOMAIN chusers : j = i \/ \E h \in DOMAIN chusers' : to(h) = j
  <2> SUFFICES ASSUME NEW j \in 1 .. k, j # i
               PROVE  \E h \in 1 .. k - 1 : to(h) = j
    BY <1>1
  <2>1. CASE j < i
    BY <1>1, <2>1
  <2>2. CASE j > i
    <3>1. j - 1 \in 1 .. k - 1 /\ to(j - 1) = j
      BY <1>1, <2>2
    <3> QED
      BY <3>1
  <2> QED
    BY <1>1, <2>1, <2>2
<1>4. \A h, j \in DOMAIN chusers' : to(h) = to(j) => h = j
  BY <1>1
<1> HIDE DEF to, k
<1>5. ASSUME NEW l, NEW d, Listed(l, d)'
      PROVE  Listed(l, d)
  BY <1>2, <1>5 DEF Listed
<1>6. ASSUME NEW l, NEW d, Listed(l, d)
      PROVE  Listed(l, d)' \/ (l = Fold[chusers[i].nick] /\ d = chusers[i].channel)
  BY <1>2, <1>3, <1>6 DEF Listed
<1>7. ASSUME Once
      PROVE  Once'
  BY <1>2, <1>4, <1>7 DEF Once, strcaseeq
<1> QED
  BY <1>1, <1>5, <1>6, <1>7

\* An entry becomes another nick's.
LEMMA RenamedShape ==
    ASSUME TypeOK, NEW i \in DOMAIN chusers, NEW new \in Nick,
           chusers' = [chusers EXCEPT ![i].nick = new]
    PROVE  /\ chusers' \in Seq(Entry)
           /\ \A l, d : Listed(l, d)' =>
                 Listed(l, d) \/ (l = Fold[new] /\ d = chusers[i].channel)
           /\ \A l, d : Listed(l, d) =>
                 Listed(l, d)' \/ (l = Fold[chusers[i].nick] /\ d = chusers[i].channel)
           /\ \A l, d : l = Fold[new] /\ d = chusers[i].channel => Listed(l, d)'
           /\ Once /\ ~Listed(Fold[new], chusers[i].channel) => Once'
           /\ Once /\ Fold[chusers[i].nick] # Fold[new] =>
                 \A l, d : l = Fold[chusers[i].nick] /\ d = chusers[i].channel => ~Listed(l, d)'
<1> DEFINE e == [chusers[i] EXCEPT !.nick = new]
<1>1. chusers \in Seq(Entry) /\ chusers[i] \in Entry
  BY DEF TypeOK
<1>2. e \in Entry /\ e.nick = new /\ e.channel = chusers[i].channel
  BY <1>1 DEF Entry
<1>3. chusers' = [chusers EXCEPT ![i] = e]
  OBVIOUS
<1> HIDE DEF e
<1>4. /\ chusers' \in Seq(Entry) /\ DOMAIN chusers' = DOMAIN chusers
      /\ \A j \in DOMAIN chusers : chusers'[j] = IF j = i THEN e ELSE chusers[j]
  BY <1>1, <1>2, <1>3, ExceptSeq, LenProperties
<1>5. ASSUME NEW l, NEW d, Listed(l, d)'
      PROVE  Listed(l, d) \/ (l = Fold[new] /\ d = chusers[i].channel)
  BY <1>2, <1>4, <1>5 DEF Listed
<1>6. ASSUME NEW l, NEW d, Listed(l, d)
      PROVE  Listed(l, d)' \/ (l = Fold[chusers[i].nick] /\ d = chusers[i].channel)
  BY <1>2, <1>4, <1>6 DEF Listed
<1>7. ASSUME NEW l, l = Fold[new], NEW d, d = chusers[i].channel
      PROVE  Listed(l, d)'
  BY <1>7, <1>2, <1>4 DEF Listed
<1>8. ASSUME Once, ~Listed(Fold[new], chusers[i].channel)
      PROVE  Once'
  BY <1>2, <1>4, <1>8 DEF Once, strcaseeq, Listed
<1>9. ASSUME Once, Fold[chusers[i].nick] # Fold[new],
             NEW l, l = Fold[chusers[i].nick], NEW d, d = chusers[i].channel
      PROVE  ~Listed(l, d)'
  BY <1>2, <1>4, <1>9 DEF Once, strcaseeq, Listed
<1> QED
  BY <1>4, <1>5, <1>6, <1>7, <1>8, <1>9

\* A step that leaves the list alone.
LEMMA KeptShape ==
    ASSUME UNCHANGED chusers
    PROVE  /\ \A l, d : Listed(l, d)' <=> Listed(l, d)
           /\ Once' <=> Once
BY DEF Listed, Once

-----------------------------------------------------------------------------
(* Between two events *)

\* No loop takes anything away.
LEMMA NoneGoing ==
    ASSUME frame.at \notin {"leave", "rename"}
    PROVE  \A l, d : ~Going(l, d)
BY DEF Going

\* What the invariant says when no loop runs.
Calm ==
    /\ TypeOK
    /\ NetOK
    /\ loaded => \A c \in heard : \A m \in on[c] : Listed(Fold[m], c)
    /\ loaded /\ ~blind =>
          /\ Once
          /\ \A l \in Lower, d \in Channel : Listed(l, d) => BotOn(d) /\ Somebody(l, d)
          /\ \A l \in Lower : gone[l] # {} => file[l] \in gone[l]

\* Between two events no entry is on its way out.
LEMMA CalmWhenIdle ==
    ASSUME frame = Idle
    PROVE  IInv <=> Calm
<1>1. frame.at = "idle" /\ frame \in Frames
  BY DEF Idle, Frames
<1>2. \A l, d : ~Going(l, d)
  BY <1>1, NoneGoing
<1> QED
  BY <1>1, <1>2 DEF IInv, Calm, FrameOK, Hearing, Exact, Filed

\* Nobody is there and the module is not loaded at first.
LEMMA InitIInv == Init => IInv
<1> SUFFICES ASSUME Init
             PROVE  IInv
  OBVIOUS
<1>1. << >> \in Seq(Entry) /\ DOMAIN chusers = {}
  BY EmptySeq DEF Init
<1>2. Calm
  BY <1>1, SeenAssumption DEF Init, Calm, TypeOK, NetOK, Idle, Listed, Once, BotOn
<1> QED
  BY <1>2, CalmWhenIdle DEF Init

\* An event is heard when the loop of the last one has ended.
LEMMA CalmBefore ==
    ASSUME IInv, Happens
    PROVE  Calm /\ frame = Idle
BY CalmWhenIdle DEF Happens

\* Nobody else bears the bot's nick.
LEMMA FreeNames == \A n \in Free : n \in Nick /\ n # Bot /\ ~strcaseeq(n, Bot) /\ ~strcaseeq(Bot, n)
BY DEF Free, strcaseeq

\* JOIN of somebody else, of whom an entry is made where the bot is.
LEMMA JoinOK ==
    ASSUME IInv, NEW n \in Nick, NEW c \in Channel, Join(n, c)
    PROVE  IInv'
<1>1. Calm /\ frame = Idle /\ frame' = Idle /\ n \in Free /\ n # Bot
  BY CalmBefore, FreeNames DEF Join
<1>2. /\ on' \in [Channel -> SUBSET Nick]
      /\ \A d \in Channel : \A m : m \in on'[d] <=> m \in on[d] \/ (m = n /\ d = c)
  BY <1>1 DEF Join, Calm, NetOK
<1>3. UNCHANGED <<loaded, file, heard, blind, gone>>
  BY DEF Join
<1>4. \A d \in Channel : BotOn(d)' <=> BotOn(d)
  BY <1>1, <1>2 DEF BotOn
<1>5. \A d, e \in Channel : \A m \in on'[d], k \in on'[e] : strcaseeq(m, k) => m = k
  BY <1>1, <1>2 DEF Join, Calm, NetOK, strcaseeq
<1>6. NetOK'
  BY <1>1, <1>2, <1>3, <1>4, <1>5 DEF Calm, NetOK
<1>7. /\ chusers' \in Seq(Entry)
      /\ \A l, d : Listed(l, d)' => Listed(l, d) \/ (l = Fold[n] /\ d = c /\ BotOn(c) /\ loaded)
      /\ \A l, d : Listed(l, d) => Listed(l, d)'
      /\ BotOn(c) /\ loaded => Listed(Fold[n], c)'
      /\ Once => Once'
      /\ ~loaded => chusers' = chusers
  <2>1. CASE BotOn(c) /\ loaded
    BY <1>1, <2>1, ArriveShape DEF Join, seen_join, Calm
  <2>2. CASE ~(BotOn(c) /\ loaded)
    <3>1. chusers' = chusers
      BY <2>2 DEF Join, seen_join
    <3> QED
      BY <1>1, <2>2, <3>1, KeptShape DEF Calm, TypeOK
  <2> QED
    BY <2>1, <2>2
<1>8. TypeOK'
  BY <1>1, <1>3, <1>7 DEF Calm, TypeOK
<1>9. \A l, d : Somebody(l, d) /\ d \in Channel => Somebody(l, d)'
  BY <1>2 DEF Somebody
<1>10. Somebody(Fold[n], c)'
  BY <1>2 DEF Somebody
<1>11. ASSUME loaded
       PROVE  \A d \in heard' : \A m \in on'[d] : Listed(Fold[m], d)'
  BY <1>1, <1>2, <1>3, <1>7, <1>11 DEF Calm, NetOK
<1>12. Calm'
  BY <1>1, <1>3, <1>4, <1>6, <1>7, <1>8, <1>9, <1>10, <1>11 DEF Calm
<1>13. (frame = Idle)' => (IInv' <=> Calm')
  BY CalmWhenIdle, PTL
<1> QED
  BY <1>1, <1>12, <1>13

\* 353 begins.
LEMMA BotJoinOK ==
    ASSUME IInv, NEW c \in Channel, BotJoin(c)
    PROVE  IInv'
<1>1. Calm
  BY CalmBefore DEF BotJoin
<1>2. /\ on' \in [Channel -> SUBSET Nick]
      /\ \A d \in Channel : \A m : m \in on'[d] <=> m \in on[d] \/ (m = Bot /\ d = c)
  BY <1>1, SeenAssumption DEF BotJoin, Calm, NetOK
<1>3. UNCHANGED <<loaded, chusers, file, blind, gone>>
  BY DEF BotJoin
<1>4. \A d \in Channel : BotOn(d)' <=> BotOn(d) \/ d = c
  BY <1>2 DEF BotOn
<1>5. /\ frame' \in Frames /\ frame'.at = "names" /\ frame'.names = on'[c]
      /\ frame'.channel = c
  BY <1>2 DEF BotJoin, Frames
<1>6. \A l, d : ~Going(l, d)'
  BY <1>5 DEF Going
<1>7. \A d, e \in Channel : \A m \in on'[d], k \in on'[e] : strcaseeq(m, k) => m = k
  BY <1>1, <1>2, FreeNames DEF Calm, NetOK, strcaseeq
<1>8. heard' = IF loaded THEN heard \cup {c} ELSE heard
  BY DEF BotJoin
<1>9. NetOK'
  BY <1>1, <1>2, <1>3, <1>4, <1>7, <1>8 DEF Calm, NetOK
<1>10. TypeOK'
  BY <1>1, <1>3, <1>5, CalmWhenIdle DEF Calm, TypeOK, BotJoin, Happens, Idle
<1>11. \A l, d : (Listed(l, d)' <=> Listed(l, d)) /\ (Once' <=> Once)
  BY <1>3, KeptShape
<1>12. FrameOK'
  BY <1>4, <1>5, <1>6 DEF FrameOK
<1>13. Hearing'
  <2> SUFFICES ASSUME loaded, NEW d \in heard', NEW m \in on'[d], ~Listed(Fold[m], d)'
               PROVE  frame'.at = "names" /\ d = frame'.channel /\ m \in frame'.names
    BY <1>3 DEF Hearing
  <2>1. ~Listed(Fold[m], d)
    BY <1>11
  <2>2. d = c
    BY <1>1, <1>2, <1>8, <2>1 DEF Calm, NetOK
  <2> QED
    BY <1>5, <2>2
<1>14. \A l, d : Somebody(l, d) /\ d \in Channel => Somebody(l, d)'
  BY <1>2 DEF Somebody
<1>15. Exact'
  BY <1>1, <1>3, <1>4, <1>11, <1>14 DEF Exact, Calm
<1>16. Filed'
  BY <1>1, <1>3, <1>6 DEF Filed, Calm
<1> QED
  BY <1>9, <1>10, <1>12, <1>13, <1>15, <1>16 DEF IInv

\* The next name of a 353.
LEMMA HereOK ==
    ASSUME IInv, NEW n \in Nick, HereStep(n)
    PROVE  IInv'
<1>1. /\ frame \in Frames /\ frame.at = "names" /\ n \in frame.names
      /\ BotOn(frame.channel) /\ frame.names \subseteq on[frame.channel]
      /\ frame.channel \in Channel
  BY DEF IInv, FrameOK, HereStep, Frames, Idle
<1>0. PICK c \in Channel : c = frame.channel
  BY <1>1
<1>2. UNCHANGED <<loaded, file, on, heard, blind, gone>>
  BY DEF HereStep, world
<1>3. /\ chusers' \in Seq(Entry)
      /\ \A l, d : Listed(l, d)' => Listed(l, d) \/ (l = Fold[n] /\ d = c)
      /\ \A l, d : Listed(l, d) => Listed(l, d)'
      /\ loaded => Listed(Fold[n], c)'
      /\ Once => Once'
      /\ ~loaded => chusers' = chusers
  <2>1. CASE loaded
    BY <1>0, <1>1, <2>1, ArriveShape DEF HereStep, seen_join, IInv
  <2>2. CASE ~loaded
    <3>1. chusers' = chusers
      BY <2>2 DEF HereStep, seen_join
    <3> QED
      BY <2>2, <3>1, KeptShape DEF IInv, TypeOK
  <2> QED
    BY <2>1, <2>2
<1>4. /\ frame' \in Frames
      /\ \/ frame'.at = "idle" /\ frame.names = {n}
         \/ /\ frame'.at = "names" /\ frame'.channel = c /\ frame'.names = frame.names \ {n}
  BY <1>0, <1>1 DEF HereStep, Frames, Idle
<1>5. \A l, d : ~Going(l, d) /\ ~Going(l, d)'
  BY <1>1, <1>4 DEF Going
<1>6. NetOK'
  BY <1>2 DEF IInv, NetOK, BotOn
<1>7. TypeOK'
  BY <1>1, <1>2, <1>3, <1>4 DEF IInv, TypeOK
<1>8. FrameOK'
  BY <1>0, <1>1, <1>2, <1>4, <1>5 DEF FrameOK, BotOn
<1>9. Hearing'
  <2> SUFFICES ASSUME loaded, NEW d \in heard, NEW m \in on[d],
                      ~Listed(Fold[m], d)'
               PROVE  frame'.at = "names" /\ d = frame'.channel /\ m \in frame'.names
    BY <1>2 DEF Hearing
  <2>1. Listed(Fold[m], d) \/ (d = c /\ m \in frame.names)
    BY <1>0, <1>1, <1>3 DEF IInv, Hearing
  <2>2. d = c /\ m \in frame.names /\ m # n
    BY <1>3, <2>1
  <2> QED
    BY <1>4, <2>2
<1>10. Somebody(Fold[n], c) /\ \A l, d : Somebody(l, d)' <=> Somebody(l, d)
  BY <1>0, <1>1, <1>2 DEF Somebody
<1>11. \A d : BotOn(d)' <=> BotOn(d)
  BY <1>2 DEF BotOn
<1>12. Exact'
  BY <1>0, <1>1, <1>2, <1>3, <1>5, <1>10, <1>11 DEF Exact, IInv
<1>13. Filed'
  BY <1>2, <1>5 DEF Filed, IInv
<1> QED
  BY <1>6, <1>7, <1>8, <1>9, <1>12, <1>13 DEF IInv

-----------------------------------------------------------------------------
(* Somebody goes *)

\* Who has a nick is one person, wherever he is.
LEMMA OneBearer ==
    ASSUME NetOK, NEW c \in Channel, NEW n \in on[c],
           NEW d \in Channel, NEW m \in on[d], Fold[m] = Fold[n]
    PROVE  m = n
BY DEF NetOK, strcaseeq

\* What happens where the bot is not is no matter to the module.
LEMMA Unseen ==
    ASSUME Calm, frame = Idle, NetOK',
           \A d \in Channel : (BotOn(d)' <=> BotOn(d)) /\ (BotOn(d) => on'[d] = on[d]),
           UNCHANGED <<loaded, chusers, file, frame, heard, blind, gone>>
    PROVE  IInv'
<1>1. TypeOK'
  BY DEF Calm, TypeOK
<1>2. \A l, d : Listed(l, d)' <=> Listed(l, d)
  BY KeptShape
<1>3. \A l \in Lower, d \in Channel : BotOn(d) /\ Somebody(l, d) => BotOn(d)' /\ Somebody(l, d)'
  BY DEF Somebody
<1>4. Once' <=> Once
  BY KeptShape
<1>5. loaded => \A d \in heard : \A m \in on'[d] : Listed(Fold[m], d)'
  <2>1. \A d \in heard : on'[d] = on[d]
    BY DEF Calm, NetOK
  <2> QED
    BY <1>2, <2>1 DEF Calm
<1>6. Calm'
  BY <1>1, <1>2, <1>3, <1>4, <1>5 DEF Calm
<1>7. (frame = Idle)' => (IInv' <=> Calm')
  BY CalmWhenIdle, PTL
<1> QED
  BY <1>6, <1>7

\* The channels ch means, where n is and the bot sees it.
Sees(n, ch) == {d \in Channel : ch \in {Nothing, d} /\ n \in on[d] /\ BotOn(d)}

\* PART or QUIT: the bot sees n go, from ch or from everywhere.
LEMMA LeaveBegins ==
    ASSUME Calm, NEW n \in Nick, NEW ch \in Channel \cup {Nothing},
           on' = [d \in Channel |-> IF ch \in {Nothing, d} THEN on[d] \ {n} ELSE on[d]],
           Sees(n, ch) # {}, SeenGo(n, Sees(n, ch)), seen_leave(n, ch),
           UNCHANGED <<loaded, chusers, file>>,
           \/ n # Bot /\ UNCHANGED <<heard, blind>>
           \/ n = Bot /\ ch \in Channel /\ heard' = heard \ {ch} /\ blind' = TRUE
    PROVE  IInv'
<1>1. PICK c \in Channel : ch \in {Nothing, c} /\ n \in on[c] /\ BotOn(c)
  BY DEF Sees
<1>2. Fold[n] \in Lower /\ Nothing \notin Channel
  BY SeenAssumption
<1>3. gone' = [gone EXCEPT ![Fold[n]] = IF Sees(n, ch) \subseteq heard THEN Sees(n, ch) ELSE {}]
  BY DEF SeenGo
<1>4. Sees(n, ch) \subseteq Channel /\ gone' \in [Lower -> SUBSET Channel]
  BY <1>2, <1>3 DEF Sees, Calm, NetOK
<1>5. \A d \in Channel : /\ on'[d] \subseteq on[d]
                         /\ ch \in {Nothing, d} => n \notin on'[d]
                         /\ ~(ch \in {Nothing, d}) => on'[d] = on[d]
                         /\ \A m \in on[d] : m # n => m \in on'[d]
  OBVIOUS
<1>6. \A d \in Channel : BotOn(d)' <=> BotOn(d) /\ ~(n = Bot /\ ch \in {Nothing, d})
  BY <1>5 DEF BotOn
<1>7. heard' \subseteq heard /\ \A d \in heard' : ~(n = Bot /\ ch \in {Nothing, d})
  BY <1>2
<1>8. ~loaded => ~(Sees(n, ch) \subseteq heard) /\ heard' = {}
  BY <1>7 DEF Calm, NetOK
<1>9. NetOK'
  <2>1. heard' \subseteq {d \in Channel : BotOn(d)'}
    BY <1>6, <1>7 DEF Calm, NetOK
  <2>2. ~loaded' => heard' = {} /\ \A l \in Lower : gone'[l] = {}
    BY <1>2, <1>3, <1>8 DEF Calm, NetOK
  <2>3. on' \in [Channel -> SUBSET Nick]
    BY DEF Calm, NetOK
  <2>4. \A d, e \in Channel : \A m \in on'[d], k \in on'[e] : strcaseeq(m, k) => m = k
    BY <1>5 DEF Calm, NetOK
  <2>5. \A d \in Channel : on'[d] \subseteq Free \cup {Bot}
    BY <1>5 DEF Calm, NetOK
  <2>6. blind' \in BOOLEAN
    BY DEF Calm, NetOK
  <2> QED
    BY <1>4, <2>1, <2>2, <2>3, <2>4, <2>5, <2>6 DEF NetOK
<1>10. \A l, d : (Listed(l, d)' <=> Listed(l, d)) /\ (Once' <=> Once)
  BY KeptShape
<1>11. \A d \in Channel : \A m \in on'[d] : ch \in {Nothing, d} => Fold[m] # Fold[n]
  BY <1>1, <1>5, OneBearer DEF Calm
<1>12. \A d \in heard' : d \in heard /\ d \in Channel /\ \A m \in on'[d] : m \in on[d]
  BY <1>5, <1>7 DEF Calm, NetOK
<1>13. ASSUME loaded
       PROVE  IInv'
  <2>1. /\ frame' \in Frames /\ frame'.at = "leave" /\ frame'.nick = n /\ frame'.channel = ch
    BY <1>13 DEF Frames, seen_leave
  <2>2. \A l, d : Going(l, d)' <=> l = Fold[n] /\ ch \in {Nothing, d}
    BY <2>1 DEF Going
  <2>3. TypeOK'
    BY <1>13, <2>1 DEF Calm, TypeOK
  <2>4. FrameOK'
    BY <1>11, <2>1, <2>2 DEF FrameOK
  <2>5. Hearing'
    BY <1>10, <1>12, <1>13 DEF Hearing, Calm
  <2>6. ASSUME ~blind', NEW l \in Lower, NEW d \in Channel, Listed(l, d)
        PROVE  /\ BotOn(d)'
               /\ Somebody(l, d)' \/ Going(l, d)'
               /\ Going(l, d)' => d \in Sees(n, ch)
    <3>1. ~blind /\ n # Bot
      BY <2>6
    <3>2. BotOn(d) /\ Somebody(l, d)
      BY <1>13, <2>6, <3>1 DEF Calm
    <3>3. PICK m \in on[d] : Fold[m] = l
      BY <3>2 DEF Somebody
    <3>4. CASE m = n /\ ch \in {Nothing, d}
      BY <1>6, <2>2, <3>1, <3>2, <3>3, <3>4 DEF Sees
    <3>5. CASE ~(m = n /\ ch \in {Nothing, d})
      <4>1. m \in on'[d]
        BY <1>5, <3>3, <3>5
      <4>2. ~Going(l, d)'
        BY <1>1, <2>2, <3>3, <3>5, OneBearer DEF Calm
      <4> QED
        BY <1>6, <3>1, <3>2, <3>3, <4>1, <4>2 DEF Somebody
    <3> QED
      BY <3>4, <3>5
  <2>7. ~blind' => Once'
    BY <1>10, <1>13 DEF Calm
  <2>8. Exact'
    BY <1>10, <2>1, <2>6, <2>7 DEF Exact
  <2>9. ASSUME ~blind', NEW l \in Lower, gone'[l] # {}
        PROVE  /\ file[l] \in gone'[l] \/ \E d \in Channel : Going(l, d)' /\ Listed(l, d)'
               /\ \A d \in Channel : Going(l, d)' /\ Listed(l, d)' => d \in gone'[l]
    <3>1. CASE l = Fold[n]
      <4>1. gone'[l] = Sees(n, ch) /\ Sees(n, ch) \subseteq heard
        BY <1>2, <1>3, <2>9, <3>1 DEF Calm, NetOK
      <4>2. c \in heard /\ Listed(l, c)
        BY <1>1, <1>13, <3>1, <4>1 DEF Sees, Calm
      <4> QED
        BY <1>1, <1>10, <2>2, <2>6, <2>9, <3>1, <4>1, <4>2
    <3>2. CASE l # Fold[n]
      BY <1>3, <1>13, <2>2, <2>9, <3>2 DEF Calm, NetOK
    <3> QED
      BY <3>1, <3>2
  <2>10. Filed'
    BY <2>9 DEF Filed
  <2> QED
    BY <1>9, <2>3, <2>4, <2>5, <2>8, <2>10 DEF IInv
<1>14. ASSUME ~loaded
       PROVE  IInv'
  <2>1. frame' = Idle
    BY <1>14 DEF seen_leave
  <2>2. TypeOK'
    BY <1>14, <2>1 DEF Calm, TypeOK, Idle
  <2>3. Calm'
    BY <1>9, <1>14, <2>2 DEF Calm
  <2>4. (frame = Idle)' => (IInv' <=> Calm')
    BY CalmWhenIdle, PTL
  <2> QED
    BY <2>1, <2>3, <2>4
<1> QED
  BY <1>13, <1>14

\* PART: the loop that drops the entry begins, where the bot is to hear of it.
LEMMA PartOK ==
    ASSUME IInv, NEW n \in Nick, NEW c \in Channel, Part(n, c)
    PROVE  IInv'
<1>1. Calm /\ frame = Idle /\ n \in on[c] /\ c \in {Nothing, c} /\ Nothing \notin Channel
  BY CalmBefore, SeenAssumption DEF Part
<1>2. /\ on \in [Channel -> SUBSET Nick]
      /\ on' = [on EXCEPT ![c] = @ \ {n}]
      /\ UNCHANGED <<loaded, chusers, file>>
  BY <1>1 DEF Part, Calm, NetOK
<1>3. CASE BotOn(c)
  <2>1. Sees(n, c) = {c}
    BY <1>1, <1>3 DEF Sees
  <2>2. on' = [d \in Channel |-> IF c \in {Nothing, d} THEN on[d] \ {n} ELSE on[d]]
    BY <1>1, <1>2
  <2>3. \/ n # Bot /\ UNCHANGED <<heard, blind>>
        \/ n = Bot /\ c \in Channel /\ heard' = heard \ {c} /\ blind' = TRUE
    BY <1>1 DEF Part, Calm, NetOK
  <2>4. seen_leave(n, c) /\ SeenGo(n, Sees(n, c))
    BY <1>3, <2>1 DEF Part
  <2> QED
    BY <1>1, <1>2, <2>1, <2>2, <2>3, <2>4, LeaveBegins
<1>4. CASE ~BotOn(c)
  <2>1. n # Bot
    BY <1>1, <1>4 DEF BotOn
  <2>2. UNCHANGED <<loaded, chusers, file, frame, heard, blind, gone>>
    BY <1>1, <1>2, <1>4, <2>1 DEF Part, Calm, NetOK
  <2>3. \A d \in Channel : /\ BotOn(d)' <=> BotOn(d)
                           /\ BotOn(d) => on'[d] = on[d]
                           /\ on'[d] \subseteq on[d]
    BY <1>2, <1>4, <2>1 DEF BotOn
  <2>4. on' \in [Channel -> SUBSET Nick]
    BY <1>2
  <2>5. NetOK'
    BY <1>1, <2>2, <2>3, <2>4 DEF Calm, NetOK
  <2> QED
    BY <1>1, <2>2, <2>3, <2>5, Unseen
<1> QED
  BY <1>3, <1>4

\* QUIT: the loop that drops all entries of the nick begins.
LEMMA QuitOK ==
    ASSUME IInv, NEW n \in Nick, Quit(n)
    PROVE  IInv'
<1>1. Calm /\ frame = Idle /\ n # Bot
  BY CalmBefore, FreeNames DEF Quit
<1>2. /\ on' = [d \in Channel |-> on[d] \ {n}]
      /\ UNCHANGED <<loaded, chusers, file, heard, blind>>
  BY DEF Quit
<1>3. Sees(n, Nothing) = Shared(n)
  BY DEF Sees, Shared
<1>4. CASE Shared(n) # {}
  <2>1. on' = [d \in Channel |-> IF Nothing \in {Nothing, d} THEN on[d] \ {n} ELSE on[d]]
    BY <1>2
  <2>2. seen_leave(n, Nothing) /\ SeenGo(n, Sees(n, Nothing))
    BY <1>3, <1>4 DEF Quit
  <2> QED
    BY <1>1, <1>2, <1>3, <1>4, <2>1, <2>2, LeaveBegins
<1>5. CASE Shared(n) = {}
  <2>1. UNCHANGED <<frame, gone>>
    BY <1>5 DEF Quit
  <2>2. \A d \in Channel : /\ BotOn(d)' <=> BotOn(d)
                           /\ BotOn(d) => on'[d] = on[d]
                           /\ on'[d] \subseteq on[d]
    BY <1>1, <1>2, <1>5 DEF BotOn, Shared
  <2>3. on' \in [Channel -> SUBSET Nick]
    BY <1>1, <1>2 DEF Calm, NetOK
  <2>4. NetOK'
    BY <1>1, <1>2, <2>1, <2>2, <2>3 DEF Calm, NetOK
  <2> QED
    BY <1>1, <1>2, <2>1, <2>2, <2>4, Unseen
<1> QED
  BY <1>4, <1>5

\* KICK, or the connection is lost: nothing is promised until a reload.
LEMMA BlindOK ==
    ASSUME IInv, Lost \/ \E n \in Nick, c \in Channel : Kick(n, c)
    PROVE  IInv'
<1>1. Calm /\ frame = Idle
  BY CalmBefore DEF Lost, Kick
<1>2. /\ UNCHANGED <<loaded, chusers, file, frame, gone>> /\ blind' = TRUE
      /\ on' \in [Channel -> SUBSET Nick] /\ \A d \in Channel : on'[d] \subseteq on[d]
      /\ heard' \subseteq heard
      /\ \A d \in heard' : BotOn(d)'
  <2>1. CASE Lost
    BY <1>1, <2>1 DEF Lost, Calm, NetOK
  <2>2. ASSUME NEW n \in Nick, NEW c \in Channel, Kick(n, c)
        PROVE  /\ UNCHANGED <<loaded, chusers, file, frame, gone, heard>> /\ blind' = TRUE
               /\ on' \in [Channel -> SUBSET Nick] /\ \A d \in Channel : on'[d] \subseteq on[d]
               /\ \A d \in Channel : BotOn(d) => BotOn(d)'
    BY <1>1, <2>2 DEF Kick, Calm, NetOK, BotOn
  <2> QED
    BY <1>1, <2>1, <2>2 DEF Calm, NetOK
<1>3. NetOK' /\ TypeOK'
  BY <1>1, <1>2 DEF Calm, NetOK, TypeOK
<1>4. \A l, d : Listed(l, d)' <=> Listed(l, d)
  BY <1>2, KeptShape
<1>5. \A d \in heard' : d \in heard /\ on'[d] \subseteq on[d]
  BY <1>1, <1>2 DEF Calm, NetOK
<1>6. Calm'
  BY <1>1, <1>2, <1>3, <1>4, <1>5 DEF Calm
<1>7. (frame = Idle)' => (IInv' <=> Calm')
  BY CalmWhenIdle, PTL
<1> QED
  BY <1>1, <1>2, <1>6, <1>7

\* The module comes or goes.
LEMMA ReloadOK ==
    ASSUME IInv, module_init \/ module_shutdown
    PROVE  IInv'
<1>1. Calm /\ frame = Idle /\ frame' = Idle
  BY CalmWhenIdle DEF module_init, module_shutdown, IInv
<1>2. chusers' = << >> /\ heard' = {} /\ \A l \in Lower : gone'[l] = {}
  BY <1>1 DEF module_init, module_shutdown, world, Calm, TypeOK, NetOK
<1>3. << >> \in Seq(Entry) /\ DOMAIN chusers' = {}
  BY <1>2, EmptySeq
<1>4. TypeOK'
  BY <1>1, <1>2, <1>3 DEF module_init, module_shutdown, Calm, TypeOK, Idle
<1>5. /\ on' = on /\ blind' \in BOOLEAN
      /\ gone' \in [Lower -> SUBSET Channel]
  BY <1>1 DEF module_init, module_shutdown, world, Calm, NetOK
<1>6. NetOK'
  BY <1>1, <1>2, <1>5 DEF Calm, NetOK, BotOn
<1>7. Calm'
  BY <1>2, <1>3, <1>4, <1>6 DEF Calm, Listed, Once
<1>8. (frame = Idle)' => (IInv' <=> Calm')
  BY CalmWhenIdle, PTL
<1> QED
  BY <1>1, <1>7, <1>8

\* NICK: where the bot sees it, the entries of the old nick are going, and who
\* bears the new one is there.
LEMMA NewNickOK ==
    ASSUME IInv, NEW n \in Nick, NEW new \in Nick, NewNick(n, new)
    PROVE  IInv'
<1>1. /\ Calm /\ frame = Idle /\ n # Bot /\ new # Bot /\ new # n
      /\ new \in Free
      /\ Unused(new) \/ strcaseeq(n, new)
  BY CalmBefore, FreeNames DEF NewNick
<1>2. /\ on' \in [Channel -> SUBSET Nick]
      /\ \A d \in Channel : n \in on[d] => \A m : m \in on'[d] <=> (m \in on[d] /\ m # n) \/ m = new
      /\ \A d \in Channel : n \notin on[d] => on'[d] = on[d]
      /\ UNCHANGED <<loaded, chusers, file, heard, blind>>
  BY <1>1 DEF NewNick, Calm, NetOK
<1>3. \A d \in Channel : BotOn(d)' <=> BotOn(d)
  BY <1>1, <1>2 DEF BotOn
<1>4. \A d \in Channel : \A m \in on'[d] : m = new \/ (m \in on[d] /\ m # n)
  BY <1>2
<1>5. \A d \in Channel : \A m \in on'[d] : strcaseeq(m, new) => m = new
  <2> SUFFICES ASSUME NEW d \in Channel, NEW m \in on[d], m # n, strcaseeq(m, new)
               PROVE  FALSE
    BY <1>4
  <2>1. ~Unused(new)
    BY DEF Unused, strcaseeq
  <2>2. strcaseeq(n, m) /\ \E c \in Channel : n \in on[c]
    BY <1>1, <2>1 DEF NewNick, strcaseeq
  <2> QED
    BY <1>1, <2>2 DEF Calm, NetOK
<1>6. gone' \in [Lower -> SUBSET Channel] /\ (~loaded => \A l \in Lower : gone'[l] = {})
  <2>1. CASE UNCHANGED gone
    BY <1>1, <2>1 DEF Calm, NetOK
  <2>2. CASE Shared(n) # {} /\ SeenGo(n, Shared(n))
    <3>1. Shared(n) \subseteq Channel /\ Fold[n] \in Lower
      BY SeenAssumption DEF Shared
    <3>2. ~loaded => ~(Shared(n) \subseteq heard)
      BY <1>1, <2>2 DEF Calm, NetOK
    <3> QED
      BY <1>1, <2>2, <3>1, <3>2 DEF SeenGo, Calm, NetOK
  <2> QED
    BY <2>1, <2>2 DEF NewNick
<1>7. NetOK'
  <2>1. \A c, d \in Channel : \A m \in on'[c], k \in on'[d] : strcaseeq(m, k) => m = k
    <3> SUFFICES ASSUME NEW c \in Channel, NEW d \in Channel,
                        NEW m \in on'[c], NEW k \in on'[d], strcaseeq(m, k)
                 PROVE  m = k
      OBVIOUS
    <3>1. CASE m = new \/ k = new
      BY <1>5, <3>1 DEF strcaseeq
    <3>2. CASE m \in on[c] /\ k \in on[d]
      BY <1>1, <3>2 DEF Calm, NetOK
    <3> QED
      BY <1>4, <3>1, <3>2
  <2>2. \A d \in Channel : on'[d] \subseteq Free \cup {Bot}
    <3>1. \A d \in Channel : on[d] \subseteq Free \cup {Bot}
      BY <1>1 DEF Calm, NetOK
    <3> QED
      BY <1>1, <1>4, <3>1
  <2>3. heard' \subseteq {d \in Channel : BotOn(d)'}
    BY <1>1, <1>2, <1>3 DEF Calm, NetOK
  <2>4. blind' \in BOOLEAN /\ (~loaded' => heard' = {})
    BY <1>1, <1>2 DEF Calm, NetOK
  <2> QED
    BY <1>2, <1>6, <2>1, <2>2, <2>3, <2>4 DEF NetOK
<1>8. CASE Shared(n) = {}
  <2>1. UNCHANGED <<frame, gone>>
    BY <1>8 DEF NewNick
  <2>2. \A d \in Channel : BotOn(d) => on'[d] = on[d]
    BY <1>2, <1>8 DEF Shared
  <2> QED
    BY <1>1, <1>2, <1>3, <1>7, <2>1, <2>2, Unseen
<1>9. \A l, d : (Listed(l, d)' <=> Listed(l, d)) /\ (Once' <=> Once)
  BY <1>2, KeptShape
<1>10. ASSUME Shared(n) # {}, ~(loaded /\ ~strcaseeq(n, new))
       PROVE  IInv'
  <2>1. frame' = Idle
    BY <1>10 DEF NewNick, seen_nick
  <2>2. TypeOK'
    BY <1>1, <1>2, <2>1 DEF Calm, TypeOK, Idle
  <2>3. ASSUME loaded
        PROVE  Fold[n] = Fold[new] /\ gone' = gone
    BY <1>10, <2>3 DEF NewNick, strcaseeq
  <2>4. ASSUME loaded, NEW d \in heard, NEW m \in on'[d]
        PROVE  Listed(Fold[m], d)
    <3>1. d \in Channel
      BY <1>1 DEF Calm, NetOK
    <3>2. CASE n \in on[d]
      BY <1>1, <1>4, <2>3, <2>4, <3>1, <3>2 DEF Calm
    <3>3. CASE n \notin on[d]
      BY <1>1, <1>2, <2>4, <3>1, <3>3 DEF Calm
    <3> QED
      BY <3>2, <3>3
  <2>5. ASSUME loaded, NEW l, NEW d \in Channel, Somebody(l, d)
        PROVE  Somebody(l, d)'
    <3>1. PICK m \in on[d] : Fold[m] = l
      BY <2>5 DEF Somebody
    <3>2. m \in on'[d] \/ (m = n /\ new \in on'[d])
      BY <1>2, <3>1
    <3> QED
      BY <2>3, <2>5, <3>1, <3>2 DEF Somebody
  <2>6. Calm'
    BY <1>1, <1>2, <1>3, <1>7, <1>9, <2>2, <2>3, <2>4, <2>5 DEF Calm
  <2>7. (frame = Idle)' => (IInv' <=> Calm')
    BY CalmWhenIdle, PTL
  <2> QED
    BY <2>1, <2>6, <2>7
<1>11. ASSUME Shared(n) # {}, loaded, ~strcaseeq(n, new)
       PROVE  IInv'
  <2>1. /\ frame' \in Frames /\ frame'.at = "rename" /\ frame'.nick = n /\ frame'.new = new
        /\ Unused(new)
    BY <1>1, <1>11 DEF NewNick, seen_nick, Frames
  <2>2. \A l, d : Going(l, d)' <=> l = Fold[n]
    BY <2>1 DEF Going
  <2>3. PICK some \in Channel : n \in on[some] /\ BotOn(some)
    BY <1>11 DEF Shared
  <2>4. gone' = [gone EXCEPT ![Fold[n]] = IF Shared(n) \subseteq heard THEN Shared(n) ELSE {}]
    BY <1>11 DEF NewNick, SeenGo
  <2>5. TypeOK'
    BY <1>1, <1>2, <1>11, <2>1 DEF Calm, TypeOK
  <2>6. \A d \in Channel : \A m \in on'[d] : Fold[m] # Fold[n]
    BY <1>1, <1>4, <1>11, <2>3, OneBearer DEF Calm, strcaseeq
  <2>7. FrameOK'
    BY <1>11, <2>1, <2>2, <2>6 DEF FrameOK
  <2>8. Hearing'
    <3> SUFFICES ASSUME NEW d \in heard, NEW m \in on'[d], ~Listed(Fold[m], d)
                 PROVE  strcaseeq(m, new) /\ Listed(Fold[n], d)
      BY <1>2, <1>9, <2>1 DEF Hearing
    <3>1. d \in Channel
      BY <1>1 DEF Calm, NetOK
    <3>2. m = new /\ n \in on[d]
      BY <1>1, <1>2, <1>4, <1>11, <3>1 DEF Calm
    <3> QED
      BY <1>1, <1>11, <3>2 DEF Calm, strcaseeq
  <2>9. ASSUME ~blind, NEW l \in Lower, NEW d \in Channel, Listed(l, d)
        PROVE  /\ BotOn(d)
               /\ \/ Somebody(l, d)'
                  \/ l = Fold[n] /\ d \in Shared(n) /\ Somebody(Fold[new], d)'
               /\ l = Fold[n] => d \in Shared(n)
               /\ l # Fold[new]
    <3>1. BotOn(d) /\ Somebody(l, d)
      BY <1>1, <1>11, <2>9 DEF Calm
    <3>2. PICK m \in on[d] : Fold[m] = l
      BY <3>1 DEF Somebody
    <3>3. l # Fold[new]
      BY <2>1, <3>2 DEF Unused, strcaseeq
    <3>4. CASE m = n
      <4>1. new \in on'[d] /\ d \in Shared(n)
        BY <1>2, <3>1, <3>2, <3>4 DEF Shared
      <4> QED
        BY <3>1, <3>2, <3>3, <3>4, <4>1 DEF Somebody
    <3>5. CASE m # n
      <4>1. m \in on'[d]
        BY <1>2, <3>2, <3>5
      <4>2. l # Fold[n]
        BY <1>1, <2>3, <3>2, <3>5, OneBearer DEF Calm
      <4> QED
        BY <3>1, <3>2, <3>3, <4>1, <4>2 DEF Somebody
    <3> QED
      BY <3>4, <3>5
  <2>10. Fold[n] \in Lower /\ Fold[new] \in Lower
    BY SeenAssumption
  <2>11. Exact'
    <3> SUFFICES ASSUME ~blind
                 PROVE  Once' /\ \A l \in Lower, d \in Channel : Listed(l, d)' =>
                          /\ BotOn(d)'
                          /\ \/ Somebody(l, d)'
                             \/ l = Fold[n] /\ Somebody(Fold[new], d)' /\ ~Listed(Fold[new], d)'
      BY <1>2, <2>1, <2>2 DEF Exact
    <3>1. Once'
      BY <1>1, <1>9, <1>11 DEF Calm
    <3> QED
      BY <1>3, <1>9, <2>9, <2>10, <3>1
  <2>12. ASSUME ~blind, NEW l \in Lower, gone'[l] # {}
         PROVE  /\ file[l] \in gone'[l] \/ \E d \in Channel : Going(l, d)' /\ Listed(l, d)'
                /\ \A d \in Channel : Going(l, d)' /\ Listed(l, d)' => d \in gone'[l]
    <3>1. CASE l = Fold[n]
      <4>1. gone'[l] = Shared(n) /\ Shared(n) \subseteq heard
        BY <1>1, <2>4, <2>12, <3>1 DEF Calm, NetOK
      <4>2. some \in heard /\ Listed(l, some)
        BY <1>1, <1>11, <2>3, <3>1, <4>1 DEF Shared, Calm
      <4> QED
        BY <1>9, <2>2, <2>3, <2>9, <2>12, <3>1, <4>1, <4>2
    <3>2. CASE l # Fold[n]
      BY <1>1, <1>11, <2>2, <2>4, <2>12, <3>2 DEF Calm, NetOK
    <3> QED
      BY <3>1, <3>2
  <2>13. Filed'
    BY <1>2, <2>12 DEF Filed
  <2> QED
    BY <1>7, <2>5, <2>7, <2>8, <2>11, <2>13 DEF IInv
<1> QED
  BY <1>8, <1>10, <1>11

-----------------------------------------------------------------------------
(* The loops over the list *)

\* A loop that finds nothing more has done its work.
LEMMA LoopEnds ==
    ASSUME IInv, frame' = Idle, UNCHANGED <<loaded, chusers, file, world>>,
           frame.at \in {"leave", "rename"},
           \A d \in Channel, l \in Lower : ~(Going(l, d) /\ Listed(l, d))
    PROVE  IInv'
<1>1. \A l, d : (Listed(l, d)' <=> Listed(l, d)) /\ (Once' <=> Once)
  BY KeptShape
<1>2. UNCHANGED <<on, heard, blind, gone>>
  BY DEF world
<1>3. NetOK' /\ TypeOK'
  BY <1>2 DEF IInv, NetOK, TypeOK, Idle, BotOn
<1>4. \A l, d : (BotOn(d)' <=> BotOn(d)) /\ (Somebody(l, d)' <=> Somebody(l, d))
  BY <1>2 DEF BotOn, Somebody
<1>5. ASSUME loaded, NEW d \in heard, NEW m \in on[d]
      PROVE  Listed(Fold[m], d)
  <2>1. d \in Channel
    BY DEF IInv, NetOK
  <2>2. CASE frame.at = "rename"
    <3>1. Fold[frame.nick] \in Lower
      BY <2>2, SeenAssumption DEF IInv, FrameOK, Frames, Idle
    <3>2. ~Listed(Fold[frame.nick], d)
      BY <2>1, <2>2, <3>1 DEF Going
    <3> QED
      BY <1>5, <2>2, <3>2 DEF IInv, Hearing
  <2>3. CASE frame.at = "leave"
    BY <1>5, <2>3 DEF IInv, Hearing
  <2> QED
    BY <2>2, <2>3
<1>6. Calm'
  BY <1>1, <1>2, <1>3, <1>4, <1>5 DEF Calm, IInv, Exact, Filed
<1>7. (frame = Idle)' => (IInv' <=> Calm')
  BY CalmWhenIdle, PTL
<1> QED
  BY <1>6, <1>7

\* A turn of seen_user_leave drops one entry and writes the file, or ends.
LEMMA LeaveStepOK ==
    ASSUME IInv, LeaveStep
    PROVE  IInv'
<1>1. /\ frame \in Frames /\ frame.at = "leave" /\ loaded /\ TypeOK
      /\ UNCHANGED <<loaded, world>>
  BY DEF LeaveStep, IInv, FrameOK, TypeOK
<1>2. PICK n \in Nick, ch \in Channel \cup {Nothing} : n = frame.nick /\ ch = frame.channel
  BY <1>1 DEF Frames, Idle
<1>3. Fold[n] \in Lower /\ \A l, d : Going(l, d) <=> l = Fold[n] /\ ch \in {Nothing, d}
  BY <1>1, <1>2, SeenAssumption DEF Going
<1>4. CASE Found(n, ch) = {}
  <2>1. \A d \in Channel, l \in Lower : ~(Going(l, d) /\ Listed(l, d))
    BY <1>1, <1>3, <1>4, FoundShape
  <2> QED
    BY <1>1, <1>2, <1>4, <2>1, LoopEnds DEF LeaveStep
<1>5. CASE Found(n, ch) # {}
  <2>1. PICK i \in DOMAIN chusers :
              /\ Fold[chusers[i].nick] = Fold[n] /\ ch \in {Nothing, chusers[i].channel}
              /\ file' = [file EXCEPT ![Fold[n]] = chusers[i].channel]
              /\ chusers' = RemoveAt(chusers, i)
              /\ frame' = frame
    BY <1>1, <1>2, <1>5, FoundShape DEF LeaveStep, logseen
  <2>2. PICK c \in Channel : c = chusers[i].channel
    <3>1. chusers[i] \in Entry
      BY <1>1, LenProperties, ElementOfSeq DEF TypeOK
    <3> QED
      BY <3>1 DEF Entry
  <2>3. /\ chusers' \in Seq(Entry)
        /\ \A l, d : Listed(l, d)' => Listed(l, d)
        /\ \A l, d : Listed(l, d) => Listed(l, d)' \/ (l = Fold[n] /\ d = c)
        /\ Once => Once'
    BY <1>1, <2>1, <2>2, RemoveShape
  <2>4. Listed(Fold[n], c) /\ Going(Fold[n], c)
    BY <1>3, <2>1, <2>2 DEF Listed
  <2>5. UNCHANGED <<on, heard, blind, gone>>
    BY <1>1 DEF world
  <2>6. /\ \A l, d : Going(l, d)' <=> Going(l, d)
        /\ \A d : BotOn(d)' <=> BotOn(d)
        /\ \A l, d : Somebody(l, d)' <=> Somebody(l, d)
    BY <2>1, <2>5 DEF Going, BotOn, Somebody
  <2>7. TypeOK'
    BY <1>1, <1>3, <2>1, <2>2, <2>3 DEF TypeOK
  <2>8. NetOK'
    BY <1>1, <2>5, <2>6 DEF IInv, NetOK
  <2>9. FrameOK'
    BY <1>1, <2>1, <2>5, <2>6 DEF IInv, FrameOK
  <2>10. Hearing'
    <3> SUFFICES ASSUME NEW d \in heard, NEW m \in on[d]
                 PROVE  Listed(Fold[m], d)'
      BY <2>5 DEF Hearing
    <3>1. d \in Channel /\ ~Going(Fold[m], d) /\ Listed(Fold[m], d)
      BY <1>1 DEF IInv, NetOK, FrameOK, Hearing
    <3> QED
      BY <2>3, <2>4, <3>1
  <2>11. Exact'
    BY <1>1, <2>1, <2>3, <2>5, <2>6 DEF IInv, Exact
  <2>12. Filed'
    <3> SUFFICES ASSUME ~blind, NEW l \in Lower, gone[l] # {}
                 PROVE  /\ file'[l] \in gone[l] \/ \E d \in Channel : Going(l, d) /\ Listed(l, d)'
                        /\ \A d \in Channel : Going(l, d) /\ Listed(l, d)' => d \in gone[l]
      BY <2>5, <2>6 DEF Filed
    <3>1. /\ file[l] \in gone[l] \/ \E d \in Channel : Going(l, d) /\ Listed(l, d)
          /\ \A d \in Channel : Going(l, d) /\ Listed(l, d) => d \in gone[l]
      BY <1>1 DEF IInv, Filed
    <3>2. CASE l = Fold[n]
      <4>1. c \in gone[l] /\ file'[l] = c
        BY <1>1, <2>1, <2>2, <2>4, <3>1, <3>2 DEF TypeOK
      <4> QED
        BY <2>3, <3>1, <4>1
    <3>3. CASE l # Fold[n]
      <4>1. file'[l] = file[l] /\ \A d : ~Going(l, d)
        BY <1>1, <1>3, <2>1, <3>3 DEF TypeOK
      <4> QED
        BY <3>1, <4>1
    <3> QED
      BY <3>2, <3>3
  <2> QED
    BY <2>7, <2>8, <2>9, <2>10, <2>11, <2>12 DEF IInv
<1> QED
  BY <1>4, <1>5

\* A turn of seen_user_rename gives an entry of the old nick to the new one and
\* writes the old one's file, or ends.
LEMMA RenameStepOK ==
    ASSUME IInv, RenameStep
    PROVE  IInv'
<1>1. /\ frame \in Frames /\ frame.at = "rename" /\ loaded /\ TypeOK
      /\ UNCHANGED <<loaded, world>>
  BY DEF RenameStep, IInv, FrameOK, TypeOK
<1>2. PICK n \in Nick, new \in Nick : n = frame.nick /\ new = frame.new
  BY <1>1 DEF Frames, Idle
<1>3. /\ Fold[n] \in Lower /\ Fold[new] \in Lower /\ Fold[n] # Fold[new]
      /\ \A l, d : Going(l, d) <=> l = Fold[n]
  BY <1>1, <1>2, SeenAssumption DEF Going, IInv, FrameOK, strcaseeq
<1>4. CASE Found(n, Nothing) = {}
  <2>1. \A d \in Channel, l \in Lower : ~(Going(l, d) /\ Listed(l, d))
    BY <1>1, <1>3, <1>4, FoundShape
  <2> QED
    BY <1>1, <1>2, <1>4, <2>1, LoopEnds DEF RenameStep
<1>5. CASE Found(n, Nothing) # {}
  <2>1. PICK i \in DOMAIN chusers :
              /\ Fold[chusers[i].nick] = Fold[n]
              /\ file' = [file EXCEPT ![Fold[n]] = chusers[i].channel]
              /\ chusers' = [chusers EXCEPT ![i].nick = new]
              /\ frame' = frame
    BY <1>1, <1>2, <1>5, FoundShape DEF RenameStep, logseen
  <2>2. PICK c \in Channel : c = chusers[i].channel
    <3>1. chusers[i] \in Entry
      BY <1>1, LenProperties, ElementOfSeq DEF TypeOK
    <3> QED
      BY <3>1 DEF Entry
  <2>3. /\ chusers' \in Seq(Entry)
        /\ \A l, d : Listed(l, d)' => Listed(l, d) \/ (l = Fold[new] /\ d = c)
        /\ \A l, d : Listed(l, d) => Listed(l, d)' \/ (l = Fold[n] /\ d = c)
        /\ \A l, d : l = Fold[new] /\ d = c => Listed(l, d)'
        /\ Once /\ ~Listed(Fold[new], c) => Once'
        /\ Once => \A l, d : l = Fold[n] /\ d = c => ~Listed(l, d)'
    <3>1. /\ chusers' \in Seq(Entry)
          /\ \A l, d : Listed(l, d)' => Listed(l, d) \/ (l = Fold[new] /\ d = chusers[i].channel)
          /\ \A l, d : Listed(l, d) =>
                Listed(l, d)' \/ (l = Fold[chusers[i].nick] /\ d = chusers[i].channel)
          /\ \A l, d : l = Fold[new] /\ d = chusers[i].channel => Listed(l, d)'
          /\ Once /\ ~Listed(Fold[new], chusers[i].channel) => Once'
          /\ Once /\ Fold[chusers[i].nick] # Fold[new] =>
                \A l, d : l = Fold[chusers[i].nick] /\ d = chusers[i].channel => ~Listed(l, d)'
      BY <1>1, <2>1, RenamedShape
    <3> QED
      BY <1>3, <2>1, <2>2, <3>1
  <2>4. Listed(Fold[n], c)
    BY <2>1, <2>2 DEF Listed
  <2>5. UNCHANGED <<on, heard, blind, gone>>
    BY <1>1 DEF world
  <2>6. /\ \A l, d : Going(l, d)' <=> Going(l, d)
        /\ \A d : BotOn(d)' <=> BotOn(d)
        /\ \A l, d : Somebody(l, d)' <=> Somebody(l, d)
    BY <2>1, <2>5 DEF Going, BotOn, Somebody
  <2>7. TypeOK'
    BY <1>1, <1>3, <2>1, <2>2, <2>3 DEF TypeOK
  <2>8. NetOK'
    BY <1>1, <2>5, <2>6 DEF IInv, NetOK
  <2>9. FrameOK'
    BY <1>1, <2>1, <2>5, <2>6 DEF IInv, FrameOK
  <2>10. \A d \in Channel : ~Somebody(Fold[n], d)
    BY <1>3 DEF IInv, FrameOK, Somebody
  <2>11. \A l, d : l = Fold[new] /\ d = c => Listed(l, d)'
    BY <2>3
  <2>12. Hearing'
    <3> SUFFICES ASSUME NEW d \in heard, NEW m \in on[d], ~Listed(Fold[m], d)'
                 PROVE  strcaseeq(m, new) /\ Listed(Fold[n], d)'
      BY <1>1, <1>2, <2>1, <2>5 DEF Hearing
    <3>1. d \in Channel /\ Fold[m] # Fold[n]
      BY <1>3 DEF IInv, NetOK, FrameOK
    <3>2. ~Listed(Fold[m], d)
      BY <2>3, <3>1
    <3>3. strcaseeq(m, new) /\ Listed(Fold[n], d)
      BY <1>1, <1>2, <3>2 DEF IInv, Hearing
    <3>4. d # c
      BY <2>11, <3>3 DEF strcaseeq
    <3> QED
      BY <2>3, <3>3, <3>4
  <2>13. ASSUME ~blind
         PROVE  /\ Once
                /\ \A l \in Lower, d \in Channel : Listed(l, d) =>
                      /\ BotOn(d)
                      /\ \/ Somebody(l, d)
                         \/ l = Fold[n] /\ Somebody(Fold[new], d) /\ ~Listed(Fold[new], d)
    BY <1>1, <1>2, <1>3, <2>13 DEF IInv, Exact
  <2>14. ASSUME ~blind
         PROVE  BotOn(c) /\ Somebody(Fold[new], c) /\ ~Listed(Fold[new], c)
    BY <1>3, <2>4, <2>10, <2>13, <2>14
  <2>15. Exact'
    <3> SUFFICES ASSUME ~blind
                 PROVE  Once' /\ \A l \in Lower, d \in Channel : Listed(l, d)' =>
                          /\ BotOn(d)
                          /\ \/ Somebody(l, d)
                             \/ l = Fold[n] /\ Somebody(Fold[new], d) /\ ~Listed(Fold[new], d)'
      BY <1>1, <1>2, <1>3, <2>1, <2>5, <2>6 DEF Exact
    <3>1. Once'
      BY <2>3, <2>13, <2>14
    <3>2. ASSUME NEW l \in Lower, NEW d \in Channel, Listed(l, d)'
          PROVE  /\ BotOn(d)
                 /\ \/ Somebody(l, d)
                    \/ l = Fold[n] /\ Somebody(Fold[new], d) /\ ~Listed(Fold[new], d)'
      <4>1. CASE l = Fold[new] /\ d = c
        BY <2>14, <4>1
      <4>2. CASE ~(l = Fold[new] /\ d = c)
        <5>1. Listed(l, d)
          BY <2>3, <3>2, <4>2
        <5>2. l = Fold[n] => d # c
          BY <2>3, <2>13, <3>2
        <5> QED
          BY <2>3, <2>13, <5>1, <5>2
      <4> QED
        BY <4>1, <4>2
    <3> QED
      BY <3>1, <3>2
  <2>16. Filed'
    <3> SUFFICES ASSUME ~blind, NEW l \in Lower, gone[l] # {}
                 PROVE  /\ file'[l] \in gone[l] \/ \E d \in Channel : Going(l, d) /\ Listed(l, d)'
                        /\ \A d \in Channel : Going(l, d) /\ Listed(l, d)' => d \in gone[l]
      BY <2>5, <2>6 DEF Filed
    <3>1. /\ file[l] \in gone[l] \/ \E d \in Channel : Going(l, d) /\ Listed(l, d)
          /\ \A d \in Channel : Going(l, d) /\ Listed(l, d) => d \in gone[l]
      BY <1>1 DEF IInv, Filed
    <3>2. CASE l = Fold[n]
      <4>1. c \in gone[l] /\ file'[l] = c
        BY <1>1, <1>3, <2>1, <2>2, <2>4, <3>1, <3>2 DEF TypeOK
      <4> QED
        BY <1>3, <2>3, <3>1, <3>2, <4>1
    <3>3. CASE l # Fold[n]
      <4>1. file'[l] = file[l] /\ \A d : ~Going(l, d)
        BY <1>1, <1>3, <2>1, <3>3 DEF TypeOK
      <4> QED
        BY <3>1, <4>1
    <3> QED
      BY <3>2, <3>3
  <2> QED
    BY <2>7, <2>8, <2>9, <2>12, <2>15, <2>16 DEF IInv
<1> QED
  BY <1>4, <1>5

\* Every event and every turn of a loop keeps the invariant.
LEMMA NextIInv == IInv /\ [Next]_vars => IInv'
<1> SUFFICES ASSUME IInv, [Next]_vars
             PROVE  IInv'
  OBVIOUS
<1>1. CASE UNCHANGED vars
  <2>1. UNCHANGED <<loaded, chusers, file, frame, on, heard, blind, gone>>
    BY <1>1 DEF vars
  <2>2. TypeOK' /\ NetOK'
    BY <2>1 DEF IInv, TypeOK, NetOK, BotOn
  <2>3. FrameOK' /\ Hearing'
    BY <2>1 DEF IInv, FrameOK, Hearing, BotOn, Listed, Going
  <2>4. Exact' /\ Filed'
    BY <2>1 DEF IInv, Exact, Filed, Once, Listed, Going, Somebody, BotOn
  <2> QED
    BY <2>2, <2>3, <2>4 DEF IInv
<1> QED
  BY <1>1, JoinOK, BotJoinOK, HereOK, PartOK, QuitOK, BlindOK, NewNickOK, LeaveStepOK,
     RenameStepOK, ReloadOK DEF Next, Network, Continue

-----------------------------------------------------------------------------
(* What SEEN answers *)

\* The strengthened invariant holds.
THEOREM Invariance == Spec => []IInv
<1> QED
  BY InitIInv, NextIInv, PTL DEF Spec

\* On a channel whose names the module was told, "is here" is answered for
\* everybody who is there.
THEOREM PresentAreListed == Spec => []PresentAreHere
<1>1. IInv => PresentAreHere
  <2> SUFFICES ASSUME IInv, loaded, frame = Idle, NEW c \in heard, NEW n \in on[c]
               PROVE  seen_cmd(n, c) = "is here"
    BY DEF PresentAreHere
  <2>1. Calm /\ c \in Channel /\ n \in Nick
    BY CalmWhenIdle DEF Calm, NetOK
  <2>2. Found(n, c) # {}
    BY <2>1, FoundShape DEF Calm
  <2> QED
    BY <2>2 DEF seen_cmd
<1> QED
  BY <1>1, Invariance, PTL

\* As long as nothing has gone unseen, who is listed is there, and listed once.
THEOREM ListedArePresent == Spec => []HereIsPresent
<1>1. IInv => HereIsPresent
  <2> SUFFICES ASSUME IInv
               PROVE  HereIsPresent
    OBVIOUS
  <2>1. TypeOK
    BY DEF IInv
  <2>2. ASSUME loaded, frame = Idle, ~blind, NEW i \in DOMAIN chusers
        PROVE  \E n \in on[chusers[i].channel] : strcaseeq(n, chusers[i].nick)
    <3>1. chusers[i] \in Entry
      BY <2>1, LenProperties, ElementOfSeq DEF TypeOK
    <3>2. /\ chusers[i].channel \in Channel /\ Fold[chusers[i].nick] \in Lower
          /\ Listed(Fold[chusers[i].nick], chusers[i].channel)
      BY <3>1, SeenAssumption DEF Entry, Listed
    <3>3. Somebody(Fold[chusers[i].nick], chusers[i].channel)
      BY <2>2, <3>2, CalmWhenIdle DEF Calm
    <3> QED
      BY <3>3 DEF Somebody, strcaseeq
  <2>3. ASSUME loaded, frame = Idle, ~blind
        PROVE  Once
    BY <2>3, CalmWhenIdle DEF Calm
  <2> QED
    BY <2>1, <2>2, <2>3 DEF HereIsPresent, Once
<1> QED
  BY <1>1, Invariance, PTL

\* The file of whoever the module saw go names a channel he went from.
THEOREM FilesNameLast == Spec => []FileNamesLast
<1>1. IInv => FileNamesLast
  BY CalmWhenIdle DEF FileNamesLast, Calm
<1> QED
  BY <1>1, Invariance, PTL

=============================================================================
