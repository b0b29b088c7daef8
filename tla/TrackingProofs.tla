--------------------------- MODULE TrackingProofs ---------------------------
(***************************************************************************)
(* Proofs about Tracking and Session.  About Tracking: type correctness of *)
(* every behaviour, and, as long as nicks do not collide (CalmSpec), that  *)
(* the two halves of every membership agree, that no list leads to         *)
(* released memory, that no handler follows a null pointer, and that the   *)
(* lists are the one table of Membership.  About Session: that the bot     *)
(* knows its nick, is on the channels it lists and on no others than it is *)
(* meant to be on, and that its lists show who is there, once everything   *)
(* under way has arrived.                                                  *)
(***************************************************************************)
EXTENDS Session, Lemmas, FiniteSetTheorems, FunctionTheorems

-----------------------------------------------------------------------------
(* Counting occurrences in a list *)

\* A sequence that has grown by one.
LEMMA QueueAppend ==
    ASSUME NEW S, NEW q \in Seq(S), NEW m \in S
    PROVE  /\ Append(q, m) \in Seq(S)
           /\ Len(q) \in Nat
           /\ Len(Append(q, m)) = Len(q) + 1
           /\ DOMAIN q = 1 .. Len(q)
           /\ DOMAIN Append(q, m) = 1 .. (Len(q) + 1)
           /\ \A i \in DOMAIN q : Append(q, m)[i] = q[i]
           /\ Append(q, m)[Len(q) + 1] = m
BY AppendProperties, LenProperties

\* The occurrences of a value in a list are finitely many, as many as Count.
LEMMA CountNat ==
    ASSUME NEW S, NEW s \in Seq(S), NEW x
    PROVE  /\ IsFiniteSet({i \in DOMAIN s : s[i] = x})
           /\ Count(s, x) \in Nat
<1>1. DOMAIN s = 1 .. Len(s) /\ Len(s) \in Nat
  OBVIOUS
<1>2. IsFiniteSet(DOMAIN s)
  BY <1>1, FS_Interval
<1>3. IsFiniteSet({i \in DOMAIN s : s[i] = x})
  BY <1>2, FS_Subset
<1> QED
  BY <1>3, FS_CardinalityType DEF Count

\* A value is counted zero times exactly when the list lacks it.
LEMMA CountZero ==
    ASSUME NEW S, NEW s \in Seq(S), NEW x
    PROVE  Count(s, x) = 0 <=> Absent(s, x)
<1> DEFINE I == {i \in DOMAIN s : s[i] = x}
<1>1. IsFiniteSet(I)
  BY CountNat
<1>2. Cardinality(I) = 0 <=> I = {}
  BY <1>1, FS_EmptySet
<1> QED
  BY <1>2 DEF Count, Absent

\* LinkToList adds one occurrence of what it links.
LEMMA CountAppend ==
    ASSUME NEW S, NEW s \in Seq(S), NEW e \in S, NEW x
    PROVE  Count(Append(s, e), x) = IF x = e THEN Count(s, x) + 1 ELSE Count(s, x)
<1> DEFINE t == Append(s, e)
           I == {i \in DOMAIN s : s[i] = x}
           J == {i \in DOMAIN t : t[i] = x}
<1>1. /\ DOMAIN s = 1 .. Len(s)
      /\ Len(s) \in Nat
      /\ DOMAIN t = 1 .. (Len(s) + 1)
      /\ t[Len(s) + 1] = e
      /\ \A i \in 1 .. Len(s) : t[i] = s[i]
  OBVIOUS
<1>2. IsFiniteSet(I) /\ Len(s) + 1 \notin I
  <2>1. IsFiniteSet(I)
    BY CountNat
  <2>2. Len(s) + 1 \notin I
    BY <1>1
  <2> QED
    BY <2>1, <2>2
<1>3. CASE x = e
  <2>1. J = I \cup {Len(s) + 1}
    BY <1>1, <1>3
  <2>2. Cardinality(J) = Cardinality(I) + 1
    BY <1>2, <2>1, FS_AddElement
  <2> QED
    BY <1>3, <2>2 DEF Count
<1>4. CASE x # e
  <2>1. J = I
    BY <1>1, <1>4
  <2> QED
    BY <1>4, <2>1 DEF Count
<1> QED
  BY <1>3, <1>4

\* Unlinking a node takes away one occurrence of what it held.
LEMMA CountRemove ==
    ASSUME NEW S, NEW s \in Seq(S), NEW i \in DOMAIN s, NEW x
    PROVE  Count(RemoveAt(s, i), x)
              = IF x = s[i] THEN Count(s, x) - 1 ELSE Count(s, x)
<1> DEFINE r == RemoveAt(s, i)
           I == {j \in DOMAIN s : s[j] = x}
           J == {j \in DOMAIN r : r[j] = x}
           f == [j \in J |-> IF j < i THEN j ELSE j + 1]
<1>1. /\ i \in 1 .. Len(s)
      /\ Len(s) \in Nat
      /\ DOMAIN s = 1 .. Len(s)
      /\ DOMAIN r = 1 .. (Len(s) - 1)
      /\ r \in Seq(S)
  BY RemoveAtShape
<1>2. \A j \in 1 .. (Len(s) - 1) : r[j] = IF j < i THEN s[j] ELSE s[j + 1]
  BY RemoveAtShape
<1>3. IsFiniteSet(I) /\ IsFiniteSet(J)
  BY <1>1, CountNat
<1>4. f \in Bijection(J, I \ {i})
  <2>1. ASSUME NEW j \in J
        PROVE  f[j] \in I \ {i}
    BY <1>1, <1>2
  <2>2. ASSUME NEW j \in J, NEW k \in J, f[j] = f[k]
        PROVE  j = k
    BY <1>1, <2>2
  <2>3. ASSUME NEW k \in I \ {i}
        PROVE  \E j \in J : f[j] = k
    <3>1. CASE k < i
      <4>1. k \in J
        BY <1>1, <1>2, <3>1
      <4> QED
        BY <3>1, <4>1
    <3>2. CASE ~(k < i)
      <4>1. k - 1 \in J /\ ~(k - 1 < i)
        BY <1>1, <1>2, <3>2
      <4> QED
        BY <1>1, <4>1
    <3> QED
      BY <3>1, <3>2
  <2>4. f \in [J -> I \ {i}]
    BY <2>1
  <2> QED
    BY <2>2, <2>3, <2>4, Fun_IsBij
<1>5. Cardinality(J) = Cardinality(I \ {i})
  BY <1>3, <1>4, FS_Bijection DEF ExistsBijection
<1>6. CASE x = s[i]
  <2>1. i \in I
    BY <1>6
  <2>2. Cardinality(I \ {i}) = Cardinality(I) - 1
    BY <1>3, <2>1, FS_RemoveElement
  <2> QED
    BY <1>5, <1>6, <2>2 DEF Count
<1>7. CASE x # s[i]
  <2>1. I \ {i} = I
    BY <1>7
  <2> QED
    BY <1>5, <1>7, <2>1 DEF Count
<1> QED
  BY <1>6, <1>7

-----------------------------------------------------------------------------
(* Type correctness *)

ListsOK ==
    /\ ulist \in Seq(UserId)
    /\ nick \in [UserId -> Nick \cup {NoNick}]
    /\ recent \subseteq UserId
    /\ clist \subseteq Channel
    /\ members \in [Channel -> Seq(UserId)]
    /\ chans \in [UserId -> Seq(Channel)]

\* A new record leaves the list of users and the nicks in their types.
LEMMA CreateUserType ==
    ASSUME ListsOK, NEW u \in UserId, NEW n \in Nick, CreateUser(u, n)
    PROVE  /\ ulist' \in Seq(UserId)
           /\ nick' \in [UserId -> Nick \cup {NoNick}]
           /\ recent' \subseteq UserId
BY AppendProperties DEF ListsOK, CreateUser

\* Linking a user to a channel leaves both lists in their types.
LEMMA LinkType ==
    ASSUME ListsOK, NEW u \in UserId, NEW own \in Seq(Channel),
           NEW c \in Channel, LinkUserToChannel(u, own, c)
    PROVE  /\ clist' \subseteq Channel
           /\ members' \in [Channel -> Seq(UserId)]
           /\ chans' \in [UserId -> Seq(Channel)]
<1>1. NodesOf(c) \in Seq(UserId)
  BY EmptySeq DEF ListsOK, NodesOf
<1>2. Append(NodesOf(c), u) \in Seq(UserId) /\ Append(own, c) \in Seq(Channel)
  BY <1>1, AppendProperties
<1> QED
  BY <1>2 DEF ListsOK, LinkUserToChannel

\* So does AddUserToChannel, which may do both.
LEMMA AddUserType ==
    ASSUME ListsOK, NEW n \in Nick, NEW c \in Channel, AddUserToChannel(n, c)
    PROVE  ListsOK'
<1>1. CASE UNCHANGED <<users, links>>
  BY <1>1 DEF ListsOK, users, links
<1>2. ASSUME NEW i \in DOMAIN ulist, UNCHANGED users,
             LinkUserToChannel(ulist[i], chans[ulist[i]], c)
      PROVE  ListsOK'
  <2>1. ulist[i] \in UserId /\ chans[ulist[i]] \in Seq(Channel)
    BY ElementOfSeq, LenProperties DEF ListsOK
  <2> QED
    BY <1>2, <2>1, LinkType DEF ListsOK, users
<1>3. ASSUME NEW u \in UserId, CreateUser(u, n), LinkUserToChannel(u, << >>, c)
      PROVE  ListsOK'
  BY <1>3, CreateUserType, LinkType, EmptySeq DEF ListsOK
<1> QED
  BY <1>1, <1>2, <1>3 DEF AddUserToChannel

\* Unlinking, or failing to, leaves the lists and the frame in their types.
LEMMA DelUserFromChannelType ==
    ASSUME ListsOK, NEW n, NEW c \in Channel, NEW next \in Frame,
           DelUserFromChannel(n, c, next)
    PROVE  /\ members' \in [Channel -> Seq(UserId)]
           /\ chans' \in [UserId -> Seq(Channel)]
           /\ frame' \in Frame
<1>0. Crashed \in Frame
  BY DEF Frame
<1>1. ASSUME NEW i \in DOMAIN members[c],
             members' = [members EXCEPT ![c] = RemoveAt(members[c], i)]
      PROVE  members' \in [Channel -> Seq(UserId)]
  BY <1>1, RemoveAtShape DEF ListsOK
<1>2. ASSUME NEW k \in DOMAIN ulist, NEW j \in DOMAIN chans[ulist[k]],
             chans' = [chans EXCEPT ![ulist[k]] = RemoveAt(chans[ulist[k]], j)]
      PROVE  chans' \in [UserId -> Seq(Channel)]
  <2>1. chans[ulist[k]] \in Seq(Channel)
    BY ElementOfSeq, LenProperties DEF ListsOK
  <2> QED
    BY <1>2, <2>1, RemoveAtShape DEF ListsOK
<1> QED
  BY <1>0, <1>1, <1>2 DEF DelUserFromChannel, FirstAt, ListsOK

\* Freeing a record leaves the users in their types.
LEMMA DelUserType ==
    ASSUME ListsOK, NEW u \in UserId, DelUser(u)
    PROVE  /\ ulist' \in Seq(UserId)
           /\ nick' \in [UserId -> Nick \cup {NoNick}]
           /\ recent' \subseteq UserId
<1>1. ulist' \in Seq(UserId)
  BY RemoveAtShape DEF DelUser, ListsOK
<1> QED
  BY <1>1 DEF DelUser, ListsOK

\* What AddServer sets up has the types.
LEMMA InitTypeOK == Init => TypeOK
BY ConstantsAssumption, EmptySeq DEF Init, TypeOK, Frame

\* Every handler, and every turn of a loop, keeps every variable in its type.
LEMMA NextTypeOK == TypeOK /\ [Next]_vars => TypeOK'
<1> SUFFICES ASSUME TypeOK, [Next]_vars
             PROVE  TypeOK'
  OBVIOUS
<1> USE ConstantsAssumption
<1>0. ListsOK /\ me \in Nick /\ conf \in [Channel -> Nat] /\ frame \in Frame
  BY DEF TypeOK, ListsOK
<1>t. ASSUME ListsOK', me' \in Nick, conf' \in [Channel -> Nat], frame' \in Frame,
             sent' \in Seq(Message)
      PROVE  TypeOK'
  BY <1>t DEF TypeOK, ListsOK
<1>s. Silent => sent' \in Seq(Message)
  BY EmptySeq DEF Silent
<1>m. ASSUME NEW m \in Message, NEW P
      PROVE  (IF P THEN << >> ELSE <<m>>) \in Seq(Message) /\ (IF P THEN <<m>> ELSE << >>) \in Seq(Message)
  BY EmptySeq
<1>i. Idle \in Frame /\ Crashed \in Frame
  BY DEF Frame
<1>1. ASSUME NEW n \in Nick, NEW c \in Channel, sm_join(n, c)
      PROVE  TypeOK'
  BY <1>0, <1>1, <1>s, <1>t, AddUserType DEF sm_join
<1>2. ASSUME NEW n \in Nick, NEW c \in Channel, sm_part(n, c)
      PROVE  TypeOK'
  BY <1>0, <1>2, <1>i, <1>s, <1>t, DelUserFromChannelType DEF sm_part, ListsOK, users
<1>3. ASSUME NEW n \in Nick, NEW c \in Channel, sm_kick(n, c)
      PROVE  TypeOK'
  <2>1. sent' \in Seq(Message)
    BY <1>3, <1>m DEF sm_kick, Message
  <2> QED
    BY <1>0, <1>3, <1>i, <1>t, <2>1, DelUserFromChannelType DEF sm_kick, ListsOK, users
<1>4. ASSUME NEW n \in Nick, sm_quit(n)
      PROVE  TypeOK'
  <2>1. frame' \in Frame
    BY <1>0, <1>4, ElementOfSeq, LenProperties DEF sm_quit, Frame, ListsOK
  <2> QED
    BY <1>0, <1>4, <1>s, <1>t, <2>1 DEF sm_quit, ListsOK, users, links
<1>5. CASE QuitStep
  <2>1. frame.user \in UserId
    BY <1>0, <1>5 DEF QuitStep, Frame, Idle, Crashed
  <2>2. CASE chans[frame.user] # << >>
    <3>1. Head(chans[frame.user]) \in Channel
      BY <1>0, <2>1, <2>2, HeadTailProperties DEF ListsOK
    <3>2. DelUserFromChannel(nick[frame.user], Head(chans[frame.user]), frame)
      BY <1>5, <2>2 DEF QuitStep
    <3>3. UNCHANGED <<me, conf, users, clist>> /\ Silent
      BY <1>5, <2>2 DEF QuitStep
    <3> QED
      BY <1>0, <1>s, <1>t, <3>1, <3>2, <3>3, DelUserFromChannelType DEF ListsOK, users
  <2>3. CASE chans[frame.user] = << >>
    <3>1. DelUser(frame.user) /\ frame' = Idle /\ UNCHANGED <<me, conf, links>> /\ Silent
      BY <1>5, <2>3 DEF QuitStep
    <3> QED
      BY <1>0, <1>i, <1>s, <1>t, <2>1, <3>1, DelUserType DEF ListsOK, links
  <2> QED
    BY <2>2, <2>3
<1>6. ASSUME NEW n \in Nick, NEW new \in Nick, sm_nick(n, new)
      PROVE  TypeOK'
  <2>1. nick' \in [UserId -> Nick \cup {NoNick}]
    BY <1>0, <1>6 DEF sm_nick, RenameUser, ListsOK
  <2>2. UNCHANGED <<me, conf, ulist, recent, links, frame>> /\ Silent
    BY <1>6 DEF sm_nick
  <2> QED
    BY <1>0, <1>s, <1>t, <2>1, <2>2 DEF ListsOK, links
<1>7. ASSUME NEW n \in Nick, sm_privmsg(n)
      PROVE  TypeOK'
  <2>1. CASE UNCHANGED <<users, frame>>
    BY <1>0, <1>7, <1>s, <1>t, <2>1 DEF sm_privmsg, ListsOK, users, links
  <2>2. ASSUME NEW i \in DOMAIN ulist, recent' = recent \cup {ulist[i]},
               frame' \in {Idle, [op |-> "command", user |-> ulist[i]]},
               UNCHANGED <<ulist, nick>>
        PROVE  TypeOK'
    <3>1. ulist[i] \in UserId
      BY <1>0, ElementOfSeq, LenProperties DEF ListsOK
    <3>2. frame' \in Frame
      BY <1>i, <2>2, <3>1 DEF Frame
    <3> QED
      BY <1>0, <1>7, <1>s, <1>t, <2>2, <3>1, <3>2 DEF sm_privmsg, ListsOK, links
  <2>3. ASSUME NEW u \in UserId, CreateUser(u, n),
               frame' \in {Idle, [op |-> "command", user |-> u]}
        PROVE  TypeOK'
    <3>2. frame' \in Frame
      BY <1>i, <2>3 DEF Frame
    <3> QED
      BY <1>0, <1>7, <1>s, <1>t, <2>3, <3>2, CreateUserType DEF sm_privmsg, ListsOK, links
  <2> QED
    BY <1>7, <2>1, <2>2, <2>3 DEF sm_privmsg
<1>8. ASSUME NEW c \in Channel, get_users_from_chan(c)
      PROVE  TypeOK'
  <2>1. frame' \in Frame
    BY <1>8 DEF get_users_from_chan, Frame
  <2> QED
    BY <1>0, <1>8, <1>s, <1>t, <2>1 DEF get_users_from_chan, ListsOK, users, links
<1>9. ASSUME NEW n \in Nick, NamesStep(n)
      PROVE  TypeOK'
  <2>1. frame.chan \in Channel /\ frame' \in Frame
    BY <1>0, <1>9 DEF NamesStep, Frame, Idle, Crashed
  <2> QED
    BY <1>0, <1>9, <1>s, <1>t, <2>1, AddUserType DEF NamesStep
<1>10. CASE NamesEnd
  BY <1>0, <1>10, <1>i, <1>s, <1>t DEF NamesEnd, ListsOK, users, links
<1>11. ASSUME NEW n \in Nick, numeric_userhost(n)
       PROVE  TypeOK'
  BY <1>0, <1>11, <1>i, <1>s, <1>t, CreateUserType DEF numeric_userhost, ListsOK, users, links
<1>12. CASE numeric_nickinuse
  <2>1. sent' \in Seq(Message)
    BY <1>12, <1>m DEF numeric_nickinuse, Message
  <2> QED
    BY <1>0, <1>12, <1>t, <2>1 DEF numeric_nickinuse, ListsOK, users, links
<1>13. ASSUME NEW c \in Channel, msg_join(c)
       PROVE  TypeOK'
  <2>1. sent' \in Seq(Message) /\ conf' \in [Channel -> Nat]
    BY <1>0, <1>13, <1>s, <1>m DEF msg_join, insert_channels, Message
  <2> QED
    BY <1>0, <1>13, <1>i, <1>t, <2>1 DEF msg_join, insert_channels, ListsOK, users, links
<1>14. ASSUME NEW c \in Channel, msg_part(c)
       PROVE  TypeOK'
  <2>1. sent' \in Seq(Message) /\ conf' \in [Channel -> Nat]
    BY <1>0, <1>14, <1>m, <1>s DEF msg_part, delete_channel, Message
  <2>2. frame' \in Frame
    BY <1>0, <1>14, <1>i DEF msg_part, delete_channel, Frame, Idle, Crashed
  <2> QED
    BY <1>0, <1>14, <1>t, <2>1, <2>2 DEF msg_part, delete_channel, ListsOK, users, links
<1>15. CASE DelChannelStep
  <2>1. frame.chan \in Channel
    BY <1>0, <1>15 DEF DelChannelStep, Frame, Idle, Crashed
  <2>2. CASE members[frame.chan] # << >>
    BY <1>0, <1>15, <1>s, <1>t, <2>1, <2>2, DelUserFromChannelType
    DEF DelChannelStep, ListsOK, users
  <2>3. CASE members[frame.chan] = << >>
    BY <1>0, <1>15, <1>i, <1>s, <1>t, <2>3 DEF DelChannelStep, ListsOK, users
  <2> QED
    BY <2>2, <2>3
<1>16. ASSUME NEW n \in Nick, msg_nick(n)
       PROVE  TypeOK'
  <2>1. sent' \in Seq(Message)
    BY <1>16 DEF msg_nick, Message
  <2> QED
    BY <1>0, <1>16, <1>i, <1>t, <2>1 DEF msg_nick, ListsOK, users, links
<1>17. CASE ReapUserList
  <2>1. frame' \in Frame
    BY <1>17 DEF ReapUserList, Frame
  <2> QED
    BY <1>0, <1>17, <1>s, <1>t, <2>1 DEF ReapUserList, ListsOK, users, links
<1>18. CASE ReapStep
  <2>1. Live \subseteq UserId
    BY <1>0, ElementOfSeq, LenProperties DEF Live, ListsOK
  <2>2. ASSUME NEW u \in Live, DelUser(u), UNCHANGED frame
        PROVE  TypeOK'
    BY <1>0, <1>18, <1>s, <1>t, <2>1, <2>2, DelUserType DEF ReapStep, ListsOK, links
  <2>3. CASE frame' = Idle /\ UNCHANGED users
    BY <1>0, <1>18, <1>i, <1>s, <1>t, <2>3 DEF ReapStep, ListsOK, users, links
  <2> QED
    BY <1>18, <2>2, <2>3 DEF ReapStep
<1>19. ASSUME NEW u \in UserId, GrowOld(u)
       PROVE  TypeOK'
  BY <1>0, <1>19, <1>s, <1>t DEF GrowOld, ListsOK, links
<1>20. CASE UNCHANGED vars
  BY <1>20 DEF vars, users, links, TypeOK
<1> QED
  BY <1>1, <1>2, <1>3, <1>4, <1>5, <1>6, <1>7, <1>8, <1>9, <1>10, <1>11, <1>12,
     <1>13, <1>14, <1>15, <1>16, <1>17, <1>18, <1>19, <1>20
  DEF Next, Dispatch, Continue

\* Calm steps are steps.
LEMMA CalmIsNext == [CalmNext]_vars => [Next]_vars
BY DEF CalmNext, Next, Dispatch, Continue, vars

\* The state of tracking.c keeps its types whatever the server sends.
THEOREM TypeCorrect == Spec => []TypeOK
<1> QED
  BY InitTypeOK, NextTypeOK, PTL DEF Spec

-----------------------------------------------------------------------------
(* The lists while nicks do not collide *)

ListsInv ==
    /\ ListsOK
    /\ NickUnique
    /\ LinksAgree
    /\ Released
    /\ SelfUntracked

\* LinksAgree is about the two families of lists and nothing else.
LEMMA LinksKept ==
    ASSUME LinksAgree, UNCHANGED links
    PROVE  LinksAgree'
BY DEF LinksAgree, Count, links

\* The lists stay consistent when users, lists and the own nick stay.
LEMMA UnchangedInv ==
    ASSUME ListsInv, UNCHANGED <<me, users, links>>
    PROVE  ListsInv' /\ Live' = Live /\ clist' = clist
<1>1. /\ me' = me /\ ulist' = ulist /\ nick' = nick /\ recent' = recent
      /\ clist' = clist /\ members' = members /\ chans' = chans
  BY DEF users, links
<1>2. ListsOK' /\ Live' = Live
  BY <1>1 DEF ListsInv, ListsOK, Live
<1>3. NickUnique' /\ Released' /\ SelfUntracked'
  BY <1>1, <1>2 DEF ListsInv, NickUnique, Released, SelfUntracked
<1>4. LinksAgree'
  BY <1>1 DEF ListsInv, LinksAgree, Count
<1> QED
  BY <1>1, <1>2, <1>3, <1>4 DEF ListsInv

\* A user called n is the one GetUser finds.
LEMMA OneOfAName ==
    ASSUME ListsInv, NEW u \in Live
    PROVE  /\ u \in UserId
           /\ \E k \in DOMAIN ulist : ulist[k] = u
           /\ \A k \in DOMAIN ulist : nick[ulist[k]] = nick[u] => ulist[k] = u
<1>1. PICK i \in DOMAIN ulist : ulist[i] = u
  BY DEF Live
<1>2. ulist[i] \in UserId
  BY ElementOfSeq, LenProperties DEF ListsInv, ListsOK
<1> QED
  BY <1>1, <1>2 DEF ListsInv, NickUnique

\* A member node points to a user that is on the list and linked back.
LEMMA MemberIsLinked ==
    ASSUME ListsInv, NEW c \in Channel, NEW i \in DOMAIN members[c]
    PROVE  /\ members[c][i] \in Live
           /\ ~Absent(chans[members[c][i]], c)
<1> DEFINE u == members[c][i]
<1>0. members[c] \in Seq(UserId) /\ u \in UserId
  BY ElementOfSeq, LenProperties DEF ListsInv, ListsOK
<1>1. chans[u] \in Seq(Channel)
  BY <1>0 DEF ListsInv, ListsOK
<1>2. Count(members[c], u) # 0
  BY <1>0, CountZero DEF Absent
<1>3. Count(chans[u], c) # 0
  BY <1>0, <1>2 DEF ListsInv, LinksAgree
<1>4. ~Absent(chans[u], c)
  BY <1>1, <1>3, CountZero
<1>5. u \in Live
  <2> SUFFICES ASSUME u \notin Live PROVE FALSE
    OBVIOUS
  <2>1. chans[u] = << >>
    BY <1>0 DEF ListsInv, Released
  <2> QED
    BY <1>4, <2>1, EmptySeq DEF Absent
<1> QED
  BY <1>4, <1>5

\* LinkUserToChannel adds one node to either list.
LEMMA LinkAgrees ==
    ASSUME ListsOK, LinksAgree, Released,
           NEW u \in UserId, NEW c \in Channel,
           LinkUserToChannel(u, chans[u], c)
    PROVE  /\ LinksAgree'
           /\ clist' = clist \cup {c}
           /\ \A d \in Channel \ {c} : members'[d] = members[d]
           /\ \A w \in UserId \ {u} : chans'[w] = chans[w]
<1>1. NodesOf(c) = members[c]
  BY DEF NodesOf, Released
<1>2. /\ members' = [members EXCEPT ![c] = Append(members[c], u)]
      /\ chans' = [chans EXCEPT ![u] = Append(chans[u], c)]
      /\ clist' = clist \cup {c}
  BY <1>1 DEF LinkUserToChannel
<1>3. /\ \A d \in Channel : members[d] \in Seq(UserId)
      /\ \A w \in UserId : chans[w] \in Seq(Channel)
      /\ \A d \in Channel : members'[d] = IF d = c THEN Append(members[c], u) ELSE members[d]
      /\ \A w \in UserId : chans'[w] = IF w = u THEN Append(chans[u], c) ELSE chans[w]
  BY <1>2 DEF ListsOK
<1>4. ASSUME NEW w \in UserId, NEW d \in Channel
      PROVE  Count(members'[d], w) = Count(chans'[w], d)
  <2>1. Count(members[d], w) = Count(chans[w], d)
    BY DEF LinksAgree
  <2>2. Count(members'[d], w)
          = IF d = c /\ w = u THEN Count(members[d], w) + 1 ELSE Count(members[d], w)
    BY <1>3, CountAppend
  <2>3. Count(chans'[w], d)
          = IF d = c /\ w = u THEN Count(chans[w], d) + 1 ELSE Count(chans[w], d)
    BY <1>3, CountAppend
  <2> QED
    BY <2>1, <2>2, <2>3
<1>5. LinksAgree'
  BY <1>4 DEF LinksAgree, Count
<1> QED
  BY <1>2, <1>3, <1>5

\* A new record has a nick of its own and hangs from no list.
LEMMA CreateUserInv ==
    ASSUME ListsInv, NEW u \in UserId, NEW n \in Nick, n # me, NoneNamed(ulist, n),
           CreateUser(u, n), UNCHANGED me
    PROVE  /\ NickUnique'
           /\ SelfUntracked'
           /\ Live' = Live \cup {u}
           /\ u \notin Live
<1>1. /\ ulist \in Seq(UserId)
      /\ ulist' = Append(ulist, u)
      /\ u \notin Live
      /\ \A w \in UserId : nick'[w] = IF w = u THEN n ELSE nick[w]
  BY DEF CreateUser, ListsInv, ListsOK
<1>2. /\ DOMAIN ulist = 1 .. Len(ulist)
      /\ Len(ulist) \in Nat
      /\ DOMAIN ulist' = 1 .. (Len(ulist) + 1)
      /\ ulist'[Len(ulist) + 1] = u
      /\ \A i \in 1 .. Len(ulist) : ulist'[i] = ulist[i]
  BY <1>1
<1>3. \A i \in DOMAIN ulist : ulist[i] \in UserId /\ ulist[i] # u
  BY <1>1, ElementOfSeq, LenProperties DEF Live
<1>4. Live' = Live \cup {u}
  <2>1. ASSUME NEW x \in Live' PROVE x \in Live \cup {u}
    BY <1>2 DEF Live
  <2>2. ASSUME NEW x \in Live \cup {u} PROVE x \in Live'
    <3>1. CASE x = u
      <4>1. Len(ulist) + 1 \in DOMAIN ulist'
        BY <1>2
      <4> QED
        BY <1>2, <3>1, <4>1 DEF Live
    <3>2. CASE x \in Live
      BY <1>2, <3>2 DEF Live
    <3> QED
      BY <3>1, <3>2
  <2> QED
    BY <2>1, <2>2
<1>5. NickUnique'
  <2> SUFFICES ASSUME NEW i \in DOMAIN ulist', NEW j \in DOMAIN ulist',
                      nick'[ulist'[i]] = nick'[ulist'[j]]
               PROVE  i = j
    BY DEF NickUnique
  <2>1. \A k \in 1 .. Len(ulist) : nick'[ulist'[k]] = nick[ulist[k]] /\ nick[ulist[k]] # n
    BY <1>1, <1>2, <1>3 DEF NoneNamed
  <2>2. nick'[ulist'[Len(ulist) + 1]] = n
    BY <1>1, <1>2
  <2>3. CASE i \in 1 .. Len(ulist) /\ j \in 1 .. Len(ulist)
    BY <1>2, <2>1, <2>3 DEF ListsInv, NickUnique
  <2>4. CASE i = Len(ulist) + 1 \/ j = Len(ulist) + 1
    BY <1>2, <2>1, <2>2, <2>4
  <2> QED
    BY <1>2, <2>3, <2>4
<1>6. SelfUntracked'
  <2>1. \A w \in Live : w \in UserId /\ w # u
    BY <1>3 DEF Live
  <2> QED
    BY <1>1, <1>4, <2>1 DEF SelfUntracked, ListsInv
<1> QED
  BY <1>1, <1>4, <1>5, <1>6

\* AddUserToChannel keeps the lists consistent, whoever is added.
LEMMA AddUserInv ==
    ASSUME ListsInv, NEW n \in Nick, NEW c \in Channel, AddUserToChannel(n, c),
           UNCHANGED me
    PROVE  ListsInv' /\ Live \subseteq Live' /\ clist \subseteq clist'
<1>0. ListsOK'
  BY AddUserType DEF ListsInv
<1>1. CASE UNCHANGED <<users, links>>
  BY <1>1, UnchangedInv
<1>2. ASSUME NEW i \in DOMAIN ulist, UNCHANGED users,
             LinkUserToChannel(ulist[i], chans[ulist[i]], c)
      PROVE  ListsInv' /\ Live \subseteq Live' /\ clist \subseteq clist'
  <2>1. ulist[i] \in UserId /\ ulist[i] \in Live
    BY ElementOfSeq, LenProperties DEF ListsInv, ListsOK, Live
  <2>2. /\ LinksAgree'
        /\ clist' = clist \cup {c}
        /\ \A d \in Channel \ {c} : members'[d] = members[d]
        /\ \A w \in UserId \ {ulist[i]} : chans'[w] = chans[w]
    BY <1>2, <2>1, LinkAgrees DEF ListsInv
  <2>3. Live' = Live
    BY <1>2 DEF Live, users
  <2>4. Released'
    BY <2>1, <2>2, <2>3 DEF ListsInv, Released
  <2>5. NickUnique' /\ SelfUntracked'
    BY <1>2, <2>3 DEF ListsInv, NickUnique, SelfUntracked, users
  <2> QED
    BY <1>0, <2>2, <2>3, <2>4, <2>5 DEF ListsInv
<1>3. ASSUME NEW u \in UserId, n # me, NoneNamed(ulist, n), CreateUser(u, n),
             LinkUserToChannel(u, << >>, c)
      PROVE  ListsInv' /\ Live \subseteq Live' /\ clist \subseteq clist'
  <2>1. NickUnique' /\ SelfUntracked' /\ Live' = Live \cup {u} /\ u \notin Live
    BY <1>3, CreateUserInv
  <2>2. chans[u] = << >>
    BY <2>1 DEF ListsInv, Released
  <2>3. /\ LinksAgree'
        /\ clist' = clist \cup {c}
        /\ \A d \in Channel \ {c} : members'[d] = members[d]
        /\ \A w \in UserId \ {u} : chans'[w] = chans[w]
    BY <1>3, <2>2, LinkAgrees DEF ListsInv
  <2>4. Released'
    BY <2>1, <2>3 DEF ListsInv, Released
  <2> QED
    BY <1>0, <2>1, <2>3, <2>4 DEF ListsInv
<1> QED
  BY <1>1, <1>2, <1>3 DEF AddUserToChannel

\* With one record to a nick the two lookups of DelUserFromChannel meet: it
\* unlinks both halves of one membership or nothing, and never crashes.
LEMMA DelUserFromChannelInv ==
    ASSUME ListsInv, NEW n, NEW c \in Channel, NEW next,
           DelUserFromChannel(n, c, next), UNCHANGED <<me, users, clist>>
    PROVE  ListsInv' /\ frame' = next
<1>0. ASSUME NEW i \in DOMAIN members[c], FirstNamed(members[c], i, n)
      PROVE  /\ members[c][i] \in Live
             /\ ~Absent(chans[members[c][i]], c)
             /\ ~NoneNamed(ulist, n)
             /\ \A k \in DOMAIN ulist : FirstNamed(ulist, k, n) => ulist[k] = members[c][i]
  <2>1. members[c][i] \in Live /\ ~Absent(chans[members[c][i]], c)
    BY MemberIsLinked
  <2>2. nick[members[c][i]] = n
    BY <1>0 DEF FirstNamed
  <2> QED
    BY <2>1, <2>2, OneOfAName DEF FirstNamed, NoneNamed
<1>1. CASE UNCHANGED <<members, chans>> /\ frame' = next
  BY <1>1, UnchangedInv DEF links
<1>2. ASSUME NEW i \in DOMAIN members[c], NEW k \in DOMAIN ulist,
             NEW j \in DOMAIN chans[ulist[k]],
             c \in clist,
             FirstNamed(members[c], i, n),
             FirstNamed(ulist, k, n),
             members' = [members EXCEPT ![c] = RemoveAt(members[c], i)],
             FirstAt(chans[ulist[k]], j, c),
             chans' = [chans EXCEPT ![ulist[k]] = RemoveAt(chans[ulist[k]], j)],
             frame' = next
      PROVE  ListsInv'
  <2> DEFINE u == ulist[k]
  <2>1. u = members[c][i] /\ u \in Live /\ u \in UserId
    BY <1>0, <1>2, OneOfAName
  <2>2. /\ \A d \in Channel : members[d] \in Seq(UserId)
        /\ \A w \in UserId : chans[w] \in Seq(Channel)
        /\ \A d \in Channel : members'[d] = IF d = c THEN RemoveAt(members[c], i) ELSE members[d]
        /\ \A w \in UserId : chans'[w] = IF w = u THEN RemoveAt(chans[u], j) ELSE chans[w]
    BY <1>2 DEF ListsInv, ListsOK
  <2>3. chans[u][j] = c
    BY <1>2 DEF FirstAt
  <2>4. ASSUME NEW w \in UserId, NEW d \in Channel
        PROVE  Count(members'[d], w) = Count(chans'[w], d)
    <3>1. Count(members[d], w) = Count(chans[w], d)
      BY DEF ListsInv, LinksAgree
    <3>2. Count(members'[d], w)
            = IF d = c /\ w = u THEN Count(members[d], w) - 1 ELSE Count(members[d], w)
      BY <2>1, <2>2, CountRemove
    <3>3. Count(chans'[w], d)
            = IF d = c /\ w = u THEN Count(chans[w], d) - 1 ELSE Count(chans[w], d)
      BY <2>1, <2>2, <2>3, CountRemove
    <3> QED
      BY <3>1, <3>2, <3>3
  <2>5. LinksAgree'
    BY <2>4 DEF LinksAgree, Count
  <2>6. Live' = Live /\ clist' = clist
    BY DEF Live, users
  <2>7. Released'
    BY <1>2, <2>1, <2>2, <2>6 DEF ListsInv, Released
  <2>8. NickUnique' /\ SelfUntracked'
    BY <2>6 DEF ListsInv, NickUnique, SelfUntracked, users
  <2>9. ListsOK'
    <3>1. RemoveAt(members[c], i) \in Seq(UserId) /\ RemoveAt(chans[u], j) \in Seq(Channel)
      BY <2>1, <2>2, RemoveAtShape
    <3> QED
      BY <1>2, <3>1 DEF ListsInv, ListsOK, users
  <2> QED
    BY <2>5, <2>7, <2>8, <2>9 DEF ListsInv
<1> QED
  BY <1>0, <1>1, <1>2 DEF DelUserFromChannel

\* A record without channels can go: no list leads to it.
LEMMA DelUserInv ==
    ASSUME ListsInv, NEW u \in UserId, DelUser(u), chans[u] = << >>,
           UNCHANGED <<me, links>>
    PROVE  ListsInv' /\ Live' = Live \ {u}
<1>1. PICK i \in DOMAIN ulist : ulist[i] = u /\ ulist' = RemoveAt(ulist, i)
  BY DEF DelUser, FirstAt
<1>2. /\ ulist \in Seq(UserId)
      /\ DOMAIN ulist = 1 .. Len(ulist)
      /\ Len(ulist) \in Nat
      /\ DOMAIN ulist' = 1 .. (Len(ulist) - 1)
      /\ \A j \in 1 .. (Len(ulist) - 1) :
            ulist'[j] = IF j < i THEN ulist[j] ELSE ulist[j + 1]
  <2>1. ulist \in Seq(UserId)
    BY DEF ListsInv, ListsOK
  <2>2. DOMAIN ulist = 1 .. Len(ulist) /\ Len(ulist) \in Nat
    BY <2>1, LenProperties
  <2>3. /\ DOMAIN RemoveAt(ulist, i) = 1 .. (Len(ulist) - 1)
        /\ \A j \in 1 .. (Len(ulist) - 1) :
              RemoveAt(ulist, i)[j] = IF j < i THEN ulist[j] ELSE ulist[j + 1]
    BY <1>1, <2>1, RemoveAtShape
  <2> QED
    BY <1>1, <2>1, <2>2, <2>3
<1>3. \A j \in DOMAIN ulist : ulist[j] \in UserId /\ (ulist[j] = u <=> j = i)
  <2>1. \A j \in DOMAIN ulist : ulist[j] \in UserId
    BY <1>2, ElementOfSeq
  <2>2. \A j \in DOMAIN ulist : ulist[j] = u => j = i
    BY <1>1 DEF ListsInv, NickUnique
  <2> QED
    BY <1>1, <2>1, <2>2
<1>4. \A j \in DOMAIN ulist' : \E k \in DOMAIN ulist :
         k # i /\ ulist'[j] = ulist[k] /\ k = (IF j < i THEN j ELSE j + 1)
  BY <1>2
<1>5. \A k \in DOMAIN ulist \ {i} : \E j \in DOMAIN ulist' : ulist'[j] = ulist[k]
  <2> SUFFICES ASSUME NEW k \in DOMAIN ulist \ {i}
               PROVE  \E j \in DOMAIN ulist' : ulist'[j] = ulist[k]
    OBVIOUS
  <2>1. CASE k < i
    BY <1>2, <2>1
  <2>2. CASE ~(k < i)
    <3>1. k - 1 \in DOMAIN ulist' /\ ulist'[k - 1] = ulist[k]
      BY <1>2, <2>2
    <3> QED
      BY <3>1
  <2> QED
    BY <2>1, <2>2
<1>6. Live' = Live \ {u}
  BY <1>3, <1>4, <1>5 DEF Live
<1>7. \A w \in UserId \ {u} : nick'[w] = nick[w]
  BY DEF DelUser, ListsInv, ListsOK
<1>8. NickUnique'
  <2> SUFFICES ASSUME NEW a \in DOMAIN ulist', NEW b \in DOMAIN ulist',
                      nick'[ulist'[a]] = nick'[ulist'[b]]
               PROVE  a = b
    BY DEF NickUnique
  <2>1. PICK k \in DOMAIN ulist :
          k # i /\ ulist'[a] = ulist[k] /\ k = (IF a < i THEN a ELSE a + 1)
    BY <1>4
  <2>2. PICK l \in DOMAIN ulist :
          l # i /\ ulist'[b] = ulist[l] /\ l = (IF b < i THEN b ELSE b + 1)
    BY <1>4
  <2>3. k = l
    BY <1>3, <1>7, <2>1, <2>2 DEF ListsInv, NickUnique
  <2> QED
    BY <1>1, <1>2, <2>1, <2>2, <2>3
<1>9. SelfUntracked'
  <2>1. \A w \in Live' : w \in UserId \ {u} /\ w \in Live
    BY <1>3, <1>6 DEF Live
  <2> QED
    BY <1>7, <2>1 DEF ListsInv, SelfUntracked
<1>10. ListsOK'
  BY DelUserType DEF ListsInv, ListsOK, links
<1>11. LinksAgree' /\ Released'
  BY <1>6 DEF ListsInv, LinksAgree, Count, Released, links
<1> QED
  BY <1>6, <1>8, <1>9, <1>10, <1>11 DEF ListsInv

-----------------------------------------------------------------------------
(* The inductive invariant *)

\* The empty lists of AddServer are consistent.
LEMMA InitIInv == Init => IInv
<1> SUFFICES ASSUME Init PROVE IInv
  OBVIOUS
<1>1. TypeOK
  BY InitTypeOK
<1>2. Live = {} /\ NickUnique /\ Released /\ SelfUntracked
  BY DEF Init, Live, NickUnique, Released, SelfUntracked
<1>3. LinksAgree
  <2> SUFFICES ASSUME NEW u \in UserId, NEW c \in Channel
               PROVE  Count(members[c], u) = Count(chans[u], c)
    BY DEF LinksAgree
  <2>1. members[c] = << >> /\ chans[u] = << >>
    BY DEF Init
  <2> QED
    BY <2>1 DEF Count
<1>4. HeldUserLive /\ HeldChannelTracked /\ NoCrash
  BY DEF Init, HeldUserLive, HeldChannelTracked, NoCrash, Idle, Crashed
<1> QED
  BY <1>1, <1>2, <1>3, <1>4 DEF IInv

\* While nicks do not collide, every handler and every turn of a loop keeps
\* the lists consistent and gets to its end without a null pointer.
LEMMA NextIInv == IInv /\ [CalmNext]_vars => IInv'
<1> SUFFICES ASSUME IInv, [CalmNext]_vars
             PROVE  IInv'
  OBVIOUS
<1>0. TypeOK' /\ ListsInv /\ me \in Nick /\ frame \in Frame
  BY NextTypeOK, CalmIsNext DEF IInv, TypeOK, ListsInv, ListsOK
<1>l. ListsOK'
  BY <1>0 DEF TypeOK, ListsOK
<1>t. ASSUME ListsInv', HeldUserLive', HeldChannelTracked', NoCrash'
      PROVE  IInv'
  BY <1>0, <1>t DEF IInv, ListsInv
<1>i. ASSUME ListsInv', frame' = Idle
      PROVE  IInv'
  BY <1>i, <1>t DEF HeldUserLive, HeldChannelTracked, NoCrash, Idle, Crashed
<1>k. ASSUME ListsInv', frame' = frame, Live \subseteq Live', clist \subseteq clist'
      PROVE  IInv'
  BY <1>k, <1>t DEF IInv, HeldUserLive, HeldChannelTracked, NoCrash
<1>u. ASSUME ListsInv', NEW u \in Live', frame' = [op |-> "command", user |-> u]
      PROVE  IInv'
  BY <1>t, <1>u DEF HeldUserLive, HeldChannelTracked, NoCrash, Crashed
<1>1. ASSUME NEW n \in Nick, NEW c \in Channel, sm_join(n, c)
      PROVE  IInv'
  BY <1>0, <1>1, <1>k, AddUserInv DEF sm_join
<1>2. ASSUME NEW n \in Nick, NEW c \in Channel, sm_part(n, c) \/ sm_kick(n, c)
      PROVE  IInv'
  BY <1>0, <1>2, <1>i, DelUserFromChannelInv DEF sm_part, sm_kick
<1>3. ASSUME NEW n \in Nick, sm_quit(n)
      PROVE  IInv'
  <2>1. ListsInv' /\ Live' = Live /\ clist' = clist
    BY <1>0, <1>3, UnchangedInv DEF sm_quit
  <2>2. CASE UNCHANGED frame
    BY <1>k, <2>1, <2>2
  <2>3. ASSUME NEW i \in DOMAIN ulist, frame' = [op |-> "quit", user |-> ulist[i]]
        PROVE  IInv'
    BY <1>t, <2>1, <2>3 DEF HeldUserLive, HeldChannelTracked, NoCrash, Crashed, Live
  <2> QED
    BY <1>3, <2>2, <2>3 DEF sm_quit
<1>4. CASE QuitStep
  <2>1. frame.op = "quit" /\ frame.user \in UserId /\ frame.user \in Live
    BY <1>0, <1>4 DEF QuitStep, Frame, Idle, Crashed, IInv, HeldUserLive
  <2>2. CASE chans[frame.user] # << >>
    <3>1. Head(chans[frame.user]) \in Channel
      BY <1>0, <2>1, <2>2, HeadTailProperties DEF ListsInv, ListsOK
    <3>2. /\ DelUserFromChannel(nick[frame.user], Head(chans[frame.user]), frame)
          /\ UNCHANGED <<me, users, clist>>
      BY <1>4, <2>2 DEF QuitStep
    <3>3. Live' = Live /\ clist' = clist
      BY <3>2 DEF Live, users
    <3> QED
      BY <1>0, <1>k, <3>1, <3>2, <3>3, DelUserFromChannelInv
  <2>3. CASE chans[frame.user] = << >>
    <3>1. DelUser(frame.user) /\ frame' = Idle /\ UNCHANGED <<me, links>>
      BY <1>4, <2>3 DEF QuitStep
    <3> QED
      BY <1>0, <1>i, <2>1, <2>3, <3>1, DelUserInv
  <2> QED
    BY <2>2, <2>3
<1>5. ASSUME NEW n \in Nick, NEW new \in Nick, Unclaimed(new), sm_nick(n, new)
      PROVE  IInv'
  <2>1. CASE UNCHANGED nick
    BY <1>0, <1>5, <1>k, <2>1, UnchangedInv DEF sm_nick, RenameUser, users
  <2>2. ASSUME NEW i \in DOMAIN ulist, new # me,
               nick' = [nick EXCEPT ![ulist[i]] = new]
        PROVE  IInv'
    <3>1. /\ \A j \in DOMAIN ulist : ulist[j] \in UserId
          /\ nick \in [UserId -> Nick \cup {NoNick}]
          /\ ulist' = ulist /\ me' = me
      BY <1>0, <1>5, ElementOfSeq, LenProperties DEF ListsInv, ListsOK, sm_nick, RenameUser
    <3>2. \A j \in DOMAIN ulist :
             nick'[ulist[j]] = IF j = i THEN new ELSE nick[ulist[j]]
      BY <1>0, <2>2, <3>1 DEF ListsInv, NickUnique
    <3>3. NickUnique'
      BY <1>0, <1>5, <3>1, <3>2 DEF ListsInv, NickUnique, Unclaimed, NoneNamed
    <3>4. Live' = Live
      BY <3>1 DEF Live
    <3>5. SelfUntracked'
      BY <1>0, <2>2, <3>1, <3>2, <3>4 DEF ListsInv, SelfUntracked, Live
    <3>6. LinksAgree' /\ Released'
      BY <1>0, <1>5, <3>4, LinksKept DEF ListsInv, Released, sm_nick, RenameUser, links
    <3> QED
      BY <1>5, <1>k, <1>l, <3>3, <3>4, <3>5, <3>6 DEF ListsInv, sm_nick, RenameUser, links
  <2> QED
    BY <1>5, <2>1, <2>2 DEF sm_nick, RenameUser
<1>n. ASSUME NEW u \in UserId, NEW n \in Nick, n # me, NoneNamed(ulist, n),
             CreateUser(u, n), UNCHANGED <<me, links>>
      PROVE  ListsInv' /\ Live' = Live \cup {u}
  <2>1. NickUnique' /\ SelfUntracked' /\ Live' = Live \cup {u}
    BY <1>0, <1>n, CreateUserInv
  <2>2. LinksAgree' /\ Released'
    BY <1>0, <1>n, <2>1, LinksKept DEF ListsInv, Released, links
  <2> QED
    BY <1>l, <2>1, <2>2 DEF ListsInv
<1>6. ASSUME NEW n \in Nick, sm_privmsg(n)
      PROVE  IInv'
  <2>1. CASE UNCHANGED <<users, frame>>
    BY <1>0, <1>6, <1>k, <2>1, UnchangedInv DEF sm_privmsg
  <2>2. ASSUME NEW i \in DOMAIN ulist,
               frame' \in {Idle, [op |-> "command", user |-> ulist[i]]},
               UNCHANGED <<ulist, nick>>
        PROVE  IInv'
    <3>1. Live' = Live /\ ulist[i] \in Live'
      BY <2>2 DEF Live
    <3>2. UNCHANGED <<me, ulist, nick, links>>
      BY <1>6, <2>2 DEF sm_privmsg
    <3>3. LinksAgree' /\ Released' /\ NickUnique' /\ SelfUntracked'
      BY <1>0, <3>1, <3>2, LinksKept
      DEF ListsInv, NickUnique, SelfUntracked, Released, links
    <3>4. ListsInv'
      BY <1>l, <3>3 DEF ListsInv
    <3> QED
      BY <1>i, <1>u, <2>2, <3>1, <3>4
  <2>3. ASSUME NEW u \in UserId, n # me, NoneNamed(ulist, n), CreateUser(u, n),
               frame' \in {Idle, [op |-> "command", user |-> u]}
        PROVE  IInv'
    <3>1. ListsInv' /\ u \in Live'
      BY <1>6, <1>n, <2>3 DEF sm_privmsg
    <3> QED
      BY <1>i, <1>u, <2>3, <3>1
  <2> QED
    BY <1>6, <2>1, <2>2, <2>3 DEF sm_privmsg
<1>7. ASSUME NEW c \in Channel, get_users_from_chan(c)
      PROVE  IInv'
  BY <1>0, <1>7, <1>t, UnchangedInv
  DEF get_users_from_chan, HeldUserLive, HeldChannelTracked, NoCrash, Crashed
<1>8. ASSUME NEW n \in Nick, NamesStep(n)
      PROVE  IInv'
  <2>1. frame.chan \in Channel /\ frame'.op = "names"
    BY <1>0, <1>8 DEF NamesStep, Frame, Idle, Crashed
  <2>2. ListsInv'
    BY <1>0, <1>8, <2>1, AddUserInv DEF NamesStep
  <2> QED
    BY <1>t, <2>1, <2>2 DEF HeldUserLive, HeldChannelTracked, NoCrash, Crashed
<1>9. CASE NamesEnd
  BY <1>0, <1>9, <1>i, UnchangedInv DEF NamesEnd
<1>10. ASSUME NEW n \in Nick, n # me, numeric_userhost(n)
       PROVE  IInv'
  <2>1. CASE UNCHANGED <<users, frame>>
    BY <1>0, <1>10, <1>k, <2>1, UnchangedInv DEF numeric_userhost
  <2>2. ASSUME NEW u \in UserId, NoneNamed(ulist, n), CreateUser(u, n), UNCHANGED frame
        PROVE  IInv'
    <3>1. UNCHANGED <<me, links>>
      BY <1>10 DEF numeric_userhost
    <3>2. ListsInv' /\ Live \subseteq Live' /\ clist' = clist
      BY <1>10, <1>n, <2>2, <3>1 DEF links
    <3> QED
      BY <1>k, <2>2, <3>2
  <2> QED
    BY <1>10, <2>1, <2>2 DEF numeric_userhost
<1>m. ASSUME NEW n \in Nick, Unclaimed(n), me' = n, UNCHANGED <<users, links>>
      PROVE  ListsInv' /\ Live' = Live /\ clist' = clist
  <2>1. Live' = Live /\ SelfUntracked' /\ clist' = clist
    BY <1>m DEF Live, SelfUntracked, Unclaimed, NoneNamed, users, links
  <2>2. NickUnique' /\ LinksAgree' /\ Released'
    BY <1>0, <1>m, <2>1, LinksKept DEF ListsInv, NickUnique, Released, users, links
  <2> QED
    BY <1>l, <2>1, <2>2 DEF ListsInv
<1>11. CASE Unclaimed(AltNick) /\ numeric_nickinuse
  BY <1>11, <1>k, <1>m, ConstantsAssumption DEF numeric_nickinuse
<1>12. ASSUME NEW n \in Nick, Unclaimed(n), msg_nick(n)
       PROVE  IInv'
  BY <1>12, <1>i, <1>m DEF msg_nick
<1>13. ASSUME NEW c \in Channel, msg_join(c)
       PROVE  IInv'
  BY <1>0, <1>13, <1>i, UnchangedInv DEF msg_join, insert_channels
<1>14. ASSUME NEW c \in Channel, msg_part(c)
       PROVE  IInv'
  <2>1. ListsInv' /\ Live' = Live /\ clist' = clist
    BY <1>0, <1>14, UnchangedInv DEF msg_part, delete_channel
  <2>2. CASE frame' = Idle
    BY <1>i, <2>1, <2>2
  <2>3. CASE c \in clist /\ frame' = [op |-> "delchan", user |-> frame.user, chan |-> c]
    <3>1. frame.user \in Live
      BY <1>14 DEF msg_part, delete_channel, IInv, HeldUserLive
    <3> QED
      BY <1>t, <2>1, <2>3, <3>1 DEF HeldUserLive, HeldChannelTracked, NoCrash, Crashed
  <2> QED
    BY <1>14, <2>2, <2>3 DEF msg_part, delete_channel
<1>15. CASE DelChannelStep
  <2>1. frame.chan \in Channel
    BY <1>0, <1>15 DEF DelChannelStep, Frame, Idle, Crashed
  <2>2. CASE members[frame.chan] # << >>
    <3>1. /\ DelUserFromChannel(nick[Head(members[frame.chan])], frame.chan, frame)
          /\ UNCHANGED <<me, users, clist>>
      BY <1>15, <2>2 DEF DelChannelStep
    <3>2. Live' = Live /\ clist' = clist
      BY <3>1 DEF Live, users
    <3> QED
      BY <1>0, <1>k, <2>1, <3>1, <3>2, DelUserFromChannelInv
  <2>3. CASE members[frame.chan] = << >>
    <3>1. /\ clist' = clist \ {frame.chan} /\ frame' = Idle
          /\ UNCHANGED <<members, chans, me, users>>
      BY <1>15, <2>3 DEF DelChannelStep
    <3>2. ListsOK' /\ Live' = Live
      BY <1>0, <3>1 DEF ListsInv, ListsOK, users, Live
    <3>3. NickUnique' /\ SelfUntracked' /\ Released'
      BY <1>0, <2>3, <3>1, <3>2 DEF ListsInv, NickUnique, SelfUntracked, Released, users
    <3>4. LinksAgree'
      BY <1>0, <3>1 DEF ListsInv, LinksAgree, Count
    <3> QED
      BY <1>i, <3>1, <3>2, <3>3, <3>4 DEF ListsInv
  <2> QED
    BY <2>2, <2>3
<1>16. CASE ReapUserList
  BY <1>0, <1>16, <1>t, UnchangedInv
  DEF ReapUserList, HeldUserLive, HeldChannelTracked, NoCrash, Crashed
<1>17. CASE ReapStep
  <2>1. ASSUME NEW u \in Live, Reapable(u), DelUser(u), UNCHANGED frame
        PROVE  IInv'
    <3>1. u \in UserId
      BY <1>0, OneOfAName
    <3>2. ListsInv'
      BY <1>0, <1>17, <2>1, <3>1, DelUserInv DEF ReapStep, Reapable
    <3>3. frame'.op = "reap" /\ frame' # Crashed
      BY <1>17, <2>1 DEF ReapStep, Crashed
    <3> QED
      BY <1>t, <3>2, <3>3 DEF HeldUserLive, HeldChannelTracked, NoCrash
  <2>2. CASE frame' = Idle /\ UNCHANGED users
    BY <1>0, <1>17, <1>i, <2>2, UnchangedInv DEF ReapStep
  <2> QED
    BY <1>17, <2>1, <2>2 DEF ReapStep
<1>18. ASSUME NEW u \in UserId, GrowOld(u)
       PROVE  IInv'
  <2>1. Live' = Live /\ clist' = clist
    BY <1>18 DEF GrowOld, Live, links
  <2>2. UNCHANGED <<me, ulist, nick, links>>
    BY <1>18 DEF GrowOld
  <2>3. LinksAgree' /\ Released' /\ NickUnique' /\ SelfUntracked'
    BY <1>0, <2>1, <2>2, LinksKept
    DEF ListsInv, NickUnique, SelfUntracked, Released, links
  <2>4. ListsInv'
    BY <1>l, <2>3 DEF ListsInv
  <2> QED
    BY <1>18, <1>k, <2>1, <2>4 DEF GrowOld
<1>19. CASE UNCHANGED vars
  BY <1>0, <1>19, <1>k, UnchangedInv DEF vars, users, links
<1> QED
  BY <1>1, <1>2, <1>3, <1>4, <1>5, <1>6, <1>7, <1>8, <1>9, <1>10, <1>11, <1>12,
     <1>13, <1>14, <1>15, <1>16, <1>17, <1>18, <1>19
  DEF CalmNext, Dispatch, Continue

\* While nicks do not collide, the lists are consistent at every step of every
\* handler: the inductive invariant the theorems below are read off from.
THEOREM Invariance == CalmSpec => []IInv
<1> QED
  BY InitIInv, NextIInv, PTL DEF CalmSpec

\* Consistent lists lead to no released memory.
LEMMA IInvNoDangling == IInv => NoDangling
<1> SUFFICES ASSUME IInv PROVE NoDangling
  OBVIOUS
<1>0. ListsInv
  BY DEF IInv, TypeOK, ListsInv, ListsOK
<1>1. ASSUME NEW c \in clist
      PROVE  ToSet(members[c]) \subseteq Live
  <2>1. c \in Channel
    BY <1>0 DEF ListsInv, ListsOK
  <2> QED
    BY <1>0, <2>1, MemberIsLinked DEF ToSet
<1>2. ASSUME NEW u \in Live, NEW j \in DOMAIN chans[u]
      PROVE  chans[u][j] \in clist
  <2> DEFINE c == chans[u][j]
  <2>1. u \in UserId /\ chans[u] \in Seq(Channel)
    BY <1>0, OneOfAName DEF ListsInv, ListsOK
  <2>2. c \in Channel
    BY <2>1, ElementOfSeq, LenProperties
  <2>3. Count(chans[u], c) # 0
    BY <2>1, CountZero DEF Absent
  <2>4. Count(members[c], u) # 0 /\ members[c] \in Seq(UserId)
    BY <1>0, <2>1, <2>2, <2>3 DEF ListsInv, LinksAgree, ListsOK
  <2>5. members[c] # << >>
    BY <2>4, CountZero DEF Absent
  <2> QED
    BY <1>0, <2>2, <2>5 DEF ListsInv, Released
<1> QED
  BY <1>1, <1>2 DEF NoDangling, ToSet

\* While nicks do not collide, each membership is on the channel's list as
\* often as on the user's.
THEOREM LinksAlwaysAgree == CalmSpec => []LinksAgree
<1>1. IInv => LinksAgree
  BY DEF IInv
<1> QED
  BY <1>1, Invariance, PTL

\* While nicks do not collide, the lists never lead to released memory.
THEOREM NeverDangling == CalmSpec => []NoDangling
BY IInvNoDangling, Invariance, PTL

\* While nicks do not collide, no handler follows a null pointer.
THEOREM NeverCrashes == CalmSpec => []NoCrash
<1>1. IInv => NoCrash
  BY DEF IInv
<1> QED
  BY <1>1, Invariance, PTL

\* While nicks do not collide, a handler's record outlives its loop.
THEOREM HeldUserStaysLive == CalmSpec => []HeldUserLive
<1>1. IInv => HeldUserLive
  BY DEF IInv
<1> QED
  BY <1>1, Invariance, PTL

\* While nicks do not collide, GetUser's first match is the only match.
THEOREM NicksStayUnique == CalmSpec => []NickUnique
<1>1. IInv => NickUnique
  BY DEF IInv
<1> QED
  BY <1>1, Invariance, PTL

\* While nicks do not collide, the bot never tracks itself.
THEOREM NeverTracksSelf == CalmSpec => []SelfUntracked
<1>1. IInv => SelfUntracked
  BY DEF IInv
<1> QED
  BY <1>1, Invariance, PTL

-----------------------------------------------------------------------------
(* The table the lists stand for *)

\* A list of live records holds a nick as often as the record that has it.
LEMMA OftenIsCount ==
    ASSUME ListsInv, NEW s, \A i \in DOMAIN s : s[i] \in Live
    PROVE  /\ \A u \in Live :
                 Cardinality({i \in DOMAIN s : nick[s[i]] = nick[u]}) = Count(s, u)
           /\ \A n : n \notin Names => Cardinality({i \in DOMAIN s : nick[s[i]] = n}) = 0
<1>1. ASSUME NEW u \in Live
      PROVE  Cardinality({i \in DOMAIN s : nick[s[i]] = nick[u]}) = Count(s, u)
  <2>1. \A i \in DOMAIN s : nick[s[i]] = nick[u] <=> s[i] = u
    BY OneOfAName DEF Live
  <2>2. {i \in DOMAIN s : nick[s[i]] = nick[u]} = {i \in DOMAIN s : s[i] = u}
    BY <2>1
  <2> QED
    BY <2>2 DEF Count
<1>2. ASSUME NEW n, n \notin Names
      PROVE  Cardinality({i \in DOMAIN s : nick[s[i]] = n}) = 0
  <2>1. {i \in DOMAIN s : nick[s[i]] = n} = {}
    BY <1>2 DEF Names
  <2> QED
    BY <2>1, FS_EmptySet
<1> QED
  BY <1>1, <1>2

\* The same of a channel.
LEMMA ChannelOften ==
    ASSUME ListsInv, NEW c \in Channel
    PROVE  /\ \A i \in DOMAIN members[c] : members[c][i] \in Live
           /\ \A u \in Live : Often(c, nick[u]) = Count(members[c], u)
           /\ \A n : n \notin Names => Often(c, n) = 0
<1>1. \A i \in DOMAIN members[c] : members[c][i] \in Live
  BY MemberIsLinked
<1> QED
  BY <1>1, OftenIsCount DEF Often

\* Somebody who is added is listed once more; nothing else changes.
LEMMA AddUserOften ==
    ASSUME ListsInv, NEW n \in Nick, NEW c \in Channel, AddUserToChannel(n, c), UNCHANGED me
    PROVE  \/ n = me /\ UNCHANGED <<users, links>>
           \/ /\ n # me
              /\ Names' = Names \cup {n}
              /\ clist' = clist \cup {c}
              /\ \A d \in Channel, m \in Nick :
                    Often(d, m)' = IF d = c /\ m = n THEN Often(d, m) + 1 ELSE Often(d, m)
<1>0. /\ NodesOf(c) = members[c]
      /\ members \in [Channel -> Seq(UserId)]
      /\ nick \in [UserId -> Nick \cup {NoNick}]
      /\ Live \subseteq UserId
  BY OneOfAName DEF NodesOf, ListsInv, ListsOK, Released
<1>2. ASSUME NEW u \in UserId, nick'[u] = n, Live' = Live \cup {u},
             \A w \in Live : w # u => nick'[w] = nick[w] /\ nick[w] # n,
             u \in Live => nick[u] = n,
             LinkUserToChannel(u, chans[u], c)
      PROVE  /\ Names' = Names \cup {n}
             /\ clist' = clist \cup {c}
             /\ \A d \in Channel, m \in Nick :
                   Often(d, m)' = IF d = c /\ m = n THEN Often(d, m) + 1 ELSE Often(d, m)
  <2>1. members' = [members EXCEPT ![c] = Append(members[c], u)] /\ clist' = clist \cup {c}
    BY <1>0, <1>2 DEF LinkUserToChannel
  <2>2. \A d \in Channel : members'[d] = IF d = c THEN Append(members[c], u) ELSE members[d]
    BY <1>0, <2>1
  <2>3. Names' = Names \cup {n}
    BY <1>2 DEF Names
  <2>4. ASSUME NEW d \in Channel
        PROVE  /\ \A i \in DOMAIN members[d] : i \in DOMAIN members'[d] /\ members'[d][i] = members[d][i]
               /\ \A i \in DOMAIN members'[d] :
                     (i \in DOMAIN members[d] /\ members'[d][i] = members[d][i]) \/ members'[d][i] = u
    <3>1. /\ Len(members[c]) \in Nat
          /\ DOMAIN members[c] = 1 .. Len(members[c])
          /\ DOMAIN members'[c] = 1 .. (Len(members[c]) + 1)
          /\ \A i \in DOMAIN members[c] : members'[c][i] = members[c][i]
          /\ members'[c][Len(members[c]) + 1] = u
      <4>1. members[c] \in Seq(UserId) /\ members'[c] = Append(members[c], u)
        BY <1>0, <2>2
      <4> QED
        BY <4>1, QueueAppend
    <3>2. \A i \in DOMAIN members[c] : i \in DOMAIN members'[c]
      BY <3>1
    <3>3. \A i \in DOMAIN members'[c] : i \in DOMAIN members[c] \/ i = Len(members[c]) + 1
      BY <3>1
    <3>4. CASE d = c
      BY <3>1, <3>2, <3>3, <3>4
    <3>5. CASE d # c
      BY <2>2, <3>5
    <3> QED
      BY <3>4, <3>5
  <2>5. ASSUME NEW d \in Channel
        PROVE  Often(d, n)' = IF d = c THEN Often(d, n) + 1 ELSE Often(d, n)
    <3>1. \A i \in DOMAIN members[d] : members[d][i] \in Live
      BY ChannelOften
    <3>2. Often(d, n) = Count(members[d], u)
      <4>1. {i \in DOMAIN members[d] : nick[members[d][i]] = n} = {i \in DOMAIN members[d] : members[d][i] = u}
        BY <1>2, <3>1
      <4> QED
        BY <4>1 DEF Often, Count
    <3>3. \A i \in DOMAIN members'[d] : members'[d][i] \in Live \cup {u}
      BY <2>4, <3>1
    <3>4. Often(d, n)' = Count(members'[d], u)
      <4>1. {i \in DOMAIN members'[d] : nick'[members'[d][i]] = n} = {i \in DOMAIN members'[d] : members'[d][i] = u}
        BY <1>2, <3>3
      <4> QED
        BY <4>1 DEF Often, Count
    <3> QED
      BY <1>0, <2>2, <3>2, <3>4, CountAppend
  <2>6. ASSUME NEW d \in Channel, NEW m \in Nick, m # n
        PROVE  Often(d, m)' = Often(d, m)
    <3>1. \A i \in DOMAIN members[d] : members[d][i] \in Live
      BY ChannelOften
    <3>2. {i \in DOMAIN members'[d] : nick'[members'[d][i]] = m} = {i \in DOMAIN members[d] : nick[members[d][i]] = m}
      BY <1>2, <2>6, <2>4, <3>1
    <3> QED
      BY <3>2 DEF Often
  <2> QED
    BY <2>1, <2>3, <2>5, <2>6
<1>3. ASSUME NEW i \in DOMAIN ulist, n # me, FirstNamed(ulist, i, n), UNCHANGED users,
             LinkUserToChannel(ulist[i], chans[ulist[i]], c)
      PROVE  \E u \in UserId :
                /\ nick'[u] = n /\ Live' = Live \cup {u}
                /\ \A w \in Live : w # u => nick'[w] = nick[w] /\ nick[w] # n
                /\ u \in Live => nick[u] = n
                /\ LinkUserToChannel(u, chans[u], c)
  <2>1. ulist[i] \in Live /\ nick[ulist[i]] = n
    BY <1>3 DEF FirstNamed, Live
  <2>2. Live' = Live /\ UNCHANGED nick
    BY <1>3 DEF Live, users
  <2>3. \A w \in Live : w # ulist[i] => nick[w] # n
    BY <2>1, OneOfAName
  <2> QED
    BY <1>0, <1>3, <2>1, <2>2, <2>3
<1>4. ASSUME NEW u \in UserId, n # me, NoneNamed(ulist, n), CreateUser(u, n),
             LinkUserToChannel(u, << >>, c)
      PROVE  /\ nick'[u] = n /\ Live' = Live \cup {u}
             /\ \A w \in Live : w # u => nick'[w] = nick[w] /\ nick[w] # n
             /\ u \in Live => nick[u] = n
             /\ LinkUserToChannel(u, chans[u], c)
  <2>1. u \notin Live /\ nick' = [nick EXCEPT ![u] = n]
    BY <1>4 DEF CreateUser
  <2>2. chans[u] = << >>
    BY <2>1 DEF ListsInv, Released
  <2>3. \A w \in Live : nick[w] # n
    BY <1>4 DEF NoneNamed, Live
  <2>4. Live' = Live \cup {u}
    BY <1>4, CreateUserInv
  <2> QED
    BY <1>0, <1>4, <2>1, <2>2, <2>3, <2>4
<1> QED
  BY <1>2, <1>3, <1>4 DEF AddUserToChannel

\* Somebody who is unlinked is listed once less; nothing else changes.
LEMMA UnlinkOften ==
    ASSUME ListsInv, NEW n, NEW c \in Channel, NEW next,
           DelUserFromChannel(n, c, next), UNCHANGED <<me, users, clist>>
    PROVE  /\ frame' = next
           /\ Names' = Names
           /\ \/ UNCHANGED members /\ (n \in Nick => Often(c, n) = 0)
              \/ /\ n \in Names /\ Often(c, n) \in Nat \ {0}
                 /\ \A d \in Channel, m \in Nick :
                       Often(d, m)' = IF d = c /\ m = n THEN Often(d, m) - 1 ELSE Often(d, m)
<1>0. /\ frame' = next /\ ListsInv'
      /\ members \in [Channel -> Seq(UserId)]
      /\ Live' = Live /\ nick' = nick /\ Names' = Names
  BY DelUserFromChannelInv DEF ListsInv, ListsOK, users, Live, Names
<1> SUFFICES ASSUME NEW i \in DOMAIN members[c], FirstNamed(members[c], i, n),
                    members' = [members EXCEPT ![c] = RemoveAt(members[c], i)]
             PROVE  /\ n \in Names /\ Often(c, n) \in Nat \ {0}
                    /\ \A d \in Channel, m \in Nick :
                          Often(d, m)' = IF d = c /\ m = n THEN Often(d, m) - 1 ELSE Often(d, m)
  <2>1. n = me => n \notin Names
    BY DEF ListsInv, SelfUntracked, Names
  <2>2. n \notin Names => Often(c, n) = 0
    BY ChannelOften
  <2>3. c \notin clist \/ NoneNamed(members[c], n) => Often(c, n) = 0
    <3>1. c \notin clist => members[c] = << >>
      BY DEF ListsInv, Released
    <3>2. c \notin clist \/ NoneNamed(members[c], n) =>
             {i \in DOMAIN members[c] : nick[members[c][i]] = n} = {}
      BY <3>1, EmptySeq DEF NoneNamed
    <3> QED
      BY <3>2, FS_EmptySet DEF Often
  <2> QED
    BY <1>0, <2>1, <2>2, <2>3 DEF DelUserFromChannel
<1> DEFINE u == members[c][i]
<1>1. /\ u \in Live /\ nick[u] = n
      /\ \A d \in Channel : members'[d] = IF d = c THEN RemoveAt(members[c], i) ELSE members[d]
  BY <1>0, MemberIsLinked DEF FirstNamed
<1>2. n \in Names /\ Often(c, n) = Count(members[c], u)
  BY <1>1, ChannelOften DEF Names
<1>3. Count(members[c], u) \in Nat \ {0}
  <2>1. members[c] \in Seq(UserId) /\ ~Absent(members[c], u)
    BY <1>0 DEF Absent
  <2> QED
    BY <2>1, CountNat, CountZero
<1>4. \A d \in Channel : \A j \in DOMAIN members'[d] : members'[d][j] \in Live
  <2>1. \A j \in DOMAIN RemoveAt(members[c], i) : \E k \in DOMAIN members[c] : RemoveAt(members[c], i)[j] = members[c][k]
    <3>1. /\ Len(members[c]) \in Nat /\ DOMAIN members[c] = 1 .. Len(members[c])
          /\ DOMAIN RemoveAt(members[c], i) = 1 .. (Len(members[c]) - 1)
          /\ \A j \in 1 .. (Len(members[c]) - 1) :
                RemoveAt(members[c], i)[j] = IF j < i THEN members[c][j] ELSE members[c][j + 1]
      BY <1>0, RemoveAtShape, LenProperties
    <3> QED
      BY <3>1
  <2> QED
    BY <1>1, <2>1, ChannelOften
<1>5. ASSUME NEW d \in Channel, NEW m \in Nick, m \notin Names
      PROVE  Often(d, m)' = Often(d, m)
  <2>1. Often(d, m) = 0
    BY <1>5, ChannelOften
  <2>2. Cardinality({j \in DOMAIN members'[d] : nick[members'[d][j]] = m}) = 0
    BY <1>4, <1>5, OftenIsCount
  <2> QED
    BY <1>0, <2>1, <2>2 DEF Often
<1>6. ASSUME NEW d \in Channel, NEW w \in Live
      PROVE  Often(d, nick[w])' = IF d = c /\ w = u THEN Often(d, nick[w]) - 1 ELSE Often(d, nick[w])
  <2>1. Often(d, nick[w]) = Count(members[d], w)
    BY ChannelOften
  <2>2. Cardinality({j \in DOMAIN members'[d] : nick[members'[d][j]] = nick[w]}) = Count(members'[d], w)
    BY <1>4, OftenIsCount
  <2>3. Often(d, nick[w])' = Count(members'[d], w)
    BY <1>0, <2>2 DEF Often
  <2>4. Count(RemoveAt(members[c], i), w) = IF w = u THEN Count(members[c], w) - 1 ELSE Count(members[c], w)
    BY <1>0, CountRemove
  <2> QED
    BY <1>1, <2>1, <2>3, <2>4
<1>7. \A w \in Live : nick[w] = n => w = u
  BY <1>1, OneOfAName DEF Live
<1>8. ASSUME NEW d \in Channel, NEW m \in Nick
      PROVE  Often(d, m)' = IF d = c /\ m = n THEN Often(d, m) - 1 ELSE Often(d, m)
  <2>1. CASE m \notin Names
    BY <1>2, <1>5, <2>1
  <2>2. CASE m \in Names
    <3>1. PICK w \in Live : nick[w] = m
      BY <2>2 DEF Names
    <3>2. Often(d, m)' = Often(d, nick[w])'
      BY <1>0, <3>1 DEF Often
    <3> QED
      BY <1>1, <1>6, <1>7, <3>1, <3>2
  <2> QED
    BY <2>1, <2>2
<1> QED
  BY <1>2, <1>3, <1>8

\* A record that hangs from no channel goes with its nick and nothing else.
LEMMA DelUserOften ==
    ASSUME ListsInv, NEW u \in UserId, DelUser(u), chans[u] = << >>, UNCHANGED <<me, links>>
    PROVE  /\ u \in Live /\ Names' = Names \ {nick[u]}
           /\ \A d \in Channel : Often(d, nick[u]) = 0
           /\ \A d \in Channel, m \in Nick : Often(d, m)' = Often(d, m)
<1>1. u \in Live /\ Live' = Live \ {u}
  BY DelUserInv DEF DelUser, FirstAt, Live
<1>2. /\ \A w \in Live : w \in UserId
      /\ \A w \in UserId \ {u} : nick'[w] = nick[w]
      /\ UNCHANGED members
  BY OneOfAName DEF DelUser, ListsInv, ListsOK, links
<1>3. \A w \in Live : nick[w] = nick[u] => w = u
  BY <1>1, OneOfAName DEF Live
<1>4. Names' = Names \ {nick[u]}
  BY <1>1, <1>2, <1>3 DEF Names
<1>5. ASSUME NEW d \in Channel, NEW i \in DOMAIN members[d]
      PROVE  members[d][i] \in Live \ {u}
  <2>1. Count(members[d], u) = 0 /\ members[d] \in Seq(UserId)
    <3>1. Count(members[d], u) = Count(chans[u], d) /\ members[d] \in Seq(UserId)
      BY DEF ListsInv, LinksAgree, ListsOK
    <3>2. << >> \in Seq(Channel) /\ Absent(<< >>, d)
      BY EmptySeq DEF Absent
    <3> QED
      BY <3>1, <3>2, CountZero
  <2>2. members[d][i] # u
    BY <2>1, CountZero DEF Absent
  <2> QED
    BY <2>2, ChannelOften
<1>6. ASSUME NEW d \in Channel, NEW m
      PROVE  Often(d, m)' = Often(d, m)
  <2>1. {i \in DOMAIN members[d] : nick'[members[d][i]] = m} = {i \in DOMAIN members[d] : nick[members[d][i]] = m}
    BY <1>2, <1>5
  <2> QED
    BY <1>2, <2>1 DEF Often
<1>7. ASSUME NEW d \in Channel
      PROVE  Often(d, nick[u]) = 0
  <2>1. {i \in DOMAIN members[d] : nick[members[d][i]] = nick[u]} = {}
    BY <1>3, <1>5
  <2> QED
    BY <2>1, FS_EmptySet DEF Often
<1> QED
  BY <1>1, <1>4, <1>6, <1>7

\* Lists and nicks that stay mean what they meant.
LEMMA OftenKept ==
    ASSUME UNCHANGED <<ulist, nick, members>>
    PROVE  /\ Names' = Names
           /\ \A c, n : Often(c, n)' = Often(c, n)
<1>1. Live' = Live
  BY DEF Live
<1> QED
  BY <1>1 DEF Names, Often

\* Somebody takes his place on every list with him to his new nick.
LEMMA RenameOften ==
    ASSUME ListsInv, NEW n \in Nick, NEW new \in Nick, NoneNamed(ulist, new), RenameUser(n, new),
           UNCHANGED <<me, ulist, members>>
    PROVE  \/ UNCHANGED nick /\ (new = me \/ n \notin Names)
           \/ /\ new # me
              /\ n \in Names /\ new \notin Names /\ n # new
              /\ Names' = (Names \ {n}) \cup {new}
              /\ \A d \in Channel, m \in Nick :
                    Often(d, m)' = IF m = n THEN 0 ELSE IF m = new THEN Often(d, n) ELSE Often(d, m)
<1> SUFFICES ASSUME NEW i \in DOMAIN ulist, FirstNamed(ulist, i, n),
                    nick' = [nick EXCEPT ![ulist[i]] = new]
             PROVE  /\ n \in Names /\ new \notin Names /\ n # new
                    /\ Names' = (Names \ {n}) \cup {new}
                    /\ \A d \in Channel, m \in Nick :
                          Often(d, m)' = IF m = n THEN 0 ELSE IF m = new THEN Often(d, n) ELSE Often(d, m)
  <2>1. NoneNamed(ulist, n) => n \notin Names
    BY DEF NoneNamed, Names, Live
  <2> QED
    BY <2>1 DEF RenameUser
<1> DEFINE u == ulist[i]
<1>1. u \in Live /\ nick[u] = n
  BY DEF FirstNamed, Live
<1>2. /\ n \in Names /\ new \notin Names /\ n # new
      /\ \A w \in Live : w \in UserId /\ (nick[w] = n => w = u)
      /\ nick \in [UserId -> Nick \cup {NoNick}]
      /\ Live' = Live /\ members' = members
  BY <1>1, OneOfAName DEF NoneNamed, Names, Live, ListsInv, ListsOK
<1>3. \A w \in Live : nick'[w] = IF w = u THEN new ELSE nick[w]
  BY <1>1, <1>2
<1>4. Names' = (Names \ {n}) \cup {new}
  BY <1>1, <1>2, <1>3 DEF Names
<1>5. ASSUME NEW d \in Channel, NEW m \in Nick
      PROVE  Often(d, m)' = IF m = n THEN 0 ELSE IF m = new THEN Often(d, n) ELSE Often(d, m)
  <2>1. \A j \in DOMAIN members[d] : members[d][j] \in Live
    BY ChannelOften
  <2>2. \A j \in DOMAIN members[d] : /\ nick'[members[d][j]] # n
                                     /\ nick[members[d][j]] # new
                                     /\ nick'[members[d][j]] = new <=> nick[members[d][j]] = n
                                     /\ m # n /\ m # new =>
                                          (nick'[members[d][j]] = m <=> nick[members[d][j]] = m)
    BY <1>1, <1>2, <1>3, <2>1 DEF Names
  <2>3. CASE m = n
    <3>1. {j \in DOMAIN members[d] : nick'[members[d][j]] = m} = {}
      BY <2>2, <2>3
    <3> QED
      BY <1>2, <2>3, <3>1, FS_EmptySet DEF Often
  <2>4. CASE m = new
    <3>1. {j \in DOMAIN members[d] : nick'[members[d][j]] = m} = {j \in DOMAIN members[d] : nick[members[d][j]] = n}
      BY <2>2, <2>4
    <3> QED
      BY <1>2, <2>4, <3>1 DEF Often
  <2>5. CASE m # n /\ m # new
    <3>1. {j \in DOMAIN members[d] : nick'[members[d][j]] = m} = {j \in DOMAIN members[d] : nick[members[d][j]] = m}
      BY <2>2, <2>5
    <3> QED
      BY <1>2, <2>5, <3>1 DEF Often
  <2> QED
    BY <2>3, <2>4, <2>5
<1> QED
  BY <1>2, <1>4, <1>5

\* Somebody who is heard of is known; the lists are as they were.
LEMMA CreateUserOften ==
    ASSUME ListsInv, NEW u \in UserId, NEW n \in Nick, n # me, NoneNamed(ulist, n),
           CreateUser(u, n), UNCHANGED <<me, links>>
    PROVE  /\ n \notin Names /\ Names' = Names \cup {n}
           /\ \A d \in Channel, m \in Nick : Often(d, m)' = Often(d, m)
<1>1. /\ u \notin Live /\ Live' = Live \cup {u}
      /\ \A w \in Live : w \in UserId /\ nick'[w] = nick[w] /\ nick[w] # n
      /\ nick'[u] = n /\ members' = members
  <2>1. u \notin Live /\ Live' = Live \cup {u}
    BY CreateUserInv
  <2> QED
    BY <2>1, OneOfAName DEF CreateUser, ListsInv, ListsOK, NoneNamed, Live, links
<1>2. n \notin Names /\ Names' = Names \cup {n}
  BY <1>1 DEF Names
<1>3. ASSUME NEW d \in Channel, NEW m \in Nick
      PROVE  Often(d, m)' = Often(d, m)
  <2>1. \A j \in DOMAIN members[d] : members[d][j] \in Live
    BY ChannelOften
  <2>2. {j \in DOMAIN members[d] : nick'[members[d][j]] = m} = {j \in DOMAIN members[d] : nick[members[d][j]] = m}
    BY <1>1, <2>1
  <2> QED
    BY <1>1, <2>2 DEF Often
<1> QED
  BY <1>2, <1>3

-----------------------------------------------------------------------------
(* The events *)

\* No loop is on its way that takes somebody, or a channel, off the lists.
Whole == frame.op \notin {"quit", "delchan"}

Table == [c \in Channel |-> [n \in Nick |-> Often(c, n)]]

\* Between two such loops the table is what the lists say.
LEMMA WholeTable ==
    /\ Whole => Leaving = {} /\ Closing = {} /\ Listings = Table
    /\ Whole' => Leaving' = {} /\ Closing' = {} /\ Listings' = Table'
BY DEF Whole, Leaving, Closing, Listings, Table

\* What must hold for a step to be no event.
LEMMA NoEvent ==
    ASSUME Names' \ Leaving' = Names \ Leaving, clist' \ Closing' = clist \ Closing,
           \A d \in Channel, m \in Nick : Listings'[d][m] = Listings[d][m]
    PROVE  UNCHANGED M!vars
<1>1. Listings' = Listings
  BY DEF Listings
<1> QED
  BY <1>1 DEF M!vars

\* An entry of the table.
LEMMA Entry ==
    \A c \in Channel, n \in Nick :
       /\ Listings[c][n] = IF c \in Closing \/ n \in Leaving THEN 0 ELSE Often(c, n)
       /\ Listings'[c][n] = IF c \in Closing' \/ n \in Leaving' THEN 0 ELSE Often(c, n)'
BY DEF Listings

\* What a step between two loops shows of the table.
LEMMA WholeStep ==
    ASSUME Whole, Whole'
    PROVE  /\ Names \ Leaving = Names /\ Names' \ Leaving' = Names'
           /\ clist \ Closing = clist /\ clist' \ Closing' = clist'
           /\ \A c \in Channel, n \in Nick : Listings[c][n] = Often(c, n) /\ Listings'[c][n] = Often(c, n)'
BY Entry, WholeTable

\* A table in which one entry has changed.
LEMMA SetEntry ==
    ASSUME NEW f, NEW g, NEW x, NEW c \in Channel, NEW n \in Nick,
           f = [d \in Channel |-> [m \in Nick |-> f[d][m]]],
           g = [d \in Channel |-> [m \in Nick |-> g[d][m]]],
           \A d \in Channel, m \in Nick : g[d][m] = IF d = c /\ m = n THEN x ELSE f[d][m]
    PROVE  g = [f EXCEPT ![c][n] = x]
<1> DEFINE row(h, d) == [m \in Nick |-> h[d][m]]
<1>1. row(g, c) = [row(f, c) EXCEPT ![n] = x]
  OBVIOUS
<1>2. \A d \in Channel \ {c} : row(g, d) = row(f, d)
  OBVIOUS
<1>3. \A d \in Channel : f[d] = row(f, d) /\ g[d] = row(g, d)
  OBVIOUS
<1>4. g[c] = [f[c] EXCEPT ![n] = x]
  BY <1>1, <1>3
<1>5. g = [d \in Channel |-> g[d]] /\ f = [d \in Channel |-> f[d]]
  OBVIOUS
<1>6. \A d \in Channel \ {c} : g[d] = f[d]
  BY <1>2, <1>3
<1>7. c \in Channel
  OBVIOUS
<1> HIDE DEF row
<1> QED
  BY ONLY <1>4, <1>5, <1>6, <1>7

\* A table in which two entries of every row have changed.
LEMMA SetTwoColumns ==
    ASSUME NEW f, NEW g, NEW n \in Nick, NEW k \in Nick, k # n,
           f = [d \in Channel |-> [m \in Nick |-> f[d][m]]],
           g = [d \in Channel |-> [m \in Nick |-> g[d][m]]],
           \A d \in Channel, m \in Nick :
              g[d][m] = IF m = n THEN 0 ELSE IF m = k THEN f[d][n] ELSE f[d][m]
    PROVE  g = [d \in Channel |-> [f[d] EXCEPT ![k] = f[d][n], ![n] = 0]]
<1>1. ASSUME NEW d \in Channel
      PROVE  g[d] = [f[d] EXCEPT ![k] = f[d][n], ![n] = 0]
  <2>1. f[d] = [m \in Nick |-> f[d][m]] /\ g[d] = [m \in Nick |-> g[d][m]]
    OBVIOUS
  <2> QED
    BY <2>1
<1>2. g = [d \in Channel |-> g[d]]
  OBVIOUS
<1> QED
  BY <1>1, <1>2

\* The table is one.
LEMMA ListingsForm ==
    /\ Listings = [d \in Channel |-> [m \in Nick |-> Listings[d][m]]]
    /\ Listings' = [d \in Channel |-> [m \in Nick |-> Listings'[d][m]]]
BY DEF Listings

\* Somebody is added to a channel, by a JOIN or from a list of names.
LEMMA AddUserEvent ==
    ASSUME ListsInv, NEW n \in Nick, NEW c \in Channel, AddUserToChannel(n, c), UNCHANGED me,
           Whole, Whole'
    PROVE  Makes(n # me, M!Come(n, c))
<1>0. /\ Names \ Leaving = Names /\ Names' \ Leaving' = Names'
      /\ clist \ Closing = clist /\ clist' \ Closing' = clist'
      /\ \A d \in Channel, m \in Nick : Listings[d][m] = Often(d, m) /\ Listings'[d][m] = Often(d, m)'
  BY WholeStep
<1>1. CASE n = me /\ UNCHANGED <<users, links>>
  <2>1. Names' = Names /\ clist' = clist /\ \A d, m : Often(d, m)' = Often(d, m)
    BY <1>1, OftenKept DEF users, links
  <2> QED
    BY <1>0, <1>1, <2>1, NoEvent DEF Makes
<1>2. CASE /\ n # me
           /\ Names' = Names \cup {n}
           /\ clist' = clist \cup {c}
           /\ \A d \in Channel, m \in Nick :
                 Often(d, m)' = IF d = c /\ m = n THEN Often(d, m) + 1 ELSE Often(d, m)
  <2>1. \A d \in Channel, m \in Nick :
           Listings'[d][m] = IF d = c /\ m = n THEN Listings[d][m] + 1 ELSE Listings[d][m]
    BY <1>0, <1>2
  <2>2. Listings' = [Listings EXCEPT ![c][n] = Listings[c][n] + 1]
    BY <2>1, ListingsForm, SetEntry
  <2> QED
    BY <1>0, <1>2, <2>2 DEF M!Come, Makes
<1> QED
  BY <1>1, <1>2, AddUserOften

\* Somebody is taken off a channel, by a PART or a KICK.
LEMMA UnlinkEvent ==
    ASSUME ListsInv, NEW n \in Nick, NEW c \in Channel,
           DelUserFromChannel(n, c, Idle), UNCHANGED <<me, users, clist>>, Whole
    PROVE  Makes(Listings[c][n] > 0, M!Leave(n, c))
<1>1. /\ frame' = Idle /\ Names' = Names
      /\ \/ UNCHANGED members /\ (n \in Nick => Often(c, n) = 0)
         \/ /\ n \in Names /\ Often(c, n) \in Nat \ {0}
            /\ \A d \in Channel, m \in Nick :
                  Often(d, m)' = IF d = c /\ m = n THEN Often(d, m) - 1 ELSE Often(d, m)
  BY UnlinkOften
<1>2. Whole'
  BY <1>1 DEF Whole, Idle
<1>0. /\ Names \ Leaving = Names /\ Names' \ Leaving' = Names'
      /\ clist \ Closing = clist /\ clist' \ Closing' = clist'
      /\ \A d \in Channel, m \in Nick : Listings[d][m] = Often(d, m) /\ Listings'[d][m] = Often(d, m)'
  BY <1>2, WholeStep
<1>3. CASE UNCHANGED members /\ Often(c, n) = 0
  <2>1. \A d, m : Often(d, m)' = Often(d, m)
    BY <1>3, OftenKept DEF users
  <2> QED
    BY <1>0, <1>1, <1>3, <2>1, NoEvent DEF Makes
<1>4. CASE /\ Often(c, n) \in Nat \ {0}
           /\ \A d \in Channel, m \in Nick :
                 Often(d, m)' = IF d = c /\ m = n THEN Often(d, m) - 1 ELSE Often(d, m)
  <2>1. \A d \in Channel, m \in Nick :
           Listings'[d][m] = IF d = c /\ m = n THEN Listings[d][m] - 1 ELSE Listings[d][m]
    BY <1>0, <1>4
  <2>2. Listings' = [Listings EXCEPT ![c][n] = Listings[c][n] - 1]
    BY <2>1, ListingsForm, SetEntry
  <2>3. Listings[c][n] > 0
    BY <1>0, <1>4
  <2> QED
    BY <1>0, <1>1, <2>2, <2>3 DEF M!Leave, Makes
<1> QED
  BY <1>1, <1>3, <1>4

\* A turn of the loop in QuitUser or DelChannel changes what its user, or its
\* channel, has in the table.
LEMMA TurnOften ==
    ASSUME ListsInv, NEW STATE n, NEW STATE c, c \in Channel,
           DelUserFromChannel(n, c, frame), UNCHANGED <<me, users, clist>>
    PROVE  /\ frame' = frame /\ Names' = Names
           /\ \A d \in Channel, m \in Nick : d # c \/ m # n => Often(d, m)' = Often(d, m)
<1>1. PICK x, y, z : x = n /\ y = c /\ z = frame
  OBVIOUS
<1>2. y \in Channel /\ DelUserFromChannel(x, y, z)
  BY <1>1
<1>3. /\ frame' = z /\ Names' = Names
      /\ \/ UNCHANGED members /\ (x \in Nick => Often(y, x) = 0)
         \/ /\ x \in Names /\ Often(y, x) \in Nat \ {0}
            /\ \A d \in Channel, m \in Nick :
                  Often(d, m)' = IF d = y /\ m = x THEN Often(d, m) - 1 ELSE Often(d, m)
  BY <1>2, UnlinkOften
<1>4. CASE UNCHANGED members
  <2>1. \A d, m : Often(d, m)' = Often(d, m)
    BY <1>4, OftenKept DEF users
  <2> QED
    BY <1>1, <1>3, <2>1
<1>5. CASE \A d \in Channel, m \in Nick :
              Often(d, m)' = IF d = y /\ m = x THEN Often(d, m) - 1 ELSE Often(d, m)
  BY <1>1, <1>3, <1>5
<1> QED
  BY <1>3, <1>4, <1>5

\* The whole of QuitUser is one event, the first: from then on he is gone.
LEMMA QuitEvent ==
    ASSUME NEW n \in Nick, sm_quit(n)
    PROVE  Makes(n \in Names, M!Quit(n))
<1>1. /\ Names' = Names /\ clist' = clist /\ nick' = nick
      /\ \A d, m : Often(d, m)' = Often(d, m)
  BY OftenKept DEF sm_quit, users, links
<1>2. Whole
  BY DEF sm_quit, Whole, Idle
<1>3. CASE NoneNamed(ulist, n) /\ UNCHANGED frame
  <2>1. Whole' /\ n \notin Names
    BY <1>2, <1>3 DEF Whole, NoneNamed, Names, Live
  <2> QED
    BY <1>1, <1>2, <2>1, WholeStep, NoEvent DEF Makes
<1>4. ASSUME NEW i \in DOMAIN ulist, FirstNamed(ulist, i, n), frame' = [op |-> "quit", user |-> ulist[i]]
      PROVE  Makes(n \in Names, M!Quit(n))
  <2>1. Leaving' = {n} /\ Closing' = {}
    BY <1>1, <1>4 DEF Leaving, Closing, FirstNamed
  <2>2. n \in Names
    BY <1>4 DEF FirstNamed, Names, Live
  <2>3. Leaving = {} /\ Closing = {}
    BY <1>2, WholeTable
  <2>4. \A d \in Channel, m \in Nick : Listings'[d][m] = IF m = n THEN 0 ELSE Listings[d][m]
    BY <1>1, <2>1, <2>3, Entry
  <2>5. Listings' = [d \in Channel |-> [Listings[d] EXCEPT ![n] = 0]]
    BY <2>4 DEF Listings
  <2> QED
    BY <1>1, <2>1, <2>2, <2>3, <2>5 DEF M!Quit, Makes
<1> QED
  BY <1>3, <1>4 DEF sm_quit

\* The turns of QuitUser's loop, and its end, are no events any more.
LEMMA QuitStepEvent ==
    ASSUME IInv, Names \subseteq Nick, QuitStep
    PROVE  UNCHANGED M!vars /\ Names' \subseteq Nick
<1>0. /\ ListsInv /\ frame.op = "quit" /\ frame.user \in UserId /\ frame.user \in Live
      /\ Leaving = {nick[frame.user]} /\ Closing = {}
      /\ nick[frame.user] \in Names
  BY DEF QuitStep, Frame, Idle, Crashed, IInv, HeldUserLive, TypeOK, ListsInv, ListsOK, Leaving, Closing, Names
<1>1. CASE chans[frame.user] # << >>
  <2>1. Head(chans[frame.user]) \in Channel
    BY <1>0, <1>1, HeadTailProperties DEF ListsInv, ListsOK
  <2>2. /\ DelUserFromChannel(nick[frame.user], Head(chans[frame.user]), frame)
        /\ UNCHANGED <<me, users, clist>>
    BY <1>1 DEF QuitStep
  <2>3. /\ frame' = frame /\ Names' = Names /\ nick' = nick
        /\ \A d \in Channel, m \in Nick : m # nick[frame.user] => Often(d, m)' = Often(d, m)
    BY <1>0, <2>1, <2>2, TurnOften DEF users
  <2>4. Leaving' = Leaving /\ Closing' = Closing
    BY <2>3 DEF Leaving, Closing
  <2>5. \A d \in Channel, m \in Nick : Listings'[d][m] = Listings[d][m]
    BY <1>0, <2>3, <2>4, Entry
  <2> QED
    BY <2>2, <2>3, <2>4, <2>5, NoEvent
<1>2. CASE chans[frame.user] = << >>
  <2>1. DelUser(frame.user) /\ frame' = Idle /\ UNCHANGED <<me, links>>
    BY <1>2 DEF QuitStep
  <2>2. /\ Names' = Names \ {nick[frame.user]}
        /\ \A d \in Channel : Often(d, nick[frame.user]) = 0
        /\ \A d \in Channel, m \in Nick : Often(d, m)' = Often(d, m)
    BY <1>0, <1>2, <2>1, DelUserOften
  <2>3. Leaving' = {} /\ Closing' = {} /\ clist' = clist
    BY <2>1 DEF Leaving, Closing, Idle, links
  <2>4. \A d \in Channel, m \in Nick : Listings'[d][m] = Listings[d][m]
    BY <1>0, <2>2, <2>3, Entry
  <2>5. Names' \ Leaving' = Names \ Leaving /\ clist' \ Closing' = clist \ Closing
    BY <1>0, <2>2, <2>3
  <2> QED
    BY <2>2, <2>4, <2>5, NoEvent
<1> QED
  BY <1>1, <1>2

\* Somebody has a new nick.
LEMMA RenameEvent ==
    ASSUME ListsInv, NEW n \in Nick, NEW new \in Nick, Unclaimed(new), sm_nick(n, new),
           Names \subseteq Nick
    PROVE  Makes(n \in Names /\ new # me, M!Rename(n, new)) /\ Names' \subseteq Nick
<1>1. Whole /\ Whole' /\ clist' = clist /\ members' = members /\ ulist' = ulist
  BY DEF sm_nick, Whole, Idle, links
<1>0. /\ Names \ Leaving = Names /\ Names' \ Leaving' = Names'
      /\ clist \ Closing = clist /\ clist' \ Closing' = clist'
      /\ \A d \in Channel, m \in Nick : Listings[d][m] = Often(d, m) /\ Listings'[d][m] = Often(d, m)'
  BY <1>1, WholeStep
<1>2. CASE UNCHANGED nick /\ (new = me \/ n \notin Names)
  <2>1. Names' = Names /\ \A d, m : Often(d, m)' = Often(d, m)
    BY <1>1, <1>2, OftenKept
  <2> QED
    BY <1>0, <1>1, <1>2, <2>1, NoEvent DEF Makes
<1>3. CASE /\ new # me
           /\ n \in Names /\ new \notin Names /\ n # new
           /\ Names' = (Names \ {n}) \cup {new}
           /\ \A d \in Channel, m \in Nick :
                 Often(d, m)' = IF m = n THEN 0 ELSE IF m = new THEN Often(d, n) ELSE Often(d, m)
  <2>2. \A d \in Channel, m \in Nick :
           Listings'[d][m] = IF m = n THEN 0 ELSE IF m = new THEN Listings[d][n] ELSE Listings[d][m]
    BY <1>0, <1>3
  <2>3. Listings' = [d \in Channel |-> [Listings[d] EXCEPT ![new] = Listings[d][n], ![n] = 0]]
    BY <1>3, <2>2, ListingsForm, SetTwoColumns
  <2> QED
    BY <1>0, <1>1, <1>3, <2>3 DEF M!Rename, Makes
<1>4. NoneNamed(ulist, new) /\ RenameUser(n, new) /\ me' = me
  BY DEF sm_nick, Unclaimed
<1> QED
  BY <1>1, <1>2, <1>3, <1>4, RenameOften

\* A record for somebody who is heard of.
LEMMA CreateUserEvent ==
    ASSUME ListsInv, NEW u \in UserId, NEW n \in Nick, n # me, NoneNamed(ulist, n),
           CreateUser(u, n), UNCHANGED <<me, links>>, Whole, Whole', Names \subseteq Nick
    PROVE  M!Meet(n) /\ n \notin Names /\ Names' \subseteq Nick
<1>0. /\ Names \ Leaving = Names /\ Names' \ Leaving' = Names'
      /\ clist \ Closing = clist /\ clist' \ Closing' = clist'
      /\ \A d \in Channel, m \in Nick : Listings[d][m] = Often(d, m) /\ Listings'[d][m] = Often(d, m)'
  BY WholeStep
<1>1. /\ n \notin Names /\ Names' = Names \cup {n}
      /\ \A d \in Channel, m \in Nick : Often(d, m)' = Often(d, m)
  BY CreateUserOften
<1>2. Listings' = Listings
  BY <1>0, <1>1 DEF Listings
<1> QED
  BY <1>0, <1>1, <1>2 DEF M!Meet, links

\* Somebody writes to the bot, or a 302 tells who he is.
LEMMA SpeakEvent ==
    ASSUME ListsInv, NEW n \in Nick, sm_privmsg(n) \/ numeric_userhost(n), Names \subseteq Nick
    PROVE  Makes(n # me /\ n \notin Names, M!Meet(n)) /\ Names' \subseteq Nick
<1>1. /\ Whole /\ Whole' /\ UNCHANGED <<me, links>>
      /\ \/ n = me /\ UNCHANGED <<ulist, nick>>
         \/ (\E i \in DOMAIN ulist : FirstNamed(ulist, i, n)) /\ UNCHANGED <<ulist, nick>>
         \/ \E u \in UserId : n # me /\ NoneNamed(ulist, n) /\ CreateUser(u, n)
  BY DEF sm_privmsg, numeric_userhost, Whole, Idle, Crashed, users
<1>2. CASE (n = me \/ \E i \in DOMAIN ulist : FirstNamed(ulist, i, n)) /\ UNCHANGED <<ulist, nick>>
  <2>1. Names' = Names /\ clist' = clist /\ \A d, m : Often(d, m)' = Often(d, m)
    BY <1>1, <1>2, OftenKept DEF links
  <2>2. n = me \/ n \in Names
    BY <1>2 DEF FirstNamed, Names, Live
  <2> QED
    BY <1>1, <2>1, <2>2, WholeStep, NoEvent DEF Makes
<1>3. ASSUME NEW u \in UserId, n # me, NoneNamed(ulist, n), CreateUser(u, n)
      PROVE  Makes(n # me /\ n \notin Names, M!Meet(n)) /\ Names' \subseteq Nick
  BY <1>1, <1>3, CreateUserEvent DEF Makes
<1> QED
  BY <1>1, <1>2, <1>3

\* Handlers that touch no list are no events.
LEMMA QuietEvent ==
    ASSUME UNCHANGED <<ulist, nick, links>>, Whole, Whole', Names \subseteq Nick
    PROVE  UNCHANGED M!vars /\ Names' \subseteq Nick
<1>1. Names' = Names /\ clist' = clist /\ \A d, m : Often(d, m)' = Often(d, m)
  BY OftenKept DEF links
<1> QED
  BY <1>1, WholeStep, NoEvent

\* A command makes the bot leave a channel: the first step is the event.
LEMMA PartEvent ==
    ASSUME IInv, Names \subseteq Nick, NEW c \in Channel, msg_part(c)
    PROVE  Makes(c \in clist, M!Close(c)) /\ Names' \subseteq Nick
<1>1. /\ Names' = Names /\ clist' = clist
      /\ \A d, m : Often(d, m)' = Often(d, m)
  BY OftenKept DEF msg_part, delete_channel, users, links
<1>2. Whole /\ Leaving = {} /\ Closing = {}
  BY WholeTable DEF msg_part, delete_channel, Whole
<1>3. CASE c \notin clist /\ frame' = Idle
  <2>1. Whole'
    BY <1>3 DEF Whole, Idle
  <2> QED
    BY <1>1, <1>2, <1>3, <2>1, WholeStep, NoEvent DEF Makes
<1>4. CASE c \in clist /\ frame' = [op |-> "delchan", user |-> frame.user, chan |-> c]
  <2>1. Leaving' = {} /\ Closing' = {c}
    BY <1>4 DEF Leaving, Closing
  <2>2. \A d \in Channel, m \in Nick : Listings'[d][m] = IF d = c THEN 0 ELSE Listings[d][m]
    BY <1>1, <1>2, <2>1, Entry
  <2>3. Listings' = [Listings EXCEPT ![c] = [m \in Nick |-> 0]]
    BY <2>2 DEF Listings
  <2> QED
    BY <1>1, <1>2, <1>4, <2>1, <2>3 DEF M!Close, Makes
<1> QED
  BY <1>3, <1>4 DEF msg_part, delete_channel

\* The turns of DelChannel's loop, and its end, are no events any more.
LEMMA DelChannelStepEvent ==
    ASSUME IInv, Names \subseteq Nick, DelChannelStep
    PROVE  UNCHANGED M!vars /\ Names' \subseteq Nick
<1>0. /\ ListsInv /\ frame.op = "delchan" /\ frame.chan \in Channel
      /\ Leaving = {} /\ Closing = {frame.chan}
  BY DEF DelChannelStep, Frame, Idle, Crashed, IInv, TypeOK, ListsInv, ListsOK, Leaving, Closing
<1>1. CASE members[frame.chan] # << >>
  <2>1. /\ DelUserFromChannel(nick[Head(members[frame.chan])], frame.chan, frame)
        /\ UNCHANGED <<me, users, clist>>
    BY <1>1 DEF DelChannelStep
  <2>2. /\ frame' = frame /\ Names' = Names
        /\ \A d \in Channel, m \in Nick : d # frame.chan => Often(d, m)' = Often(d, m)
    BY <1>0, <2>1, TurnOften
  <2>3. Leaving' = Leaving /\ Closing' = Closing
    BY <1>0, <2>2 DEF Leaving, Closing
  <2>4. \A d \in Channel, m \in Nick : Listings'[d][m] = Listings[d][m]
    BY <1>0, <2>2, <2>3, Entry
  <2> QED
    BY <2>1, <2>2, <2>3, <2>4, NoEvent
<1>2. CASE members[frame.chan] = << >>
  <2>1. clist' = clist \ {frame.chan} /\ frame' = Idle /\ UNCHANGED <<members, users>>
    BY <1>2 DEF DelChannelStep
  <2>2. Names' = Names /\ \A d, m : Often(d, m)' = Often(d, m)
    BY <2>1, OftenKept DEF users
  <2>3. Leaving' = {} /\ Closing' = {}
    BY <2>1 DEF Leaving, Closing, Idle
  <2>4. \A m \in Nick : Often(frame.chan, m) = 0
    <3>1. \A m : {i \in DOMAIN members[frame.chan] : nick[members[frame.chan][i]] = m} = {}
      BY <1>2, EmptySeq
    <3> QED
      BY <3>1, FS_EmptySet DEF Often
  <2>5. \A d \in Channel, m \in Nick : Listings'[d][m] = Listings[d][m]
    BY <1>0, <2>2, <2>3, <2>4, Entry
  <2>6. Names' \ Leaving' = Names \ Leaving /\ clist' \ Closing' = clist \ Closing
    BY <1>0, <2>1, <2>2, <2>3
  <2> QED
    BY <2>2, <2>5, <2>6, NoEvent
<1> QED
  BY <1>1, <1>2

\* ReapUserList forgets who is on no channel, each in an event of his own.
LEMMA ReapStepEvent ==
    ASSUME IInv, Names \subseteq Nick, ReapStep
    PROVE  (UNCHANGED M!vars \/ \E n \in Nick : M!Forget(n)) /\ Names' \subseteq Nick
<1>0. ListsInv /\ Whole
  BY DEF ReapStep, Whole, IInv, TypeOK, ListsInv, ListsOK
<1>1. ASSUME NEW u \in Live, Reapable(u), DelUser(u), UNCHANGED frame
      PROVE  M!Forget(nick[u]) /\ nick[u] \in Nick /\ Names' \subseteq Nick
  <2>1. /\ Whole' /\ u \in UserId /\ chans[u] = << >> /\ UNCHANGED <<me, links>>
        /\ nick[u] \in Names
    BY <1>0, <1>1, OneOfAName DEF ReapStep, Reapable, Whole, Names
  <2>2. /\ Names' = Names \ {nick[u]}
        /\ \A d \in Channel : Often(d, nick[u]) = 0
        /\ \A d \in Channel, m \in Nick : Often(d, m)' = Often(d, m)
    BY <1>0, <1>1, <2>1, DelUserOften
  <2>3. /\ Names \ Leaving = Names /\ Names' \ Leaving' = Names'
        /\ clist \ Closing = clist /\ clist' \ Closing' = clist'
        /\ \A d \in Channel, m \in Nick : Listings[d][m] = Often(d, m) /\ Listings'[d][m] = Often(d, m)'
    BY <1>0, <2>1, WholeStep
  <2>4. Listings' = Listings
    BY <2>2, <2>3 DEF Listings
  <2> QED
    BY <2>1, <2>2, <2>3, <2>4 DEF M!Forget, links
<1>2. CASE frame' = Idle /\ UNCHANGED users
  <2>1. Whole' /\ UNCHANGED <<ulist, nick, links>>
    BY <1>2 DEF Whole, Idle, ReapStep, users
  <2> QED
    BY <1>0, <2>1, QuietEvent
<1> QED
  BY <1>1, <1>2 DEF ReapStep

\* The new entry of AddServer knows nobody and keeps no channel.
LEMMA InitMembership == Init => M!Init /\ Names \subseteq Nick
<1> SUFFICES ASSUME Init PROVE M!Init /\ Names \subseteq Nick
  OBVIOUS
<1>1. Live = {} /\ Names = {} /\ clist = {} /\ Whole
  BY DEF Init, Live, Names, Whole, Idle
<1>2. Leaving = {} /\ Closing = {} /\ Listings = Table
  BY <1>1, WholeTable
<1>3. \A c \in Channel, n \in Nick : Often(c, n) = 0
  <2>1. \A c \in Channel : DOMAIN members[c] = {}
    BY EmptySeq DEF Init
  <2>2. \A c \in Channel, n \in Nick : {i \in DOMAIN members[c] : nick[members[c][i]] = n} = {}
    BY <2>1
  <2> QED
    BY <2>2, FS_EmptySet DEF Often
<1> QED
  BY <1>1, <1>2, <1>3 DEF M!Init, Table

\* Every step of a handler is one event of the table or none.
LEMMA NextMembership ==
    IInv /\ Names \subseteq Nick /\ [CalmNext]_vars => [M!Next]_(M!vars) /\ Names' \subseteq Nick
<1> SUFFICES ASSUME IInv, Names \subseteq Nick, [CalmNext]_vars
             PROVE  [M!Next]_(M!vars) /\ Names' \subseteq Nick
  OBVIOUS
<1> DEFINE Change == \/ \E n \in Nick : M!Meet(n) \/ M!Forget(n) \/ M!Quit(n)
                     \/ \E n \in Nick, c \in Channel : M!Come(n, c) \/ M!Leave(n, c)
                     \/ \E n, new \in Nick : M!Rename(n, new)
                     \/ \E c \in Channel : M!Close(c)
           Goal == (UNCHANGED M!vars \/ Change) /\ Names' \subseteq Nick
<1>g. SUFFICES Goal
  BY DEF M!Next
<1>0. ListsInv /\ me \in Nick /\ frame \in Frame
  BY DEF IInv, TypeOK, ListsInv, ListsOK
<1>i. frame' = Idle => Whole'
  BY DEF Whole, Idle
<1>k. frame = Idle => Whole
  BY DEF Whole, Idle
<1>a. ASSUME NEW n \in Nick, NEW c \in Channel, AddUserToChannel(n, c), UNCHANGED me, Whole, Whole'
      PROVE  Goal
  <2>1. Names' \subseteq Nick
    BY <1>0, <1>a, AddUserOften, OftenKept DEF users, links
  <2> QED
    BY <1>0, <1>a, <2>1, AddUserEvent DEF Makes
<1>d. ASSUME NEW n \in Nick, NEW c \in Channel, DelUserFromChannel(n, c, Idle),
             UNCHANGED <<me, users, clist>>, Whole
      PROVE  Goal
  <2>1. Names' \subseteq Nick
    BY <1>0, <1>d, UnlinkOften
  <2> QED
    BY <1>0, <1>d, <2>1, UnlinkEvent DEF Makes
<1>q. ASSUME UNCHANGED <<ulist, nick, links>>, Whole, Whole'
      PROVE  Goal
  BY <1>q, QuietEvent
<1>1. ASSUME NEW n \in Nick, NEW c \in Channel, sm_join(n, c)
      PROVE  Goal
  BY <1>1, <1>a, <1>i, <1>k DEF sm_join
<1>2. ASSUME NEW n \in Nick, NEW c \in Channel, sm_part(n, c) \/ sm_kick(n, c)
      PROVE  Goal
  BY <1>2, <1>d, <1>k DEF sm_part, sm_kick
<1>3. ASSUME NEW n \in Nick, sm_quit(n)
      PROVE  Goal
  <2>1. Names' = Names
    BY <1>3, OftenKept DEF sm_quit, users, links
  <2> QED
    BY <1>3, <2>1, QuitEvent DEF Makes
<1>4. CASE QuitStep
  BY <1>4, QuitStepEvent
<1>5. ASSUME NEW n \in Nick, NEW new \in Nick, Unclaimed(new), sm_nick(n, new)
      PROVE  Goal
  BY <1>0, <1>5, RenameEvent DEF Makes
<1>6. ASSUME NEW n \in Nick, sm_privmsg(n)
      PROVE  Goal
  BY <1>0, <1>6, SpeakEvent DEF Makes
<1>7. ASSUME NEW c \in Channel, get_users_from_chan(c)
      PROVE  Goal
  BY <1>7, <1>k, <1>q DEF get_users_from_chan, users, Whole
<1>8. ASSUME NEW n \in Nick, NamesStep(n)
      PROVE  Goal
  <2>1. frame.chan \in Channel /\ frame.op = "names" /\ frame'.op = "names"
    BY <1>0, <1>8 DEF NamesStep, Frame, Idle, Crashed
  <2> QED
    BY <1>8, <1>a, <2>1 DEF NamesStep, Whole
<1>9. CASE NamesEnd
  BY <1>9, <1>i, <1>q DEF NamesEnd, users, Whole
<1>10. ASSUME NEW n \in Nick, numeric_userhost(n)
       PROVE  Goal
  BY <1>0, <1>10, SpeakEvent DEF Makes
<1>11. CASE numeric_nickinuse
  BY <1>11, <1>k, <1>q DEF numeric_nickinuse, users, Whole
<1>12. ASSUME NEW n \in Nick, msg_nick(n)
       PROVE  Goal
  BY <1>12, <1>i, <1>q DEF msg_nick, users, Whole
<1>13. ASSUME NEW c \in Channel, msg_join(c)
       PROVE  Goal
  BY <1>13, <1>i, <1>q DEF msg_join, insert_channels, users, Whole
<1>14. ASSUME NEW c \in Channel, msg_part(c)
       PROVE  Goal
  BY <1>14, PartEvent DEF Makes
<1>15. CASE DelChannelStep
  BY <1>15, DelChannelStepEvent
<1>16. CASE ReapUserList
  BY <1>16, <1>k, <1>q DEF ReapUserList, users, Whole
<1>17. CASE ReapStep
  BY <1>17, ReapStepEvent
<1>18. ASSUME NEW u \in UserId, GrowOld(u)
       PROVE  Goal
  BY <1>18, <1>k, <1>q DEF GrowOld, Whole
<1>19. CASE UNCHANGED vars
  <2>1. /\ Names' = Names /\ clist' = clist /\ frame' = frame /\ nick' = nick
        /\ \A d, m : Often(d, m)' = Often(d, m)
    BY <1>19, OftenKept DEF vars
  <2>2. Leaving' = Leaving /\ Closing' = Closing
    BY <2>1 DEF Leaving, Closing
  <2> QED
    BY <2>1, <2>2, Entry, NoEvent
<1> HIDE DEF Goal
<1> QED
  BY <1>1, <1>2, <1>3, <1>4, <1>5, <1>6, <1>7, <1>8, <1>9, <1>10, <1>11, <1>12,
     <1>13, <1>14, <1>15, <1>16, <1>17, <1>18, <1>19
  DEF CalmNext, Dispatch, Continue

\* Which event a step is depends on the handler alone.
LEMMA StepAsTold == IInv /\ Names \subseteq Nick => AsTold
<1> SUFFICES ASSUME IInv, Names \subseteq Nick PROVE AsTold
  OBVIOUS
<1>0. ListsInv /\ frame \in Frame
  BY DEF IInv, TypeOK, ListsInv, ListsOK
<1>1. ASSUME NEW n \in Nick, NEW c \in Channel
      PROVE  /\ sm_join(n, c) => Makes(n # me, M!Come(n, c))
             /\ sm_part(n, c) \/ sm_kick(n, c) => Makes(Listings[c][n] > 0, M!Leave(n, c))
  <2>1. ASSUME sm_join(n, c) PROVE Makes(n # me, M!Come(n, c))
    <3>1. AddUserToChannel(n, c) /\ UNCHANGED me /\ Whole /\ Whole'
      BY <2>1 DEF sm_join, Whole, Idle
    <3> QED
      BY <1>0, <3>1, AddUserEvent
  <2>2. ASSUME sm_part(n, c) \/ sm_kick(n, c) PROVE Makes(Listings[c][n] > 0, M!Leave(n, c))
    <3>1. DelUserFromChannel(n, c, Idle) /\ UNCHANGED <<me, users, clist>> /\ Whole
      BY <2>2 DEF sm_part, sm_kick, Whole, Idle
    <3> QED
      BY <1>0, <3>1, UnlinkEvent
  <2> QED
    BY <2>1, <2>2
<1>2. ASSUME NEW n \in Nick, NamesStep(n)
      PROVE  Makes(n # me, M!Come(n, frame.chan))
  <2>1. /\ frame.chan \in Channel
        /\ AddUserToChannel(n, frame.chan) /\ UNCHANGED me /\ Whole /\ Whole'
    BY <1>0, <1>2 DEF NamesStep, Frame, Idle, Crashed, Whole
  <2> QED
    BY <1>0, <2>1, AddUserEvent
<1> QED
  BY <1>0, <1>1, <1>2, QuitEvent, SpeakEvent, RenameEvent, PartEvent, QuitStepEvent,
     DelChannelStepEvent, ReapStepEvent
  DEF AsTold

\* While nicks do not collide, whoever asks GetUser, GetChannel or
\* GetFromChannel gets the answers of one table: each message moves one user or
\* closes one channel, and QuitUser, DelChannel and ReapUserList, however many
\* turns their loops take, touch nobody else on the way.
THEOREM TracksMembership == CalmSpec => MembershipSpec
<1> DEFINE Named == Names \subseteq Nick
<1>1. Init => Named
  BY InitMembership
<1>2. Init => M!Init
  BY InitMembership
<1>3. IInv /\ Named /\ [CalmNext]_vars => Named'
  BY NextMembership
<1>4. IInv /\ Named /\ [CalmNext]_vars => [M!Next]_(M!vars)
  BY NextMembership
<1> HIDE DEF Named
<1> QED
  BY <1>1, <1>2, <1>3, <1>4, Invariance, PTL DEF CalmSpec, MembershipSpec, M!Spec

\* While nicks do not collide, each handler does with that table what its
\* message says (sm_join adds, sm_part and sm_kick remove, sm_quit and msg_part
\* clear, sm_nick renames) where there is something to do, and else nothing.
THEOREM EachMessageIsItsEvent == CalmSpec => HandlersAsTold
<1> DEFINE Named == Names \subseteq Nick
<1>1. Init => Named
  BY InitMembership
<1>2. IInv /\ Named /\ [CalmNext]_vars => Named'
  BY NextMembership
<1>3. IInv /\ Named => AsTold
  BY StepAsTold
<1> HIDE DEF Named
<1> QED
  BY <1>1, <1>2, <1>3, Invariance, PTL DEF CalmSpec, HandlersAsTold

-----------------------------------------------------------------------------
(* The session: types *)

BotMsg ==
    [cmd : {"JOIN", "PART", "KICK"}, nick : Nick, chan : Channel]
    \cup [cmd : {"QUIT"}, nick : Nick]
    \cup [cmd : {"NICK"}, nick : Nick, new : Nick]
    \cup [cmd : {"PRIVMSG"}, nick : Nick, what : Request]
    \cup [cmd : {"353"}, chan : Channel, names : SUBSET Nick]
    \cup [cmd : {"433"}, nick : Nick]

\* The types of what Session adds to Tracking, and what the handler that runs
\* has in hand.
WireOK ==
    /\ setting \in Setting
    /\ online \subseteq Nick
    /\ srvnick \in online
    /\ on \in [Channel -> SUBSET Nick]
    /\ toBot \in Seq(BotMsg)
    /\ toServer \in Seq(Message)
    /\ msg \in BotMsg \cup {NoMsg}
    /\ up \in BOOLEAN
    /\ events \in Nat

InHand ==
    /\ frame.op \in {"idle", "reap"} => msg = NoMsg
    /\ frame.op = "names" => msg.cmd = "353" /\ msg.chan = frame.chan

STypeOK == TypeOK /\ WireOK /\ InHand

\* What a message of each kind holds.
LEMMA BotMsgFields ==
    ASSUME NEW m \in BotMsg
    PROVE  /\ m.cmd \in {"JOIN", "PART", "KICK"} => m.nick \in Nick /\ m.chan \in Channel
           /\ m.cmd = "QUIT" => m.nick \in Nick
           /\ m.cmd = "NICK" => m.nick \in Nick /\ m.new \in Nick
           /\ m.cmd = "PRIVMSG" => m.nick \in Nick /\ m.what \in Request
           /\ m.cmd = "353" => m.chan \in Channel /\ m.names \subseteq Nick
           /\ m.cmd = "433" => m.nick \in Nick
           /\ m.cmd \in {"JOIN", "PART", "KICK", "QUIT", "NICK", "PRIVMSG", "353", "433"}
BY DEF BotMsg

\* What a message to the server holds.
LEMMA MessageFields ==
    ASSUME NEW m \in Message
    PROVE  /\ m.cmd \in {"JOIN", "PART"} => m.chan \in Channel
           /\ m.cmd = "NICK" => m.nick \in Nick
           /\ m.cmd \in {"JOIN", "PART", "NICK"}
BY DEF Message

\* The head of a queue is one of its messages, and the rest keeps its order.
LEMMA QueueHead ==
    ASSUME NEW S, NEW q \in Seq(S), q # << >>
    PROVE  /\ Head(q) \in S
           /\ Head(q) = q[1]
           /\ 1 \in DOMAIN q
           /\ Tail(q) \in Seq(S)
           /\ Len(q) \in Nat \ {0}
           /\ Len(Tail(q)) = Len(q) - 1
           /\ DOMAIN q = 1 .. Len(q)
           /\ DOMAIN Tail(q) = 1 .. (Len(q) - 1)
           /\ \A i \in DOMAIN Tail(q) : i + 1 \in DOMAIN q /\ Tail(q)[i] = q[i + 1]
<1>1. /\ Head(q) \in S
      /\ Tail(q) \in Seq(S)
      /\ Len(Tail(q)) = Len(q) - 1
      /\ \A i \in 1 .. Len(Tail(q)) : Tail(q)[i] = q[i + 1]
  BY HeadTailProperties
<1>2. Len(q) \in Nat \ {0} /\ DOMAIN q = 1 .. Len(q) /\ DOMAIN Tail(q) = 1 .. Len(Tail(q))
  BY <1>1, EmptySeq, LenProperties
<1>3. Head(q) = q[1]
  OBVIOUS
<1> QED
  BY <1>1, <1>2, <1>3

\* What the bot does is what Tracking says of it.
LEMMA BotIsNext == STypeOK /\ Bot => Next
<1> SUFFICES ASSUME STypeOK, Bot PROVE Next
  OBVIOUS
<1>1. CASE Receive
  <2> DEFINE m == Head(toBot)
  <2>1. m \in BotMsg
    BY <1>1, QueueHead DEF Receive, STypeOK, WireOK
  <2> HIDE DEF m
  <2>2. \/ m.cmd = "JOIN"    /\ sm_join(m.nick, m.chan)
        \/ m.cmd = "PART"    /\ sm_part(m.nick, m.chan)
        \/ m.cmd = "KICK"    /\ sm_kick(m.nick, m.chan)
        \/ m.cmd = "QUIT"    /\ sm_quit(m.nick)
        \/ m.cmd = "NICK"    /\ sm_nick(m.nick, m.new)
        \/ m.cmd = "PRIVMSG" /\ sm_privmsg(m.nick)
        \/ m.cmd = "353"     /\ get_users_from_chan(m.chan)
        \/ m.cmd = "433"     /\ numeric_nickinuse
    BY <1>1 DEF Receive, m
  <2> QED
    BY <2>1, <2>2, BotMsgFields DEF Next, Dispatch
<1>2. CASE Handle
  <2>1. msg.cmd = "PRIVMSG" => msg.what \in Request
    BY BotMsgFields DEF STypeOK, WireOK, NoMsg
  <2>2. msg.cmd = "PRIVMSG" => /\ msg.what.ask \in {"join", "part"} => msg.what.chan \in Channel
                               /\ msg.what.ask = "nick" => msg.what.nick \in Nick
    BY <2>1 DEF Request
  <2> QED
    BY <1>2, <2>2 DEF Handle, Next, Continue
<1>3. CASE \E n \in Nick : HandleName(n)
  BY <1>3 DEF HandleName, Next, Continue
<1>4. CASE Housekeeping
  BY <1>4 DEF Housekeeping, Next, Dispatch, Continue
<1> QED
  BY <1>1, <1>2, <1>3, <1>4 DEF Bot

\* SetToSeq lists the members of a finite set, each once.
LEMMA SetToSeqShape ==
    ASSUME NEW S, IsFiniteSet(S)
    PROVE  /\ SetToSeq(S) \in Seq(S)
           /\ \A x \in S : \E i \in DOMAIN SetToSeq(S) : SetToSeq(S)[i] = x
<1> DEFINE N == 1 .. Cardinality(S)
           q == SetToSeq(S)
<1>1. Cardinality(S) \in Nat /\ ExistsBijection(N, S)
  BY FS_CardinalityType
<1>2. PICK f \in Bijection(N, S) : TRUE
  BY <1>1, Fun_ExistsBij
<1>3. f \in [N -> S] /\ IsInjective(f)
  <2>1. f \in [N -> S] /\ \A a, b \in N : f[a] = f[b] => a = b
    BY <1>2, Fun_BijectionProperties
  <2> HIDE DEF N
  <2> QED
    BY <2>1 DEF IsInjective
<1>4. q \in [N -> S] /\ IsInjective(q)
  <2>1. \E g \in [N -> S] : IsInjective(g)
    BY <1>3
  <2> QED
    BY <2>1 DEF SetToSeq
<1> HIDE DEF q
<1>5. q \in Injection(N, S)
  BY <1>4 DEF Injection
<1>6. Cardinality(N) = Cardinality(S)
  BY <1>1, FS_Interval
<1>7. q \in Surjection(N, S)
  BY <1>5, <1>6, FS_Injection
<1>8. \A x \in S : \E i \in DOMAIN q : q[i] = x
  BY <1>4, <1>7 DEF Surjection
<1>9. q \in Seq(S)
  BY <1>1, <1>4
<1> QED
  BY <1>8, <1>9 DEF q

\* join_channels asks for each of the channels and for nothing else.
LEMMA JoinsShape ==
    ASSUME SessionAssumption, NEW C \in SUBSET Channel, NEW q,
           q = SetToSeq({[cmd |-> "JOIN", chan |-> c] : c \in C})
    PROVE  /\ q \in Seq(Message)
           /\ \A i \in DOMAIN q : q[i].cmd = "JOIN" /\ q[i].chan \in C
           /\ \A c \in C : \E i \in DOMAIN q : q[i] = [cmd |-> "JOIN", chan |-> c]
<1> DEFINE Joins == {[cmd |-> "JOIN", chan |-> c] : c \in C}
           f == [c \in C |-> [cmd |-> "JOIN", chan |-> c]]
<1>1. IsFiniteSet(C)
  BY FS_Subset DEF SessionAssumption
<1>2. f \in Bijection(C, Joins)
  <2>1. f \in [C -> Joins]
    OBVIOUS
  <2>2. \A a, b \in C : f[a] = f[b] => a = b
    <3>1. \A a \in C : f[a].chan = a
      OBVIOUS
    <3> QED
      BY <3>1
  <2>3. \A t \in Joins : \E a \in C : f[a] = t
    OBVIOUS
  <2> QED
    BY <2>1, <2>2, <2>3, Fun_IsBij
<1>3. IsFiniteSet(Joins)
  BY <1>1, <1>2, Fun_ExistsBij, FS_Bijection
<1>4. Joins \subseteq Message
  BY DEF Message
<1> HIDE DEF Joins
<1>5. /\ q \in Seq(Joins)
      /\ \A x \in Joins : \E i \in DOMAIN q : q[i] = x
  BY <1>3, SetToSeqShape DEF Joins
<1>6. \A i \in DOMAIN q : q[i] \in Joins
  BY <1>5, ElementOfSeq, LenProperties
<1>7. q \in Seq(Message)
  <2>1. q \in [1 .. Len(q) -> Joins] /\ Len(q) \in Nat
    BY <1>5, LenProperties
  <2> QED
    BY <1>4, <2>1
<1>8. \A x \in Joins : x.cmd = "JOIN" /\ x.chan \in C
  BY DEF Joins
<1>9. \A c \in C : [cmd |-> "JOIN", chan |-> c] \in Joins
  BY DEF Joins
<1> QED
  BY <1>5, <1>6, <1>7, <1>8, <1>9

\* An event of the clients leaves the bot and what it has said alone.
LEMMA ClientsEvent ==
    Clients => /\ UNCHANGED <<vars, setting, srvnick, toServer, msg, up>>
               /\ events' = events + 1
BY DEF Clients, UserJoin, UserPart, UserQuit, Kick, UserNick, Ask, Event

\* What a client does keeps the types.
LEMMA ClientsType == WireOK /\ Clients => WireOK'
<1> SUFFICES ASSUME WireOK, Clients
             PROVE  WireOK'
  OBVIOUS
<1>0. /\ UNCHANGED <<setting, srvnick, toServer, msg, up>> /\ events' \in Nat
      /\ srvnick \in Nick
  BY ClientsEvent DEF WireOK
<1>1. ASSUME NEW m \in BotMsg, NEW P, Tell(P, m)
      PROVE  toBot' \in Seq(BotMsg)
  BY <1>1, QueueAppend DEF Tell, WireOK
<1>2. ASSUME toBot' \in Seq(BotMsg), on' \in [Channel -> SUBSET Nick],
             online' \subseteq Nick, srvnick \in online'
      PROVE  WireOK'
  BY <1>0, <1>2 DEF WireOK
<1>3. ASSUME NEW n \in Nick, NEW c \in Channel, UserJoin(n, c)
      PROVE  WireOK'
  BY <1>1, <1>2, <1>3 DEF UserJoin, WireOK, BotMsg
<1>4. ASSUME NEW n \in Nick, NEW c \in Channel, UserPart(n, c)
      PROVE  WireOK'
  BY <1>1, <1>2, <1>4 DEF UserPart, WireOK, BotMsg
<1>5. ASSUME NEW n \in Nick, UserQuit(n)
      PROVE  WireOK'
  BY <1>1, <1>2, <1>5 DEF UserQuit, WireOK, BotMsg
<1>6. ASSUME NEW n \in Nick, NEW c \in Channel, Kick(n, c)
      PROVE  WireOK'
  BY <1>1, <1>2, <1>6 DEF Kick, WireOK, BotMsg
<1>7. ASSUME NEW n \in Nick, NEW new \in Nick, UserNick(n, new)
      PROVE  WireOK'
  <2>1. on' \in [Channel -> SUBSET Nick]
    BY <1>7 DEF UserNick, WireOK
  <2> QED
    BY <1>1, <1>2, <1>7, <2>1 DEF UserNick, WireOK, BotMsg
<1>8. ASSUME NEW n \in Nick, NEW what \in Request, Ask(n, what)
      PROVE  WireOK'
  <2>1. [cmd |-> "PRIVMSG", nick |-> n, what |-> what] \in BotMsg
    BY DEF BotMsg
  <2>2. toBot' = Append(toBot, [cmd |-> "PRIVMSG", nick |-> n, what |-> what])
        /\ UNCHANGED <<online, on>>
    BY <1>8 DEF Ask
  <2>3. toBot' \in Seq(BotMsg)
    BY <2>1, <2>2, QueueAppend DEF WireOK
  <2> QED
    BY <1>2, <2>2, <2>3 DEF WireOK
<1> QED
  BY <1>3, <1>4, <1>5, <1>6, <1>7, <1>8 DEF Clients

\* What the server makes of the bot's messages keeps the types.
LEMMA ServesType == WireOK /\ (ServeJoin \/ ServePart \/ ServeNick) => WireOK'
<1> SUFFICES ASSUME WireOK, ServeJoin \/ ServePart \/ ServeNick
             PROVE  WireOK'
  OBVIOUS
<1> DEFINE m == Head(toServer)
<1>0. /\ toServer # << >> /\ toServer' = Tail(toServer)
      /\ UNCHANGED <<setting, msg, up, events>>
  BY DEF ServeJoin, ServePart, ServeNick, Serve
<1>1. m \in Message /\ toServer' \in Seq(Message) /\ srvnick \in Nick
  BY <1>0, QueueHead DEF WireOK
<1>2. ASSUME NEW x \in BotMsg, NEW P, Tell(P, x)
      PROVE  toBot' \in Seq(BotMsg)
  BY <1>2, QueueAppend DEF Tell, WireOK
<1>3. ASSUME toBot' \in Seq(BotMsg), on' \in [Channel -> SUBSET Nick],
             online' \subseteq Nick, srvnick' \in online'
      PROVE  WireOK'
  BY <1>0, <1>1, <1>3 DEF WireOK
<1> HIDE DEF m
<1>4. CASE ServeJoin
  <2> DEFINE c == m.chan
             j == [cmd |-> "JOIN", nick |-> srvnick, chan |-> c]
             l == [cmd |-> "353", chan |-> c, names |-> on'[c]]
  <2>1. c \in Channel /\ on' = [on EXCEPT ![c] = @ \cup {srvnick}] /\ UNCHANGED <<online, srvnick>>
    BY <1>1, <1>4, MessageFields DEF ServeJoin, m
  <2>2. on' \in [Channel -> SUBSET Nick]
    BY <1>1, <2>1 DEF WireOK
  <2>3. j \in BotMsg /\ l \in BotMsg
    BY <1>1, <2>1, <2>2 DEF BotMsg
  <2>4. toBot' = toBot \/ toBot' = toBot \o <<j, l>>
    BY <1>4 DEF ServeJoin, m
  <2> HIDE DEF c, j, l
  <2>5. <<j, l>> \in Seq(BotMsg)
    BY <2>3
  <2>6. toBot' \in Seq(BotMsg)
    BY <2>4, <2>5, ConcatProperties DEF WireOK
  <2> QED
    BY <1>3, <2>1, <2>2, <2>6 DEF WireOK
<1>5. CASE ServePart
  <2>1. m.chan \in Channel
    BY <1>1, <1>5, MessageFields DEF ServePart, m
  <2>2. [cmd |-> "PART", nick |-> srvnick, chan |-> m.chan] \in BotMsg
    BY <1>1, <2>1 DEF BotMsg
  <2>3. /\ on' = [on EXCEPT ![m.chan] = @ \ {srvnick}]
        /\ Tell(BotOn(m.chan), [cmd |-> "PART", nick |-> srvnick, chan |-> m.chan])
        /\ UNCHANGED <<online, srvnick>>
    BY <1>5 DEF ServePart, m
  <2> QED
    BY <1>2, <1>3, <2>1, <2>2, <2>3 DEF WireOK
<1>6. CASE ServeNick
  <2>1. m.nick \in Nick
    BY <1>1, <1>6, MessageFields DEF ServeNick, m
  <2>2. CASE m.nick \in online \ {srvnick}
    <3>1. /\ toBot' = Append(toBot, [cmd |-> "433", nick |-> m.nick])
          /\ UNCHANGED <<online, srvnick, on>>
      BY <1>6, <2>2 DEF ServeNick, m
    <3>2. [cmd |-> "433", nick |-> m.nick] \in BotMsg
      BY <2>1 DEF BotMsg
    <3> QED
      BY <1>3, <3>1, <3>2, QueueAppend DEF WireOK
  <2>3. CASE m.nick \notin online \ {srvnick}
    <3>1. /\ srvnick' = m.nick
          /\ online' = (online \ {srvnick}) \cup {m.nick}
          /\ on' = [c \in Channel |-> IF BotOn(c) THEN (on[c] \ {srvnick}) \cup {m.nick}
                                                  ELSE on[c]]
          /\ Tell(m.nick # srvnick, [cmd |-> "NICK", nick |-> srvnick, new |-> m.nick])
      BY <1>6, <2>3 DEF ServeNick, m
    <3>2. [cmd |-> "NICK", nick |-> srvnick, new |-> m.nick] \in BotMsg
      BY <1>1, <2>1 DEF BotMsg
    <3>3. on' \in [Channel -> SUBSET Nick]
      BY <2>1, <3>1 DEF WireOK
    <3>4. online' \subseteq Nick
      BY <2>1, <3>1 DEF WireOK
    <3> QED
      BY <1>2, <1>3, <3>1, <3>2, <3>3, <3>4
  <2> QED
    BY <2>2, <2>3
<1> QED
  BY <1>4, <1>5, <1>6

\* A new connection keeps the types.
LEMMA ReconnectType == STypeOK /\ Reconnect => WireOK'
<1> SUFFICES ASSUME STypeOK, Reconnect
             PROVE  WireOK'
  OBVIOUS
<1>1. me \in Nick /\ conf \in [Channel -> Nat] /\ srvnick \in Nick
  BY DEF STypeOK, TypeOK, WireOK
<1>2. toServer' \in Seq(Message)
  BY JoinsShape, SessionAssumption DEF Reconnect, join_channels
<1>3. on' \in [Channel -> SUBSET Nick]
  BY DEF Reconnect, STypeOK, WireOK
<1> QED
  BY <1>1, <1>2, <1>3, EmptySeq DEF Reconnect, STypeOK, WireOK

\* DelUserFromChannel goes on where it was told to, or not at all.
LEMMA UnlinkFrame ==
    ASSUME NEW n, NEW c, NEW next, DelUserFromChannel(n, c, next)
    PROVE  frame' = next \/ frame' = Crashed
BY DEF DelUserFromChannel

\* What the bot does keeps the types of what is under way.
LEMMA BotType == STypeOK /\ Bot => WireOK' /\ InHand'
<1> SUFFICES ASSUME STypeOK, Bot
             PROVE  WireOK' /\ InHand'
  OBVIOUS
<1>0. TypeOK' /\ UNCHANGED <<server, events>>
  BY BotIsNext, NextTypeOK DEF STypeOK, Bot
<1>1. toServer' \in Seq(Message)
  BY <1>0, ConcatProperties DEF Bot, TypeOK, STypeOK, WireOK
<1>2. ASSUME toBot' \in Seq(BotMsg), msg' \in BotMsg \cup {NoMsg}, up' \in BOOLEAN, InHand'
      PROVE  WireOK' /\ InHand'
  BY <1>0, <1>1, <1>2 DEF STypeOK, WireOK, server
<1>f. frame'.op = "idle" => frame' = Idle
  BY <1>0 DEF TypeOK, Frame, Idle, Crashed
<1>3. CASE Receive
  <2> DEFINE m == Head(toBot)
  <2>1. m \in BotMsg /\ toBot' \in Seq(BotMsg)
    BY <1>3, QueueHead DEF Receive, STypeOK, WireOK
  <2>2. msg' = (IF frame' = Idle THEN NoMsg ELSE m) /\ up' \in BOOLEAN
    BY <1>3 DEF Receive
  <2>3. /\ frame'.op # "reap"
        /\ frame'.op = "names" => m.cmd = "353" /\ m.chan = frame'.chan
    <3>1. \/ m.cmd = "JOIN"    /\ sm_join(m.nick, m.chan)
          \/ m.cmd = "PART"    /\ sm_part(m.nick, m.chan)
          \/ m.cmd = "KICK"    /\ sm_kick(m.nick, m.chan)
          \/ m.cmd = "QUIT"    /\ sm_quit(m.nick)
          \/ m.cmd = "NICK"    /\ sm_nick(m.nick, m.new)
          \/ m.cmd = "PRIVMSG" /\ sm_privmsg(m.nick)
          \/ m.cmd = "353"     /\ get_users_from_chan(m.chan)
          \/ m.cmd = "433"     /\ numeric_nickinuse
      BY <1>3 DEF Receive
    <3> HIDE DEF m
    <3>2. m.cmd = "353" => m.chan = m.chan /\ get_users_from_chan(m.chan)
      BY <3>1
    <3>3. m.cmd # "353" => frame'.op \notin {"names", "reap"}
      BY <3>1, UnlinkFrame
      DEF sm_join, sm_part, sm_kick, sm_quit, sm_nick, sm_privmsg, numeric_nickinuse,
          Idle, Crashed
    <3> QED
      BY <3>2, <3>3 DEF get_users_from_chan, Idle
  <2> HIDE DEF m
  <2>4. InHand'
    <3>1. frame'.op = "names" => frame' # Idle
      BY DEF Idle
    <3> QED
      BY <1>f, <2>2, <2>3, <3>1 DEF InHand
  <2> QED
    BY <1>2, <2>1, <2>2, <2>4
<1>4. CASE Handle
  <2>1. /\ UNCHANGED <<toBot, up>>
        /\ msg' = IF frame' = Idle THEN NoMsg ELSE msg
    BY <1>4 DEF Handle
  <2>2. frame'.op \notin {"names", "reap"}
    BY <1>4, UnlinkFrame
    DEF Handle, msg_join, msg_part, msg_nick, NamesEnd, QuitStep, DelChannelStep, Idle, Crashed
  <2> QED
    BY <1>2, <1>f, <2>1, <2>2 DEF InHand, STypeOK, WireOK
<1>5. ASSUME NEW n \in Nick, HandleName(n)
      PROVE  WireOK' /\ InHand'
  <2>1. /\ UNCHANGED <<toBot, up>>
        /\ msg' = [msg EXCEPT !.names = @ \ {n}]
        /\ msg.cmd = "353"
        /\ frame.op = "names" /\ frame' = [frame EXCEPT !.left = @ - 1]
    BY <1>5 DEF HandleName, NamesStep
  <2>2. frame \in [op : {"names"}, chan : Channel, left : 0 .. MaxNames]
    BY <2>1 DEF STypeOK, TypeOK, Frame, Idle, Crashed
  <2>3. msg \in [cmd : {"353"}, chan : Channel, names : SUBSET Nick]
    BY <2>1 DEF STypeOK, WireOK, BotMsg, NoMsg
  <2>4. msg' \in BotMsg /\ msg'.cmd = "353" /\ msg'.chan = msg.chan
    BY <2>1, <2>3 DEF BotMsg
  <2>5. frame'.op = "names" /\ frame'.chan = frame.chan
    BY <2>1, <2>2
  <2> QED
    BY <1>2, <2>1, <2>4, <2>5 DEF InHand, STypeOK, WireOK, Idle
<1>6. CASE Housekeeping
  <2>1. UNCHANGED <<toBot, msg, up>>
    BY <1>6 DEF Housekeeping
  <2>2. frame'.op # "names" /\ msg = NoMsg
    BY <1>6 DEF Housekeeping, ReapUserList, ReapStep, GrowOld, Idle, STypeOK, InHand
  <2> QED
    BY <1>2, <2>1, <2>2 DEF InHand, STypeOK, WireOK
<1> QED
  BY <1>3, <1>4, <1>5, <1>6 DEF Bot

\* The session begins with the types.
LEMMA SessionInitType == SessionInit => STypeOK
<1> SUFFICES ASSUME SessionInit PROVE STypeOK
  OBVIOUS
<1>1. TypeOK
  BY InitTypeOK DEF SessionInit
<1>2. toServer \in Seq(Message)
  BY JoinsShape, SessionAssumption, ConstantsAssumption DEF SessionInit
<1>3. setting \in Setting /\ setting.people \subseteq Nick
  BY SessionAssumption DEF SessionInit, Setting
<1>4. WireOK
  BY <1>2, <1>3, ConstantsAssumption, EmptySeq DEF SessionInit, WireOK
<1>5. InHand
  BY DEF SessionInit, Init, InHand, Idle
<1> QED
  BY <1>1, <1>4, <1>5 DEF STypeOK

\* Every step of the session keeps the types.
LEMMA SessionNextType == STypeOK /\ [SessionNext]_svars => STypeOK'
<1> SUFFICES ASSUME STypeOK, [SessionNext]_svars PROVE STypeOK'
  OBVIOUS
<1>1. CASE Bot
  BY <1>1, BotIsNext, BotType, NextTypeOK DEF STypeOK
<1>2. CASE Clients \/ ServeJoin \/ ServePart \/ ServeNick \/ Reconnect
  <2>1. UNCHANGED vars /\ UNCHANGED msg
    BY <1>2, ClientsEvent DEF ServeJoin, ServePart, ServeNick, Serve, Reconnect
  <2>2. TypeOK' /\ InHand'
    BY <2>1, NextTypeOK DEF STypeOK, InHand, vars
  <2> QED
    BY <1>2, <2>2, ClientsType, ServesType, ReconnectType DEF STypeOK
<1>3. CASE UNCHANGED svars
  <2>1. UNCHANGED vars
    BY <1>3 DEF svars
  <2>2. TypeOK'
    BY <2>1, NextTypeOK DEF STypeOK
  <2> QED
    BY <1>3, <2>2 DEF STypeOK, WireOK, InHand, svars, vars, server
<1> QED
  BY <1>1, <1>2, <1>3 DEF SessionNext

-----------------------------------------------------------------------------
(* The session: what the bot says *)

\* What a step of the bot is, as far as the server can tell: the bot takes the
\* refusal of its nick, or a KICK of its own; it does as it is asked to; or it
\* says nothing.
Takes(m) == toBot # << >> /\ m = Head(toBot) /\ toBot' = Tail(toBot)

Obeys(ask) ==
    /\ msg.cmd = "PRIVMSG" /\ msg.what.ask = ask
    /\ frame.op = "command"
    /\ UNCHANGED <<toBot, up>>

SaysRefused ==
    /\ \E m \in BotMsg : Takes(m) /\ m.cmd = "433"
    /\ me' = AltNick
    /\ up' = (me # AltNick)
    /\ sent' = IF me = AltNick THEN << >> ELSE <<[cmd |-> "NICK", nick |-> AltNick]>>
    /\ UNCHANGED <<conf, clist>>

SaysRejoin ==
    /\ \E m \in BotMsg :
          /\ Takes(m) /\ m.cmd = "KICK" /\ m.nick = me
          /\ sent' = <<[cmd |-> "JOIN", chan |-> m.chan]>>
    /\ UNCHANGED <<me, conf, clist, up>>

SaysNick ==
    /\ Obeys("nick")
    /\ me' = msg.what.nick
    /\ sent' = <<[cmd |-> "NICK", nick |-> me']>>
    /\ UNCHANGED <<conf, clist>>

SaysJoin ==
    /\ Obeys("join")
    /\ insert_channels(msg.what.chan)
    /\ sent' = <<[cmd |-> "JOIN", chan |-> msg.what.chan]>>
    /\ UNCHANGED <<me, clist>>

SaysPart ==
    /\ Obeys("part")
    /\ delete_channel(msg.what.chan)
    /\ sent' = <<[cmd |-> "PART", chan |-> msg.what.chan]>>
    /\ UNCHANGED <<me, clist>>

SaysNothing ==
    /\ sent' = << >>
    /\ UNCHANGED <<me, conf, up>>
    /\ \/ UNCHANGED toBot
       \/ \E m \in BotMsg :
             Takes(m) /\ m.cmd # "433" /\ ~(m.cmd = "KICK" /\ m.nick = me)

\* There is nothing else the bot may say.
LEMMA BotSays ==
    ASSUME STypeOK, Bot
    PROVE  /\ \/ SaysRefused \/ SaysRejoin \/ SaysNick \/ SaysJoin \/ SaysPart \/ SaysNothing
           /\ toServer' = toServer \o sent'
           /\ UNCHANGED <<server, events>>
<1>0. toServer' = toServer \o sent' /\ UNCHANGED <<server, events>>
  BY DEF Bot
<1>1. CASE Receive
  <2> DEFINE m == Head(toBot)
  <2>1. m \in BotMsg /\ Takes(m) /\ up
    BY <1>1, QueueHead DEF Receive, STypeOK, WireOK, Takes
  <2>2. \/ m.cmd = "JOIN"    /\ sm_join(m.nick, m.chan)
        \/ m.cmd = "PART"    /\ sm_part(m.nick, m.chan)
        \/ m.cmd = "KICK"    /\ sm_kick(m.nick, m.chan)
        \/ m.cmd = "QUIT"    /\ sm_quit(m.nick)
        \/ m.cmd = "NICK"    /\ sm_nick(m.nick, m.new)
        \/ m.cmd = "PRIVMSG" /\ sm_privmsg(m.nick)
        \/ m.cmd = "353"     /\ get_users_from_chan(m.chan)
        \/ m.cmd = "433"     /\ numeric_nickinuse
    BY <1>1 DEF Receive
  <2>3. up' = ~(m.cmd = "433" /\ me = AltNick)
    BY <1>1 DEF Receive
  <2> HIDE DEF m
  <2>4. CASE m.cmd = "433"
    <3>1. SaysRefused
      BY <2>1, <2>2, <2>3, <2>4 DEF SaysRefused, numeric_nickinuse, links
    <3> QED
      BY <1>0, <3>1
  <2>5. CASE m.cmd = "KICK" /\ m.nick = me
    <3>1. SaysRejoin
      BY <2>1, <2>2, <2>3, <2>5 DEF SaysRejoin, sm_kick
    <3> QED
      BY <1>0, <3>1
  <2>6. CASE m.cmd # "433" /\ ~(m.cmd = "KICK" /\ m.nick = me)
    <3>1. sent' = << >> /\ UNCHANGED <<me, conf>>
      BY <2>2, <2>6
      DEF sm_join, sm_part, sm_kick, sm_quit, sm_nick, sm_privmsg, get_users_from_chan, Silent
    <3>2. SaysNothing
      BY <2>1, <2>3, <2>6, <3>1 DEF SaysNothing
    <3> QED
      BY <1>0, <3>2
  <2> QED
    BY <2>4, <2>5, <2>6
<1>2. CASE Handle
  <2>1. UNCHANGED <<toBot, up>>
    BY <1>2 DEF Handle
  <2>2. CASE msg.cmd = "PRIVMSG" /\ msg.what.ask = "join" /\ msg_join(msg.what.chan)
    <3>1. SaysJoin \/ SaysNothing
      BY <2>1, <2>2 DEF msg_join, SaysJoin, SaysNothing, Obeys, Silent, links
    <3> QED
      BY <1>0, <3>1
  <2>3. CASE msg.cmd = "PRIVMSG" /\ msg.what.ask = "part" /\ msg_part(msg.what.chan)
    <3>1. SaysPart \/ SaysNothing
      BY <2>1, <2>3 DEF msg_part, SaysPart, SaysNothing, Obeys, Silent, links
    <3> QED
      BY <1>0, <3>1
  <2>4. CASE msg.cmd = "PRIVMSG" /\ msg.what.ask = "nick" /\ msg_nick(msg.what.nick)
    <3>1. SaysNick
      BY <2>1, <2>4 DEF msg_nick, SaysNick, Obeys, links
    <3> QED
      BY <1>0, <3>1
  <2>5. CASE NamesEnd \/ QuitStep \/ DelChannelStep
    <3>1. SaysNothing
      BY <2>1, <2>5 DEF NamesEnd, QuitStep, DelChannelStep, SaysNothing, Silent
    <3> QED
      BY <1>0, <3>1
  <2> QED
    BY <1>2, <2>2, <2>3, <2>4, <2>5 DEF Handle
<1>3. CASE Housekeeping \/ \E n \in Nick : HandleName(n)
  <2>1. SaysNothing
    BY <1>3 DEF Housekeeping, ReapUserList, ReapStep, GrowOld, HandleName, NamesStep,
                SaysNothing, Silent
  <2> QED
    BY <1>0, <2>1
<1> QED
  BY <1>1, <1>2, <1>3 DEF Bot

-----------------------------------------------------------------------------
(* The session: the bot's nick *)

NoNickSaid == \A i \in DOMAIN toServer : toServer[i].cmd # "NICK"

LastNickSaid(n) ==
    \E i \in DOMAIN toServer :
        /\ toServer[i].cmd = "NICK" /\ toServer[i].nick = n
        /\ \A j \in DOMAIN toServer : j > i => toServer[j].cmd # "NICK"

RefusalComing == \E i \in DOMAIN toBot : toBot[i].cmd = "433"

\* The bot is called what it believes, has asked for it last, or is going to
\* hear that it may not be.
NickInv ==
    up => RefusalComing \/ LastNickSaid(me) \/ (NoNickSaid /\ me = srvnick)

\* A refusal stays under way until the bot takes it.
LEMMA RefusalStays ==
    ASSUME STypeOK, RefusalComing
    PROVE  /\ \A m \in BotMsg : Takes(m) /\ m.cmd # "433" => RefusalComing'
           /\ UNCHANGED toBot => RefusalComing'
           /\ \A m \in BotMsg : toBot' = Append(toBot, m) => RefusalComing'
<1>0. toBot \in Seq(BotMsg)
  BY DEF STypeOK, WireOK
<1>1. PICK i \in DOMAIN toBot : toBot[i].cmd = "433"
  BY DEF RefusalComing
<1>2. ASSUME NEW m \in BotMsg, Takes(m), m.cmd # "433"
      PROVE  RefusalComing'
  <2>1. toBot # << >> /\ toBot' = Tail(toBot) /\ m = toBot[1]
    BY <1>0, <1>2, QueueHead DEF Takes
  <2>2. i - 1 \in DOMAIN Tail(toBot) /\ Tail(toBot)[i - 1] = toBot[i]
    BY <1>0, <1>1, <1>2, <2>1, QueueHead
  <2> QED
    BY <1>1, <2>1, <2>2 DEF RefusalComing
<1>3. ASSUME NEW m \in BotMsg, toBot' = Append(toBot, m)
      PROVE  RefusalComing'
  <2>1. i \in DOMAIN toBot' /\ toBot'[i] = toBot[i]
    BY <1>0, <1>3, QueueAppend
  <2> QED
    BY <1>1, <2>1 DEF RefusalComing
<1>4. UNCHANGED toBot => RefusalComing'
  BY DEF RefusalComing
<1> QED
  BY <1>2, <1>3, <1>4

\* What a client does reaches the bot as one message or not at all.
LEMMA ClientsTell ==
    ASSUME Clients
    PROVE  \/ UNCHANGED toBot
           \/ \E m \in BotMsg : toBot' = Append(toBot, m) /\ m.cmd \notin {"353", "433"}
<1>1. ASSUME NEW n \in Nick, NEW c \in Channel, UserJoin(n, c)
      PROVE  \E m \in BotMsg : Tell(BotOn(c), m) /\ m.cmd = "JOIN"
  <2>1. [cmd |-> "JOIN", nick |-> n, chan |-> c] \in BotMsg
    BY DEF BotMsg
  <2> QED
    BY <1>1, <2>1 DEF UserJoin
<1>2. ASSUME NEW n \in Nick, NEW c \in Channel, UserPart(n, c)
      PROVE  \E m \in BotMsg : Tell(BotOn(c), m) /\ m.cmd = "PART"
  <2>1. [cmd |-> "PART", nick |-> n, chan |-> c] \in BotMsg
    BY DEF BotMsg
  <2> QED
    BY <1>2, <2>1 DEF UserPart
<1>3. ASSUME NEW n \in Nick, UserQuit(n)
      PROVE  \E m \in BotMsg : Tell(Seen(n), m) /\ m.cmd = "QUIT"
  <2>1. [cmd |-> "QUIT", nick |-> n] \in BotMsg
    BY DEF BotMsg
  <2> QED
    BY <1>3, <2>1 DEF UserQuit
<1>4. ASSUME NEW n \in Nick, NEW c \in Channel, Kick(n, c)
      PROVE  \E m \in BotMsg : Tell(BotOn(c), m) /\ m.cmd = "KICK"
  <2>1. [cmd |-> "KICK", nick |-> n, chan |-> c] \in BotMsg
    BY DEF BotMsg
  <2> QED
    BY <1>4, <2>1 DEF Kick
<1>5. ASSUME NEW n \in Nick, NEW new \in Nick, UserNick(n, new)
      PROVE  \E m \in BotMsg : Tell(Seen(n), m) /\ m.cmd = "NICK"
  <2>1. [cmd |-> "NICK", nick |-> n, new |-> new] \in BotMsg
    BY DEF BotMsg
  <2> QED
    BY <1>5, <2>1 DEF UserNick
<1>6. ASSUME NEW n \in Nick, NEW what \in Request, Ask(n, what)
      PROVE  \E m \in BotMsg : Tell(TRUE, m) /\ m.cmd = "PRIVMSG"
  <2>1. [cmd |-> "PRIVMSG", nick |-> n, what |-> what] \in BotMsg
    BY DEF BotMsg
  <2> QED
    BY <1>6, <2>1 DEF Ask, Tell
<1> QED
  BY <1>1, <1>2, <1>3, <1>4, <1>5, <1>6 DEF Clients, Tell

\* A message about something else leaves the bot's requests for nicks as they
\* are when the server takes it.
LEMMA NickSaidAfter ==
    ASSUME STypeOK, toServer # << >>, toServer' = Tail(toServer), UNCHANGED me
    PROVE  /\ NoNickSaid => NoNickSaid'
           /\ LastNickSaid(me) =>
                 \/ LastNickSaid(me)'
                 \/ Head(toServer).cmd = "NICK" /\ Head(toServer).nick = me /\ NoNickSaid'
<1>0. toServer \in Seq(Message)
  BY DEF STypeOK, WireOK
<1>1. /\ Head(toServer) = toServer[1]
      /\ Len(toServer) \in Nat \ {0}
      /\ DOMAIN toServer = 1 .. Len(toServer)
      /\ DOMAIN toServer' = 1 .. (Len(toServer) - 1)
      /\ \A i \in DOMAIN toServer' : i + 1 \in DOMAIN toServer /\ toServer'[i] = toServer[i + 1]
  BY <1>0, QueueHead
<1>2. NoNickSaid => NoNickSaid'
  BY <1>1 DEF NoNickSaid
<1>3. ASSUME LastNickSaid(me)
      PROVE  \/ LastNickSaid(me)'
             \/ Head(toServer).cmd = "NICK" /\ Head(toServer).nick = me /\ NoNickSaid'
  <2>1. PICK i \in DOMAIN toServer :
           /\ toServer[i].cmd = "NICK" /\ toServer[i].nick = me
           /\ \A j \in DOMAIN toServer : j > i => toServer[j].cmd # "NICK"
    BY <1>3 DEF LastNickSaid
  <2>2. CASE i = 1
    <3>1. \A k \in DOMAIN toServer' : toServer'[k].cmd # "NICK"
      BY <1>1, <2>1, <2>2
    <3> QED
      BY <1>1, <2>1, <2>2, <3>1 DEF NoNickSaid
  <2>3. CASE i # 1
    <3>1. i - 1 \in DOMAIN toServer' /\ toServer'[i - 1] = toServer[i]
      BY <1>1, <2>3
    <3>2. \A j \in DOMAIN toServer' : j > i - 1 => toServer'[j].cmd # "NICK"
      BY <1>1, <2>1
    <3> QED
      BY <2>1, <3>1, <3>2 DEF LastNickSaid
  <2> QED
    BY <2>2, <2>3
<1> QED
  BY <1>2, <1>3

\* What the bot says last is what it has said last.
LEMMA NickSaidNow ==
    ASSUME STypeOK, sent' \in Seq(Message), toServer' = toServer \o sent'
    PROVE  /\ (\A i \in DOMAIN sent' : sent'[i].cmd # "NICK") =>
                 /\ NoNickSaid => NoNickSaid'
                 /\ me' = me /\ LastNickSaid(me) => LastNickSaid(me)'
           /\ sent' = <<[cmd |-> "NICK", nick |-> me']>> => LastNickSaid(me)'
<1>0. toServer \in Seq(Message)
  BY DEF STypeOK, WireOK
<1>1. /\ Len(toServer) \in Nat /\ Len(sent') \in Nat
      /\ DOMAIN toServer = 1 .. Len(toServer)
      /\ DOMAIN sent' = 1 .. Len(sent')
      /\ DOMAIN toServer' = 1 .. (Len(toServer) + Len(sent'))
      /\ \A i \in DOMAIN toServer' :
            toServer'[i] = IF i <= Len(toServer) THEN toServer[i] ELSE sent'[i - Len(toServer)]
  BY <1>0, ConcatProperties, LenProperties
<1>2. ASSUME \A i \in DOMAIN sent' : sent'[i].cmd # "NICK"
      PROVE  /\ NoNickSaid => NoNickSaid'
             /\ me' = me /\ LastNickSaid(me) => LastNickSaid(me)'
  <2>1. \A i \in DOMAIN toServer' : i > Len(toServer) => toServer'[i].cmd # "NICK"
    <3> SUFFICES ASSUME NEW i \in DOMAIN toServer', i > Len(toServer)
                 PROVE  toServer'[i].cmd # "NICK"
      OBVIOUS
    <3>1. i - Len(toServer) \in DOMAIN sent' /\ toServer'[i] = sent'[i - Len(toServer)]
      BY <1>1
    <3> QED
      BY <1>2, <3>1
  <2>2. \A i \in DOMAIN toServer : i \in DOMAIN toServer' /\ toServer'[i] = toServer[i]
    BY <1>1
  <2>3. NoNickSaid => NoNickSaid'
    BY <1>1, <2>1, <2>2 DEF NoNickSaid
  <2>4. me' = me /\ LastNickSaid(me) => LastNickSaid(me)'
    <3> SUFFICES ASSUME me' = me, LastNickSaid(me) PROVE LastNickSaid(me)'
      OBVIOUS
    <3>1. PICK i \in DOMAIN toServer :
             /\ toServer[i].cmd = "NICK" /\ toServer[i].nick = me
             /\ \A j \in DOMAIN toServer : j > i => toServer[j].cmd # "NICK"
      BY DEF LastNickSaid
    <3>2. \A j \in DOMAIN toServer' : j > i => toServer'[j].cmd # "NICK"
      BY <1>1, <2>1, <2>2, <3>1
    <3> QED
      BY <2>2, <3>1, <3>2 DEF LastNickSaid
  <2> QED
    BY <2>3, <2>4
<1>3. ASSUME sent' = <<[cmd |-> "NICK", nick |-> me']>>
      PROVE  LastNickSaid(me)'
  <2>1. Len(sent') = 1 /\ sent'[1] = [cmd |-> "NICK", nick |-> me']
    BY <1>3
  <2>2. /\ Len(toServer) + 1 \in DOMAIN toServer'
        /\ toServer'[Len(toServer) + 1] = [cmd |-> "NICK", nick |-> me']
        /\ \A j \in DOMAIN toServer' : ~(j > Len(toServer) + 1)
    BY <1>1, <2>1
  <2> QED
    BY <2>2 DEF LastNickSaid
<1> QED
  BY <1>2, <1>3

\* NickInv survives what the bot does.
LEMMA BotNickInv == STypeOK /\ NickInv /\ Bot => NickInv'
<1> SUFFICES ASSUME STypeOK, NickInv, Bot, up'
             PROVE  (RefusalComing \/ LastNickSaid(me) \/ (NoNickSaid /\ me = srvnick))'
  BY DEF NickInv
<1>0. /\ sent' \in Seq(Message)
      /\ toServer' = toServer \o sent' /\ srvnick' = srvnick
  BY BotSays, BotIsNext, NextTypeOK DEF STypeOK, TypeOK, server
<1>1. CASE SaysRefused
  BY <1>0, <1>1, NickSaidNow DEF SaysRefused
<1>2. CASE SaysNick
  BY <1>0, <1>2, NickSaidNow DEF SaysNick
<1>3. CASE SaysRejoin \/ SaysJoin \/ SaysPart \/ SaysNothing
  <2>1. /\ UNCHANGED <<me, up>>
        /\ \A i \in DOMAIN sent' : sent'[i].cmd # "NICK"
    <3>1. UNCHANGED <<me, up>>
      BY <1>3 DEF SaysRejoin, SaysJoin, SaysPart, SaysNothing, Obeys
    <3>2. ASSUME NEW x, sent' = <<x>>, x.cmd # "NICK"
          PROVE  \A i \in DOMAIN sent' : sent'[i].cmd # "NICK"
      <4>1. \A i \in DOMAIN sent' : sent'[i] = x
        BY <3>2
      <4> QED
        BY <3>2, <4>1
    <3>3. CASE SaysRejoin
      <4>1. PICK m \in BotMsg : sent' = <<[cmd |-> "JOIN", chan |-> m.chan]>>
        BY <3>3 DEF SaysRejoin
      <4> QED
        BY <3>1, <3>2, <4>1
    <3>4. CASE SaysJoin
      BY <3>1, <3>2, <3>4 DEF SaysJoin
    <3>5. CASE SaysPart
      BY <3>1, <3>2, <3>5 DEF SaysPart
    <3>6. CASE SaysNothing
      <4>1. sent' = << >>
        BY <3>6 DEF SaysNothing
      <4>2. DOMAIN sent' = {}
        BY <4>1
      <4> QED
        BY <3>1, <4>2
    <3> QED
      BY <1>3, <3>3, <3>4, <3>5, <3>6
  <2>2. UNCHANGED toBot \/ \E m \in BotMsg : Takes(m) /\ m.cmd # "433"
    BY <1>3 DEF SaysRejoin, SaysJoin, SaysPart, SaysNothing, Obeys
  <2>3. RefusalComing => RefusalComing'
    BY <2>2, RefusalStays
  <2>4. LastNickSaid(me) => LastNickSaid(me)'
    BY <1>0, <2>1, NickSaidNow
  <2>5. NoNickSaid /\ me = srvnick => (NoNickSaid /\ me = srvnick)'
    BY <1>0, <2>1, NickSaidNow
  <2> QED
    BY <2>1, <2>3, <2>4, <2>5 DEF NickInv
<1> QED
  BY <1>1, <1>2, <1>3, BotSays

\* A queue that has grown by two messages.
LEMMA QueueAppendTwo ==
    ASSUME NEW S, NEW q \in Seq(S), NEW a \in S, NEW b \in S
    PROVE  /\ q \o <<a, b>> \in Seq(S)
           /\ Len(q) \in Nat
           /\ Len(q \o <<a, b>>) = Len(q) + 2
           /\ DOMAIN q = 1 .. Len(q)
           /\ DOMAIN (q \o <<a, b>>) = 1 .. (Len(q) + 2)
           /\ \A i \in DOMAIN q : (q \o <<a, b>>)[i] = q[i]
           /\ (q \o <<a, b>>)[Len(q) + 1] = a
           /\ (q \o <<a, b>>)[Len(q) + 2] = b
<1>1. <<a, b>> \in Seq(S) /\ Len(<<a, b>>) = 2 /\ <<a, b>>[1] = a /\ <<a, b>>[2] = b
  OBVIOUS
<1> DEFINE t == <<a, b>>
<1> HIDE DEF t
<1>2. /\ q \o t \in Seq(S) /\ Len(q) \in Nat /\ Len(q \o t) = Len(q) + 2
      /\ \A i \in 1 .. (Len(q) + 2) : (q \o t)[i] = IF i <= Len(q) THEN q[i] ELSE t[i - Len(q)]
      /\ DOMAIN q = 1 .. Len(q)
      /\ DOMAIN (q \o t) = 1 .. Len(q \o t)
  BY <1>1, ConcatProperties, LenProperties DEF t
<1>3. /\ \A i \in DOMAIN q : (q \o t)[i] = q[i]
      /\ (q \o t)[Len(q) + 1] = a
      /\ (q \o t)[Len(q) + 2] = b
  BY <1>1, <1>2 DEF t
<1> QED
  BY <1>2, <1>3 DEF t

\* What the server answers comes after what it has said before.
LEMMA ServesTell ==
    ASSUME WireOK, ServeJoin \/ ServePart \/ ServeNick
    PROVE  \/ UNCHANGED toBot
           \/ \E m \in BotMsg : toBot' = Append(toBot, m)
           \/ \E m, l \in BotMsg : toBot' = toBot \o <<m, l>>
<1>1. /\ Head(toServer) \in Message
      /\ srvnick \in Nick
      /\ on' \in [Channel -> SUBSET Nick]
  BY QueueHead, ServesType DEF ServeJoin, ServePart, ServeNick, Serve, WireOK
<1>2. CASE ServeJoin
  <2>1. Head(toServer).chan \in Channel
    BY <1>1, <1>2, MessageFields DEF ServeJoin
  <2>2. /\ [cmd |-> "JOIN", nick |-> srvnick, chan |-> Head(toServer).chan] \in BotMsg
        /\ [cmd |-> "353", chan |-> Head(toServer).chan, names |-> on'[Head(toServer).chan]]
              \in BotMsg
    BY <1>1, <2>1 DEF BotMsg
  <2> QED
    BY <1>2, <2>2 DEF ServeJoin
<1>3. CASE ServePart
  <2>1. [cmd |-> "PART", nick |-> srvnick, chan |-> Head(toServer).chan] \in BotMsg
    BY <1>1, <1>3, MessageFields DEF ServePart, BotMsg
  <2> QED
    BY <1>3, <2>1 DEF ServePart, Tell
<1>4. CASE ServeNick
  <2>1. Head(toServer).nick \in Nick
    BY <1>1, <1>4, MessageFields DEF ServeNick
  <2>2. /\ [cmd |-> "433", nick |-> Head(toServer).nick] \in BotMsg
        /\ [cmd |-> "NICK", nick |-> srvnick, new |-> Head(toServer).nick] \in BotMsg
    BY <1>1, <2>1 DEF BotMsg
  <2> QED
    BY <1>4, <2>2 DEF ServeNick, Tell
<1> QED
  BY <1>2, <1>3, <1>4

\* NickInv survives what the server makes of the bot's messages.
LEMMA ServesNickInv ==
    STypeOK /\ NickInv /\ (ServeJoin \/ ServePart \/ ServeNick) => NickInv'
<1> SUFFICES ASSUME STypeOK, NickInv, ServeJoin \/ ServePart \/ ServeNick, up
             PROVE  (RefusalComing \/ LastNickSaid(me) \/ (NoNickSaid /\ me = srvnick))'
  BY DEF NickInv, ServeJoin, ServePart, ServeNick, Serve
<1>0. /\ toServer # << >> /\ toServer' = Tail(toServer)
      /\ UNCHANGED me
  BY DEF ServeJoin, ServePart, ServeNick, Serve, vars
<1>b. toBot \in Seq(BotMsg) /\ toBot' \in Seq(BotMsg)
  BY ServesType DEF STypeOK, WireOK
<1>1. RefusalComing => RefusalComing'
  <2> SUFFICES ASSUME RefusalComing PROVE RefusalComing'
    OBVIOUS
  <2>1. \A i \in DOMAIN toBot : i \in DOMAIN toBot' /\ toBot'[i] = toBot[i]
    <3>1. ASSUME NEW m \in BotMsg, toBot' = Append(toBot, m)
          PROVE  \A i \in DOMAIN toBot : i \in DOMAIN toBot' /\ toBot'[i] = toBot[i]
      BY <1>b, <3>1, QueueAppend
    <3>2. ASSUME NEW m \in BotMsg, NEW l \in BotMsg, toBot' = toBot \o <<m, l>>
          PROVE  \A i \in DOMAIN toBot : i \in DOMAIN toBot' /\ toBot'[i] = toBot[i]
      BY <1>b, <3>2, QueueAppendTwo
    <3> QED
      BY <3>1, <3>2, ServesTell DEF STypeOK
  <2> QED
    BY <2>1 DEF RefusalComing
<1>2. CASE LastNickSaid(me) /\ Head(toServer).cmd # "NICK"
  BY <1>0, <1>2, NickSaidAfter
<1>3. CASE NoNickSaid /\ me = srvnick
  <2>1. NoNickSaid' /\ Head(toServer).cmd # "NICK"
    BY <1>0, <1>3, NickSaidAfter, QueueHead DEF STypeOK, WireOK, NoNickSaid
  <2>2. srvnick' = srvnick
    BY <2>1 DEF ServeJoin, ServePart, ServeNick
  <2> QED
    BY <1>0, <1>3, <2>1, <2>2
<1>4. CASE LastNickSaid(me) /\ Head(toServer).cmd = "NICK"
  <2> DEFINE new == Head(toServer).nick
  <2>1. CASE new \in online \ {srvnick}
    <3>1. toBot' = Append(toBot, [cmd |-> "433", nick |-> new])
      BY <1>4, <2>1 DEF ServeJoin, ServePart, ServeNick
    <3>2. Len(toBot) + 1 \in DOMAIN toBot' /\ toBot'[Len(toBot) + 1].cmd = "433"
      BY <1>b, <3>1
    <3> QED
      BY <3>2 DEF RefusalComing
  <2>2. CASE new \notin online \ {srvnick}
    <3>1. srvnick' = new
      BY <1>4, <2>2 DEF ServeJoin, ServePart, ServeNick
    <3> QED
      BY <1>0, <1>4, <3>1, NickSaidAfter
  <2> QED
    BY <2>1, <2>2
<1> QED
  BY <1>1, <1>2, <1>3, <1>4 DEF NickInv

\* Nothing else disturbs NickInv.
LEMMA SessionNickInv == STypeOK /\ NickInv /\ [SessionNext]_svars => NickInv'
<1> SUFFICES ASSUME STypeOK, NickInv, [SessionNext]_svars PROVE NickInv'
  OBVIOUS
<1>1. CASE Clients
  <2>1. UNCHANGED <<me, srvnick, toServer, up>>
    BY <1>1, ClientsEvent DEF vars
  <2>2. RefusalComing => RefusalComing'
    BY <1>1, ClientsTell, RefusalStays
  <2> QED
    BY <2>1, <2>2 DEF NickInv, LastNickSaid, NoNickSaid
<1>2. CASE Reconnect
  <2>1. srvnick' = me' /\ toServer' = join_channels /\ conf \in [Channel -> Nat]
    BY <1>2 DEF Reconnect, vars, STypeOK, TypeOK
  <2>2. NoNickSaid'
    BY <2>1, JoinsShape, SessionAssumption DEF join_channels, NoNickSaid
  <2> QED
    BY <2>1, <2>2 DEF NickInv
<1>3. CASE UNCHANGED svars
  BY <1>3 DEF svars, vars, server, NickInv, RefusalComing, LastNickSaid, NoNickSaid
<1> QED
  BY <1>1, <1>2, <1>3, BotNickInv, ServesNickInv DEF SessionNext

\* The bot knows what it is called: whatever users ask of it, whatever others
\* take as their nicks and however often the connection is made again.
THEOREM BotKnowsOwnNick == SessionSpec => []KnowsOwnNick
<1>1. SessionInit => NickInv
  <2> SUFFICES ASSUME SessionInit PROVE NickInv
    OBVIOUS
  <2>1. me = srvnick
    BY DEF SessionInit, Init
  <2>2. NoNickSaid
    BY JoinsShape, SessionAssumption, ConstantsAssumption DEF SessionInit, NoNickSaid
  <2> QED
    BY <2>1, <2>2 DEF NickInv
<1>2. STypeOK /\ NickInv => KnowsOwnNick
  BY EmptySeq DEF NickInv, KnowsOwnNick, Quiet, RefusalComing, LastNickSaid
<1> QED
  BY <1>1, <1>2, SessionInitType, SessionNextType, SessionNickInv, PTL DEF SessionSpec

-----------------------------------------------------------------------------
(* The session: the channels the bot is on *)

\* What is under way.
Coming == ToSet(toBot)
Said == ToSet(toServer)

\* As long as nobody asks for another nick, the bot keeps its first one.
NickKept ==
    "nick" \notin setting.asks =>
        /\ me = FirstNick /\ srvnick = FirstNick
        /\ \A m \in Said : m.cmd # "NICK"
        /\ \A m \in Coming : m.cmd # "433"

\* Users ask for what the setting lets them ask.
AsksInv ==
    /\ \A m \in Coming : m.cmd = "PRIVMSG" => m.what.ask \in setting.asks
    /\ msg.cmd = "PRIVMSG" => msg.what.ask \in setting.asks

\* Whoever is on a channel is on the server.
OnlineInv == \A c \in Channel : on[c] \subseteq online

JoinSaid(c) == \E m \in Said : m.cmd = "JOIN" /\ m.chan = c
PartSaid(c) == \E m \in Said : m.cmd = "PART" /\ m.chan = c

About(m, c) == m.cmd \in {"JOIN", "PART", "KICK", "353"} /\ m.chan = c

KickComing(c) == \E m \in Coming : m.cmd = "KICK" /\ m.nick = me /\ m.chan = c

\* The bot is on the channel, on its way there, or hears or will hear of it.
InPlay(c) ==
    \/ BotOn(c)
    \/ JoinSaid(c)
    \/ \E m \in Coming : About(m, c)
    \/ frame.op = "names" /\ frame.chan = c
    \/ c \in clist

\* A bot that is never told to part has nothing to do with channels that are
\* not in its conf_channels list, and has not asked to leave any.
MeantInv ==
    "part" \notin setting.asks =>
        \A c \in Channel : ~PartSaid(c) /\ (InPlay(c) => conf[c] > 0)

\* It is on the channels of the list, or on its way there, or it is going to
\* hear that it has been kicked and will recognise the nick as its own.
HeldInv ==
    "part" \notin setting.asks /\ (setting.kicks => "nick" \notin setting.asks) =>
        \A c \in Channel : conf[c] > 0 =>
            BotOn(c) \/ JoinSaid(c) \/ (setting.kicks /\ KickComing(c))

\* A bot that is told to part, and never kicked, has asked to leave each channel
\* that is off its list after it has last asked to enter it.
PartLater(c) ==
    \A i \in DOMAIN toServer :
        toServer[i].cmd = "JOIN" /\ toServer[i].chan = c =>
            \E j \in DOMAIN toServer :
                j > i /\ toServer[j].cmd = "PART" /\ toServer[j].chan = c

LeftInv ==
    ~setting.kicks /\ "nick" \notin setting.asks =>
        \A c \in Channel :
            /\ ~KickComing(c)
            /\ conf[c] = 0 => (BotOn(c) => PartSaid(c)) /\ PartLater(c)

PlacesInv == NickKept /\ AsksInv /\ OnlineInv /\ MeantInv /\ HeldInv /\ LeftInv

\* What is under way when a message is taken or added.
LEMMA QueueSets ==
    ASSUME NEW S, NEW q \in Seq(S)
    PROVE  /\ q # << >> => ToSet(q) = {Head(q)} \cup ToSet(Tail(q))
           /\ \A m \in S : ToSet(Append(q, m)) = ToSet(q) \cup {m}
           /\ \A r \in Seq(S) : ToSet(q \o r) = ToSet(q) \cup ToSet(r)
           /\ ToSet(q) \subseteq S
<1>1. ASSUME q # << >>
      PROVE  ToSet(q) = {Head(q)} \cup ToSet(Tail(q))
  <2>1. /\ Head(q) = q[1] /\ 1 \in DOMAIN q
        /\ Len(q) \in Nat \ {0} /\ DOMAIN q = 1 .. Len(q)
        /\ DOMAIN Tail(q) = 1 .. (Len(q) - 1)
        /\ \A i \in DOMAIN Tail(q) : i + 1 \in DOMAIN q /\ Tail(q)[i] = q[i + 1]
    BY <1>1, QueueHead
  <2>2. ASSUME NEW i \in DOMAIN q
        PROVE  q[i] \in {Head(q)} \cup ToSet(Tail(q))
    <3>1. CASE i = 1
      BY <2>1, <3>1
    <3>2. CASE i # 1
      <4>1. i - 1 \in DOMAIN Tail(q) /\ Tail(q)[i - 1] = q[i]
        BY <2>1, <3>2
      <4> QED
        BY <4>1 DEF ToSet
    <3> QED
      BY <3>1, <3>2
  <2>3. {Head(q)} \cup ToSet(Tail(q)) \subseteq ToSet(q)
    BY <2>1 DEF ToSet
  <2> QED
    BY <2>2, <2>3 DEF ToSet
<1>2. ASSUME NEW m \in S
      PROVE  ToSet(Append(q, m)) = ToSet(q) \cup {m}
  <2>1. /\ Len(q) \in Nat /\ DOMAIN q = 1 .. Len(q)
        /\ DOMAIN Append(q, m) = 1 .. (Len(q) + 1)
        /\ \A i \in DOMAIN q : Append(q, m)[i] = q[i]
        /\ Append(q, m)[Len(q) + 1] = m
    BY QueueAppend
  <2> HIDE DEF ToSet
  <2> DEFINE t == Append(q, m)
  <2> HIDE DEF t
  <2>2. \A i \in DOMAIN t : i \in DOMAIN q \/ i = Len(q) + 1
    BY <2>1 DEF t
  <2>3. \A i \in DOMAIN q : i \in DOMAIN t
    BY <2>1 DEF t
  <2>4. Len(q) + 1 \in DOMAIN t
    BY <2>1 DEF t
  <2> QED
    BY <2>1, <2>2, <2>3, <2>4 DEF t, ToSet
<1>3. ASSUME NEW r \in Seq(S)
      PROVE  ToSet(q \o r) = ToSet(q) \cup ToSet(r)
  <2> DEFINE t == q \o r
  <2>1. /\ Len(q) \in Nat /\ DOMAIN q = 1 .. Len(q)
        /\ Len(r) \in Nat /\ DOMAIN r = 1 .. Len(r)
        /\ DOMAIN t = 1 .. (Len(q) + Len(r))
        /\ \A i \in DOMAIN t : t[i] = IF i <= Len(q) THEN q[i] ELSE r[i - Len(q)]
    BY ConcatProperties, LenProperties
  <2> HIDE DEF t
  <2>2. \A i \in DOMAIN t : t[i] \in ToSet(q) \cup ToSet(r)
    <3> SUFFICES ASSUME NEW i \in DOMAIN t PROVE t[i] \in ToSet(q) \cup ToSet(r)
      OBVIOUS
    <3>1. CASE i <= Len(q)
      <4>1. i \in DOMAIN q /\ t[i] = q[i]
        BY <2>1, <3>1
      <4> QED
        BY <4>1 DEF ToSet
    <3>2. CASE ~(i <= Len(q))
      <4>1. i - Len(q) \in DOMAIN r /\ t[i] = r[i - Len(q)]
        BY <2>1, <3>2
      <4> QED
        BY <4>1 DEF ToSet
    <3> QED
      BY <3>1, <3>2
  <2>3. \A i \in DOMAIN q : i \in DOMAIN t /\ t[i] = q[i]
    BY <2>1
  <2>4. \A i \in DOMAIN r : i + Len(q) \in DOMAIN t /\ t[i + Len(q)] = r[i]
    BY <2>1
  <2>5. ToSet(t) \subseteq ToSet(q) \cup ToSet(r)
    BY <2>2 DEF ToSet
  <2>6. ToSet(q) \subseteq ToSet(t) /\ ToSet(r) \subseteq ToSet(t)
    BY <2>3, <2>4 DEF ToSet
  <2> QED
    BY <2>5, <2>6 DEF t
<1>4. ToSet(q) \subseteq S
  BY ElementOfSeq, LenProperties DEF ToSet
<1> QED
  BY <1>1, <1>2, <1>3, <1>4

\* What comes to the bot when messages are added or taken.
LEMMA ComingAfter ==
    ASSUME WireOK
    PROVE  /\ UNCHANGED toBot => Coming' = Coming
           /\ \A m : Takes(m) => Coming = {m} \cup Coming'
           /\ \A m \in BotMsg : toBot' = Append(toBot, m) => Coming' = Coming \cup {m}
           /\ \A m, l \in BotMsg : toBot' = toBot \o <<m, l>> => Coming' = Coming \cup {m, l}
<1>0. toBot \in Seq(BotMsg)
  BY DEF WireOK
<1>1. ASSUME NEW m, Takes(m)
      PROVE  Coming = {m} \cup Coming'
  BY <1>0, <1>1, QueueSets DEF Takes, Coming
<1>2. ASSUME NEW m \in BotMsg, toBot' = Append(toBot, m)
      PROVE  Coming' = Coming \cup {m}
  BY <1>0, <1>2, QueueSets DEF Coming
<1>3. ASSUME NEW m \in BotMsg, NEW l \in BotMsg, toBot' = toBot \o <<m, l>>
      PROVE  Coming' = Coming \cup {m, l}
  <2> DEFINE t == <<m, l>>
  <2>1. t \in Seq(BotMsg)
    OBVIOUS
  <2>2. ToSet(t) = {m, l}
    BY DEF ToSet
  <2> HIDE DEF t
  <2>3. ToSet(toBot \o t) = ToSet(toBot) \cup ToSet(t)
    BY <1>0, <2>1, QueueSets
  <2>4. toBot' = toBot \o t
    BY <1>3 DEF t
  <2> QED
    BY <2>2, <2>3, <2>4 DEF Coming
<1>4. UNCHANGED toBot => Coming' = Coming
  BY DEF Coming
<1> QED
  BY <1>1, <1>2, <1>3, <1>4

\* What the clients do to the places of the bot, and what it will hear of that.
ClientsShow(m, heard) ==
    /\ toBot' = IF heard THEN Append(toBot, m) ELSE toBot
    /\ heard => /\ \A c \in Channel : About(m, c) => BotOn(c)
                /\ m.cmd = "KICK" /\ m.nick = srvnick => setting.kicks
                /\ m.cmd = "PRIVMSG" => m.what.ask \in setting.asks
                /\ m.cmd # "433"
    /\ \A c \in Channel : BotOn(c)' => BotOn(c)
    /\ \A c \in Channel : BotOn(c) /\ ~BotOn(c)' =>
          /\ setting.kicks /\ heard
          /\ m.cmd = "KICK" /\ m.nick = srvnick /\ m.chan = c

\* The bot only hears of channels it is on, and only leaves one when kicked.
LEMMA ClientsPlaces ==
    ASSUME WireOK, OnlineInv, Clients
    PROVE  OnlineInv' /\ \E m \in BotMsg, heard \in BOOLEAN : ClientsShow(m, heard)
<1>0. UNCHANGED srvnick
  BY ClientsEvent
<1>1. ASSUME NEW n \in Nick, NEW c \in Channel, UserJoin(n, c)
      PROVE  OnlineInv' /\ \E m \in BotMsg, heard \in BOOLEAN : ClientsShow(m, heard)
  <2> DEFINE m == [cmd |-> "JOIN", nick |-> n, chan |-> c]
  <2>1. m \in BotMsg /\ m.cmd = "JOIN" /\ m.chan = c
    BY DEF BotMsg
  <2>2. /\ n \in online \ (on[c] \cup {srvnick})
        /\ on' = [on EXCEPT ![c] = @ \cup {n}] /\ UNCHANGED online
        /\ Tell(BotOn(c), m)
    BY <1>1 DEF UserJoin
  <2> HIDE DEF m
  <2>3. OnlineInv' /\ \A d \in Channel : BotOn(d)' <=> BotOn(d)
    BY <1>0, <2>2 DEF WireOK, OnlineInv, BotOn
  <2>4. ClientsShow(m, BotOn(c))
    BY <2>1, <2>2, <2>3 DEF ClientsShow, Tell, About
  <2>5. BotOn(c) \in BOOLEAN
    BY DEF BotOn
  <2> QED
    BY <2>1, <2>3, <2>4, <2>5
<1>2. ASSUME NEW n \in Nick, NEW c \in Channel, UserPart(n, c)
      PROVE  OnlineInv' /\ \E m \in BotMsg, heard \in BOOLEAN : ClientsShow(m, heard)
  <2> DEFINE m == [cmd |-> "PART", nick |-> n, chan |-> c]
  <2>1. m \in BotMsg /\ m.cmd = "PART" /\ m.chan = c
    BY DEF BotMsg
  <2>2. /\ n \in on[c] \ {srvnick}
        /\ on' = [on EXCEPT ![c] = @ \ {n}] /\ UNCHANGED online
        /\ Tell(BotOn(c), m)
    BY <1>2 DEF UserPart
  <2> HIDE DEF m
  <2>3. OnlineInv' /\ \A d \in Channel : BotOn(d)' <=> BotOn(d)
    BY <1>0, <2>2 DEF WireOK, OnlineInv, BotOn
  <2>4. ClientsShow(m, BotOn(c))
    BY <2>1, <2>2, <2>3 DEF ClientsShow, Tell, About
  <2>5. BotOn(c) \in BOOLEAN
    BY DEF BotOn
  <2> QED
    BY <2>1, <2>3, <2>4, <2>5
<1>3. ASSUME NEW n \in Nick, UserQuit(n)
      PROVE  OnlineInv' /\ \E m \in BotMsg, heard \in BOOLEAN : ClientsShow(m, heard)
  <2> DEFINE m == [cmd |-> "QUIT", nick |-> n]
  <2>1. m \in BotMsg /\ m.cmd = "QUIT"
    BY DEF BotMsg
  <2>2. /\ n \in online \ {srvnick}
        /\ on' = [c \in Channel |-> on[c] \ {n}] /\ online' = online \ {n}
        /\ Tell(Seen(n), m)
    BY <1>3 DEF UserQuit
  <2> HIDE DEF m
  <2>3. OnlineInv' /\ \A d \in Channel : BotOn(d)' <=> BotOn(d)
    BY <1>0, <2>2 DEF WireOK, OnlineInv, BotOn
  <2>4. ClientsShow(m, Seen(n))
    BY <2>1, <2>2, <2>3 DEF ClientsShow, Tell, About
  <2>5. Seen(n) \in BOOLEAN
    BY DEF Seen
  <2> QED
    BY <2>1, <2>3, <2>4, <2>5
<1>4. ASSUME NEW n \in Nick, NEW c \in Channel, Kick(n, c)
      PROVE  OnlineInv' /\ \E m \in BotMsg, heard \in BOOLEAN : ClientsShow(m, heard)
  <2> DEFINE m == [cmd |-> "KICK", nick |-> n, chan |-> c]
  <2>1. m \in BotMsg /\ m.cmd = "KICK" /\ m.nick = n /\ m.chan = c
    BY DEF BotMsg
  <2>2. /\ n \in on[c] /\ (n = srvnick => setting.kicks)
        /\ on' = [on EXCEPT ![c] = @ \ {n}] /\ UNCHANGED online
        /\ Tell(BotOn(c), m)
    BY <1>4 DEF Kick
  <2> HIDE DEF m
  <2>3. /\ OnlineInv'
        /\ \A d \in Channel : BotOn(d)' => BotOn(d)
        /\ \A d \in Channel : BotOn(d) /\ ~BotOn(d)' => n = srvnick /\ d = c
    BY <1>0, <2>2 DEF WireOK, OnlineInv, BotOn
  <2>4. ClientsShow(m, BotOn(c))
    BY <2>1, <2>2, <2>3 DEF ClientsShow, Tell, About
  <2>5. BotOn(c) \in BOOLEAN
    BY DEF BotOn
  <2> QED
    BY <2>1, <2>3, <2>4, <2>5
<1>5. ASSUME NEW n \in Nick, NEW new \in Nick, UserNick(n, new)
      PROVE  OnlineInv' /\ \E m \in BotMsg, heard \in BOOLEAN : ClientsShow(m, heard)
  <2> DEFINE m == [cmd |-> "NICK", nick |-> n, new |-> new]
  <2>1. m \in BotMsg /\ m.cmd = "NICK"
    BY DEF BotMsg
  <2>2. /\ n \in online \ {srvnick} /\ new \notin online
        /\ on' = [c \in Channel |-> IF n \in on[c] THEN (on[c] \ {n}) \cup {new} ELSE on[c]]
        /\ online' = (online \ {n}) \cup {new}
        /\ Tell(Seen(n), m)
    BY <1>5 DEF UserNick
  <2> HIDE DEF m
  <2>3. OnlineInv' /\ \A d \in Channel : BotOn(d)' <=> BotOn(d)
    BY <1>0, <2>2 DEF WireOK, OnlineInv, BotOn
  <2>4. ClientsShow(m, Seen(n))
    BY <2>1, <2>2, <2>3 DEF ClientsShow, Tell, About
  <2>5. Seen(n) \in BOOLEAN
    BY DEF Seen
  <2> QED
    BY <2>1, <2>3, <2>4, <2>5
<1>6. ASSUME NEW n \in Nick, NEW what \in Request, Ask(n, what)
      PROVE  OnlineInv' /\ \E m \in BotMsg, heard \in BOOLEAN : ClientsShow(m, heard)
  <2> DEFINE m == [cmd |-> "PRIVMSG", nick |-> n, what |-> what]
  <2>1. m \in BotMsg /\ m.cmd = "PRIVMSG" /\ m.what = what
    BY DEF BotMsg
  <2>2. /\ what.ask \in setting.asks
        /\ UNCHANGED <<on, online>>
        /\ toBot' = Append(toBot, m)
    BY <1>6 DEF Ask
  <2> HIDE DEF m
  <2>3. OnlineInv' /\ \A d \in Channel : BotOn(d)' <=> BotOn(d)
    BY <1>0, <2>2 DEF OnlineInv, BotOn
  <2>4. ClientsShow(m, TRUE)
    BY <2>1, <2>2, <2>3 DEF ClientsShow, About
  <2> QED
    BY <2>1, <2>3, <2>4
<1> QED
  BY <1>1, <1>2, <1>3, <1>4, <1>5, <1>6 DEF Clients

\* Nothing a client does disturbs the invariants about the bot's places.
LEMMA ClientsPlacesInv == STypeOK /\ PlacesInv /\ Clients => PlacesInv'
<1> SUFFICES ASSUME STypeOK, PlacesInv, Clients PROVE PlacesInv'
  OBVIOUS
<1>0. UNCHANGED <<me, conf, clist, frame, setting, srvnick, toServer, msg>>
  BY ClientsEvent DEF vars
<1>1. OnlineInv'
  BY ClientsPlaces DEF STypeOK, PlacesInv
<1>2. PICK m \in BotMsg, heard \in BOOLEAN : ClientsShow(m, heard)
  BY ClientsPlaces DEF STypeOK, PlacesInv
<1>3. /\ Coming' = IF heard THEN Coming \cup {m} ELSE Coming
      /\ Said' = Said
  <2>1. toBot \in Seq(BotMsg) /\ toBot' = IF heard THEN Append(toBot, m) ELSE toBot
    BY <1>2 DEF ClientsShow, STypeOK, WireOK
  <2>2. ToSet(Append(toBot, m)) = ToSet(toBot) \cup {m}
    BY <2>1, QueueSets
  <2> QED
    BY <1>0, <2>1, <2>2 DEF Coming, Said
<1>4. NickKept'
  BY <1>0, <1>2, <1>3 DEF PlacesInv, NickKept, ClientsShow
<1>5. AsksInv'
  BY <1>0, <1>2, <1>3 DEF PlacesInv, AsksInv, ClientsShow
<1>6. \A c \in Channel : /\ JoinSaid(c)' <=> JoinSaid(c)
                         /\ PartSaid(c)' <=> PartSaid(c)
                         /\ PartLater(c)' <=> PartLater(c)
  BY <1>0, <1>3 DEF JoinSaid, PartSaid, PartLater
<1>7. ASSUME NEW c \in Channel, InPlay(c)'
      PROVE  InPlay(c)
  BY <1>0, <1>2, <1>3, <1>6, <1>7 DEF InPlay, ClientsShow
<1>8. MeantInv'
  BY <1>0, <1>6, <1>7 DEF PlacesInv, MeantInv
<1>9. ASSUME NEW c \in Channel, KickComing(c)
      PROVE  KickComing(c)'
  BY <1>0, <1>3, <1>9 DEF KickComing
<1>10. HeldInv'
  <2> SUFFICES ASSUME "part" \notin setting.asks, setting.kicks => "nick" \notin setting.asks,
                      NEW c \in Channel, conf[c] > 0
               PROVE  (BotOn(c) \/ JoinSaid(c) \/ (setting.kicks /\ KickComing(c)))'
    BY <1>0 DEF HeldInv
  <2>1. BotOn(c) \/ JoinSaid(c) \/ (setting.kicks /\ KickComing(c))
    BY DEF PlacesInv, HeldInv
  <2>2. CASE BotOn(c) /\ ~BotOn(c)'
    <3>1. /\ setting.kicks /\ heard
          /\ m.cmd = "KICK" /\ m.nick = srvnick /\ m.chan = c
      BY <1>2, <2>2 DEF ClientsShow
    <3>2. me' = srvnick
      BY <1>0, <3>1 DEF PlacesInv, NickKept
    <3>3. KickComing(c)'
      BY <1>3, <3>1, <3>2 DEF KickComing
    <3> QED
      BY <1>0, <3>1, <3>3
  <2> QED
    BY <1>0, <1>6, <1>9, <2>1, <2>2
<1>11. LeftInv'
  <2> SUFFICES ASSUME ~setting.kicks, "nick" \notin setting.asks, NEW c \in Channel
               PROVE  /\ ~KickComing(c)'
                      /\ conf[c] = 0 => (BotOn(c)' => PartSaid(c)') /\ PartLater(c)'
    BY <1>0 DEF LeftInv
  <2>1. me = srvnick
    BY DEF PlacesInv, NickKept
  <2>2. ~KickComing(c)'
    BY <1>0, <1>2, <1>3, <2>1 DEF PlacesInv, LeftInv, KickComing, ClientsShow
  <2>3. BotOn(c)' => BotOn(c)
    BY <1>2 DEF ClientsShow
  <2> QED
    BY <1>6, <2>2, <2>3 DEF PlacesInv, LeftInv
<1> QED
  BY <1>1, <1>4, <1>5, <1>8, <1>10, <1>11 DEF PlacesInv

\* What the bot still has said when the server has taken the first of it.
LEMMA SaidAfter ==
    ASSUME STypeOK, toServer # << >>, toServer' = Tail(toServer)
    PROVE  /\ Said = {Head(toServer)} \cup Said'
           /\ \A c \in Channel : PartLater(c) =>
                 /\ PartLater(c)'
                 /\ Head(toServer).cmd = "JOIN" /\ Head(toServer).chan = c => PartSaid(c)'
<1>0. toServer \in Seq(Message)
  BY DEF STypeOK, WireOK
<1>1. Said = {Head(toServer)} \cup Said'
  BY <1>0, QueueSets DEF Said
<1>2. /\ Head(toServer) = toServer[1]
      /\ 1 \in DOMAIN toServer
      /\ Len(toServer) \in Nat \ {0}
      /\ DOMAIN toServer = 1 .. Len(toServer)
      /\ DOMAIN toServer' = 1 .. (Len(toServer) - 1)
      /\ \A i \in DOMAIN toServer' : i + 1 \in DOMAIN toServer /\ toServer'[i] = toServer[i + 1]
  BY <1>0, QueueHead
<1>3. \A j \in DOMAIN toServer : j > 1 => j - 1 \in DOMAIN toServer' /\ toServer'[j - 1] = toServer[j]
  BY <1>2
<1>4. ASSUME NEW c \in Channel, PartLater(c)
      PROVE  PartLater(c)'
  <2> SUFFICES ASSUME NEW i \in DOMAIN toServer', toServer'[i].cmd = "JOIN", toServer'[i].chan = c
               PROVE  \E j \in DOMAIN toServer' :
                         j > i /\ toServer'[j].cmd = "PART" /\ toServer'[j].chan = c
    BY DEF PartLater
  <2>1. i + 1 \in DOMAIN toServer /\ toServer[i + 1] = toServer'[i]
    BY <1>2
  <2>2. PICK j \in DOMAIN toServer :
          j > i + 1 /\ toServer[j].cmd = "PART" /\ toServer[j].chan = c
    BY <1>4, <2>1 DEF PartLater
  <2>3. j - 1 \in DOMAIN toServer' /\ toServer'[j - 1] = toServer[j] /\ j - 1 > i
    BY <1>2, <1>3, <2>2
  <2> QED
    BY <2>2, <2>3
<1>5. ASSUME NEW c \in Channel, PartLater(c),
             Head(toServer).cmd = "JOIN", Head(toServer).chan = c
      PROVE  PartSaid(c)'
  <2>1. PICK j \in DOMAIN toServer :
          j > 1 /\ toServer[j].cmd = "PART" /\ toServer[j].chan = c
    BY <1>2, <1>5 DEF PartLater
  <2>2. j - 1 \in DOMAIN toServer' /\ toServer'[j - 1] = toServer[j]
    BY <1>3, <2>1
  <2> QED
    BY <2>1, <2>2 DEF PartSaid, Said, ToSet
<1> QED
  BY <1>1, <1>4, <1>5

\* The server's answers leave the invariants about the bot's places true.
LEMMA ServesPlacesInv ==
    STypeOK /\ PlacesInv /\ (ServeJoin \/ ServePart \/ ServeNick) => PlacesInv'
<1> SUFFICES ASSUME STypeOK, PlacesInv, ServeJoin \/ ServePart \/ ServeNick
             PROVE  PlacesInv'
  OBVIOUS
<1> DEFINE m == Head(toServer)
<1>0. /\ toServer # << >> /\ toServer' = Tail(toServer)
      /\ UNCHANGED <<me, conf, clist, frame, setting, msg>>
  BY DEF ServeJoin, ServePart, ServeNick, Serve, vars
<1>1. /\ m \in Message /\ m \in Said
      /\ Said = {m} \cup Said'
      /\ \A c \in Channel : PartLater(c) =>
            PartLater(c)' /\ (m.cmd = "JOIN" /\ m.chan = c => PartSaid(c)')
      /\ toBot \in Seq(BotMsg) /\ srvnick \in Nick
  BY <1>0, QueueHead, SaidAfter DEF STypeOK, WireOK
<1> HIDE DEF m
<1>2. CASE ServeJoin
  <2> DEFINE c == m.chan
             j == [cmd |-> "JOIN", nick |-> srvnick, chan |-> c]
             l == [cmd |-> "353", chan |-> c, names |-> on'[c]]
  <2>1. /\ m.cmd = "JOIN" /\ c \in Channel
        /\ on' = [on EXCEPT ![c] = @ \cup {srvnick}] /\ UNCHANGED <<online, srvnick>>
    BY <1>1, <1>2, MessageFields DEF ServeJoin, m
  <2>2. toBot' = IF BotOn(c) THEN toBot ELSE toBot \o <<j, l>>
    BY <1>2 DEF ServeJoin, m
  <2>3. j \in BotMsg /\ l \in BotMsg
    BY <1>1, <2>1 DEF BotMsg, STypeOK, WireOK
  <2>4. /\ j.cmd = "JOIN" /\ j.chan = c /\ j.nick = srvnick
        /\ l.cmd = "353" /\ l.chan = c
    OBVIOUS
  <2> HIDE DEF c, j, l
  <2>5. \A x \in Coming' : x \in Coming \/ x = j \/ x = l
    BY <2>2, <2>3, ComingAfter DEF STypeOK
  <2>6. Coming \subseteq Coming'
    BY <2>2, <2>3, ComingAfter DEF STypeOK
  <2>7. \A d \in Channel : BotOn(d)' <=> BotOn(d) \/ d = c
    BY <2>1 DEF BotOn, STypeOK, WireOK
  <2>8. NickKept' /\ AsksInv'
    BY <1>0, <1>1, <2>1, <2>4, <2>5 DEF PlacesInv, NickKept, AsksInv
  <2>9. OnlineInv'
    BY <2>1 DEF PlacesInv, OnlineInv, STypeOK, WireOK
  <2>10. ASSUME NEW d \in Channel
         PROVE  /\ JoinSaid(d)' => JoinSaid(d)
                /\ JoinSaid(d) => JoinSaid(d)' \/ d = c
                /\ PartSaid(d)' <=> PartSaid(d)
                /\ KickComing(d)' <=> KickComing(d)
    <3>1. /\ JoinSaid(d)' => JoinSaid(d)
          /\ JoinSaid(d) => JoinSaid(d)' \/ d = c
      BY <1>1, <2>1 DEF JoinSaid, c
    <3>2. PartSaid(d)' <=> PartSaid(d)
      BY <1>1, <2>1 DEF PartSaid
    <3>3. KickComing(d)' <=> KickComing(d)
      BY <1>0, <2>4, <2>5, <2>6 DEF KickComing
    <3> QED
      BY <3>1, <3>2, <3>3
  <2>11. ASSUME NEW d \in Channel, InPlay(d)'
         PROVE  InPlay(d)
    <3>1. JoinSaid(c)
      BY <1>1, <2>1 DEF JoinSaid, c
    <3> QED
      BY <1>0, <2>4, <2>5, <2>7, <2>10, <2>11, <3>1 DEF InPlay, About
  <2>12. MeantInv'
    BY <1>0, <2>10, <2>11 DEF PlacesInv, MeantInv
  <2>13. HeldInv'
    BY <1>0, <2>7, <2>10 DEF PlacesInv, HeldInv
  <2>14. LeftInv'
    <3> SUFFICES ASSUME ~setting.kicks, "nick" \notin setting.asks, NEW d \in Channel
                 PROVE  /\ ~KickComing(d)'
                        /\ conf[d] = 0 => (BotOn(d)' => PartSaid(d)') /\ PartLater(d)'
      BY <1>0 DEF LeftInv
    <3>1. /\ ~KickComing(d)
          /\ conf[d] = 0 => (BotOn(d) => PartSaid(d)) /\ PartLater(d)
      BY DEF PlacesInv, LeftInv
    <3> QED
      BY <1>1, <2>1, <2>7, <2>10, <3>1 DEF c
  <2> QED
    BY <2>8, <2>9, <2>12, <2>13, <2>14 DEF PlacesInv
<1>3. CASE ServePart
  <2> DEFINE c == m.chan
             p == [cmd |-> "PART", nick |-> srvnick, chan |-> c]
  <2>1. /\ m.cmd = "PART" /\ c \in Channel
        /\ on' = [on EXCEPT ![c] = @ \ {srvnick}] /\ UNCHANGED <<online, srvnick>>
    BY <1>1, <1>3, MessageFields DEF ServePart, m
  <2>2. toBot' = IF BotOn(c) THEN Append(toBot, p) ELSE toBot
    BY <1>3 DEF ServePart, m, Tell
  <2>3. p \in BotMsg /\ p.cmd = "PART" /\ p.chan = c
    BY <1>1, <2>1 DEF BotMsg
  <2> HIDE DEF c, p
  <2>5. Coming' = IF BotOn(c) THEN Coming \cup {p} ELSE Coming
    BY <2>2, <2>3, ComingAfter DEF STypeOK
  <2>7. \A d \in Channel : BotOn(d)' <=> BotOn(d) /\ d # c
    BY <2>1 DEF BotOn, STypeOK, WireOK
  <2>8. NickKept' /\ AsksInv'
    BY <1>0, <1>1, <2>1, <2>3, <2>5 DEF PlacesInv, NickKept, AsksInv
  <2>9. OnlineInv'
    BY <2>1 DEF PlacesInv, OnlineInv, STypeOK, WireOK
  <2>10. ASSUME NEW d \in Channel
         PROVE  /\ JoinSaid(d)' <=> JoinSaid(d)
                /\ PartSaid(d)' => PartSaid(d)
                /\ PartSaid(d) => PartSaid(d)' \/ d = c
                /\ KickComing(d)' <=> KickComing(d)
    BY <1>0, <1>1, <2>1, <2>3, <2>5 DEF JoinSaid, PartSaid, KickComing, c
  <2>11. ASSUME NEW d \in Channel, InPlay(d)'
         PROVE  InPlay(d)
    BY <1>0, <2>3, <2>5, <2>7, <2>10, <2>11 DEF InPlay, About
  <2>12. MeantInv'
    BY <1>0, <2>10, <2>11 DEF PlacesInv, MeantInv
  <2>13. HeldInv'
    <3>1. PartSaid(c)
      BY <1>1, <2>1 DEF PartSaid, c
    <3> QED
      BY <1>0, <2>1, <3>1 DEF PlacesInv, MeantInv, HeldInv
  <2>14. LeftInv'
    <3> SUFFICES ASSUME ~setting.kicks, "nick" \notin setting.asks, NEW d \in Channel
                 PROVE  /\ ~KickComing(d)'
                        /\ conf[d] = 0 => (BotOn(d)' => PartSaid(d)') /\ PartLater(d)'
      BY <1>0 DEF LeftInv
    <3>1. /\ ~KickComing(d)
          /\ conf[d] = 0 => (BotOn(d) => PartSaid(d)) /\ PartLater(d)
      BY DEF PlacesInv, LeftInv
    <3> QED
      BY <1>1, <2>7, <2>10, <3>1
  <2> QED
    BY <2>8, <2>9, <2>12, <2>13, <2>14 DEF PlacesInv
<1>4. CASE ServeNick
  <2> DEFINE new == m.nick
             r == [cmd |-> "433", nick |-> new]
             p == [cmd |-> "NICK", nick |-> srvnick, new |-> new]
  <2>1. m.cmd = "NICK" /\ new \in Nick /\ "nick" \in setting.asks
    BY <1>1, <1>4, MessageFields DEF ServeNick, m, PlacesInv, NickKept
  <2>2. \/ /\ toBot' = Append(toBot, r)
           /\ UNCHANGED <<online, srvnick, on>>
        \/ /\ new \notin online \ {srvnick}
           /\ srvnick' = new
           /\ online' = (online \ {srvnick}) \cup {new}
           /\ on' = [c \in Channel |-> IF BotOn(c) THEN (on[c] \ {srvnick}) \cup {new} ELSE on[c]]
           /\ toBot' = IF new # srvnick THEN Append(toBot, p) ELSE toBot
    BY <1>4 DEF ServeNick, m, Tell
  <2>3. r \in BotMsg /\ p \in BotMsg /\ r.cmd = "433" /\ p.cmd = "NICK"
    BY <1>1, <2>1 DEF BotMsg
  <2> HIDE DEF new, r, p
  <2>5. Coming \subseteq Coming' /\ Coming' \subseteq Coming \cup {r, p}
    <3>1. CASE toBot' = Append(toBot, r)
      BY <2>3, <3>1, ComingAfter DEF STypeOK
    <3>2. CASE toBot' = Append(toBot, p)
      BY <2>3, <3>2, ComingAfter DEF STypeOK
    <3>3. CASE UNCHANGED toBot
      BY <3>3, ComingAfter DEF STypeOK
    <3> QED
      BY <2>2, <3>1, <3>2, <3>3
  <2>7. \A d \in Channel : BotOn(d)' <=> BotOn(d)
    BY <2>1, <2>2 DEF BotOn, STypeOK, WireOK, PlacesInv, OnlineInv
  <2>8. NickKept' /\ AsksInv' /\ LeftInv'
    BY <1>0, <1>1, <2>1, <2>3, <2>5 DEF PlacesInv, NickKept, AsksInv, LeftInv
  <2>9. OnlineInv'
    <3>1. CASE UNCHANGED <<online, srvnick, on>>
      BY <3>1 DEF PlacesInv, OnlineInv
    <3>2. CASE ~UNCHANGED <<online, srvnick, on>>
      <4>1. \A d \in Channel : \/ on'[d] \subseteq (on[d] \ {srvnick}) \cup {new}
                               \/ on'[d] = on[d] /\ ~BotOn(d)
        BY <2>2, <3>2
      <4>2. online' = (online \ {srvnick}) \cup {new}
        BY <2>2, <3>2
      <4> QED
        BY <4>1, <4>2 DEF PlacesInv, OnlineInv, BotOn
    <3> QED
      BY <3>1, <3>2
  <2>10. ASSUME NEW d \in Channel
         PROVE  /\ JoinSaid(d)' <=> JoinSaid(d)
                /\ PartSaid(d)' <=> PartSaid(d)
    BY <1>0, <1>1, <2>1 DEF JoinSaid, PartSaid
  <2>11. ASSUME NEW d \in Channel, InPlay(d)'
         PROVE  InPlay(d)
    BY <1>0, <2>3, <2>5, <2>7, <2>10, <2>11 DEF InPlay, About
  <2>12. MeantInv'
    BY <1>0, <2>10, <2>11 DEF PlacesInv, MeantInv
  <2>13. HeldInv'
    BY <1>0, <2>1, <2>7, <2>10 DEF PlacesInv, HeldInv
  <2> QED
    BY <2>8, <2>9, <2>12, <2>13 DEF PlacesInv
<1> QED
  BY <1>2, <1>3, <1>4

\* A new connection leaves the invariants about the bot's places true.
LEMMA ReconnectPlacesInv == STypeOK /\ PlacesInv /\ Reconnect => PlacesInv'
<1> SUFFICES ASSUME STypeOK, PlacesInv, Reconnect PROVE PlacesInv'
  OBVIOUS
<1>0. /\ UNCHANGED <<me, conf, clist, frame, setting, msg>>
      /\ frame = Idle
      /\ srvnick' = me /\ me \notin online \ {srvnick}
      /\ online' = (online \ {srvnick}) \cup {me}
      /\ on' = [c \in Channel |-> on[c] \ {srvnick}]
      /\ toBot' = << >>
  BY DEF Reconnect, vars
<1>1. /\ \A m \in Said' : m.cmd = "JOIN" /\ m.chan \in Channel /\ conf[m.chan] > 0
      /\ \A c \in Channel : conf[c] > 0 => JoinSaid(c)'
  <2> DEFINE C == {d \in Channel : conf[d] > 0}
  <2>1. /\ \A i \in DOMAIN toServer' : toServer'[i].cmd = "JOIN" /\ toServer'[i].chan \in C
        /\ \A c \in C : \E i \in DOMAIN toServer' : toServer'[i] = [cmd |-> "JOIN", chan |-> c]
    <3> DEFINE J == SetToSeq({[cmd |-> "JOIN", chan |-> c] : c \in C})
    <3>1. C \in SUBSET Channel
      OBVIOUS
    <3>2. toServer' = J
      BY DEF Reconnect, join_channels
    <3> HIDE DEF C
    <3>3. /\ \A i \in DOMAIN J : J[i].cmd = "JOIN" /\ J[i].chan \in C
          /\ \A c \in C : \E i \in DOMAIN J : J[i] = [cmd |-> "JOIN", chan |-> c]
      BY <3>1, JoinsShape, SessionAssumption
    <3> HIDE DEF J
    <3> QED
      BY <3>2, <3>3
  <2>2. \A m \in Said' : m.cmd = "JOIN" /\ m.chan \in C
    BY <2>1 DEF Said, ToSet
  <2>3. ASSUME NEW c \in C
        PROVE  JoinSaid(c)'
    <3>1. [cmd |-> "JOIN", chan |-> c] \in Said'
      BY <2>1 DEF Said, ToSet
    <3> QED
      BY <3>1 DEF JoinSaid
  <2> QED
    BY <2>2, <2>3
<1>2. Coming' = {}
  BY <1>0 DEF Coming, ToSet
<1>3. \A c \in Channel : ~BotOn(c)'
  BY <1>0 DEF BotOn, STypeOK, WireOK, PlacesInv, OnlineInv
<1>4. \A c \in Channel : ~PartSaid(c)' /\ ~KickComing(c)'
  BY <1>1, <1>2 DEF PartSaid, KickComing
<1>5. NickKept' /\ AsksInv'
  BY <1>0, <1>1, <1>2 DEF PlacesInv, NickKept, AsksInv
<1>6. OnlineInv'
  BY <1>0 DEF PlacesInv, OnlineInv
<1>7. ASSUME NEW c \in Channel, InPlay(c)'
      PROVE  InPlay(c) \/ conf[c] > 0
  <2>1. JoinSaid(c)' => conf[c] > 0
    BY <1>1 DEF JoinSaid
  <2> QED
    BY <1>0, <1>2, <1>3, <1>7, <2>1 DEF InPlay
<1>8. MeantInv'
  BY <1>0, <1>4, <1>7 DEF PlacesInv, MeantInv
<1>9. HeldInv'
  BY <1>0, <1>1 DEF HeldInv
<1>10. LeftInv'
  <2>1. ASSUME NEW c \in Channel, conf[c] = 0
        PROVE  PartLater(c)'
    <3>1. \A i \in DOMAIN toServer' : toServer'[i] \in Said'
      BY DEF Said, ToSet
    <3>2. ~(conf[c] > 0)
      BY <2>1
    <3> QED
      BY <1>1, <3>1, <3>2 DEF PartLater
  <2> QED
    BY <1>0, <1>3, <1>4, <2>1 DEF LeftInv
<1> QED
  BY <1>5, <1>6, <1>8, <1>9, <1>10 DEF PlacesInv

\* What the bot has said when it says one thing more.
LEMMA SaidMore ==
    ASSUME STypeOK, NEW x \in Message, toServer' = toServer \o <<x>>
    PROVE  /\ Said' = Said \cup {x}
           /\ \A c \in Channel :
                 /\ PartLater(c) /\ ~(x.cmd = "JOIN" /\ x.chan = c) => PartLater(c)'
                 /\ x.cmd = "PART" /\ x.chan = c => PartLater(c)'
<1>0. toServer \in Seq(Message) /\ toServer' = Append(toServer, x)
  BY AppendIsConcat DEF STypeOK, WireOK
<1>1. Said' = Said \cup {x}
  <2>1. ToSet(Append(toServer, x)) = ToSet(toServer) \cup {x}
    BY <1>0, QueueSets
  <2> QED
    BY <1>0, <2>1 DEF Said
<1>2. /\ Len(toServer) \in Nat
      /\ DOMAIN toServer = 1 .. Len(toServer)
      /\ DOMAIN toServer' = 1 .. (Len(toServer) + 1)
      /\ \A i \in DOMAIN toServer : toServer'[i] = toServer[i]
      /\ toServer'[Len(toServer) + 1] = x
  BY <1>0, QueueAppend
<1>3. ASSUME NEW c \in Channel, PartLater(c), ~(x.cmd = "JOIN" /\ x.chan = c)
      PROVE  PartLater(c)'
  <2> SUFFICES ASSUME NEW i \in DOMAIN toServer', toServer'[i].cmd = "JOIN", toServer'[i].chan = c
               PROVE  \E j \in DOMAIN toServer' :
                         j > i /\ toServer'[j].cmd = "PART" /\ toServer'[j].chan = c
    BY DEF PartLater
  <2>1. i \in DOMAIN toServer
    BY <1>2, <1>3
  <2>2. PICK j \in DOMAIN toServer : j > i /\ toServer[j].cmd = "PART" /\ toServer[j].chan = c
    BY <1>2, <1>3, <2>1 DEF PartLater
  <2>3. j \in DOMAIN toServer'
    BY <1>2
  <2> QED
    BY <1>2, <2>2, <2>3
<1>4. ASSUME NEW c \in Channel, x.cmd = "PART", x.chan = c
      PROVE  PartLater(c)'
  <2> SUFFICES ASSUME NEW i \in DOMAIN toServer', toServer'[i].cmd = "JOIN", toServer'[i].chan = c
               PROVE  \E j \in DOMAIN toServer' :
                         j > i /\ toServer'[j].cmd = "PART" /\ toServer'[j].chan = c
    BY DEF PartLater
  <2>1. i # Len(toServer) + 1
    BY <1>2, <1>4
  <2>2. Len(toServer) + 1 \in DOMAIN toServer' /\ Len(toServer) + 1 > i
    BY <1>2, <2>1
  <2> QED
    BY <1>2, <1>4, <2>2
<1> QED
  BY <1>1, <1>3, <1>4

\* The bot tracks a channel when it is told of it, not otherwise.
LEMMA BotTracks ==
    ASSUME STypeOK, Bot, NEW c \in Channel,
           c \in clist' \/ (frame'.op = "names" /\ frame'.chan = c)
    PROVE  \/ c \in clist \/ (frame.op = "names" /\ frame.chan = c)
           \/ \E m \in BotMsg : Takes(m) /\ About(m, c)
<1>a. ASSUME NEW n, NEW d, AddUserToChannel(n, d)
      PROVE  clist' \subseteq clist \cup {d}
  BY <1>a DEF AddUserToChannel, LinkUserToChannel, links
<1>1. CASE Receive
  <2> DEFINE m == Head(toBot)
  <2>1. m \in BotMsg /\ Takes(m)
    BY <1>1, QueueHead DEF Receive, STypeOK, WireOK, Takes
  <2>2. \/ m.cmd = "JOIN"    /\ sm_join(m.nick, m.chan)
        \/ m.cmd = "PART"    /\ sm_part(m.nick, m.chan)
        \/ m.cmd = "KICK"    /\ sm_kick(m.nick, m.chan)
        \/ m.cmd = "QUIT"    /\ sm_quit(m.nick)
        \/ m.cmd = "NICK"    /\ sm_nick(m.nick, m.new)
        \/ m.cmd = "PRIVMSG" /\ sm_privmsg(m.nick)
        \/ m.cmd = "353"     /\ get_users_from_chan(m.chan)
        \/ m.cmd = "433"     /\ numeric_nickinuse
    BY <1>1 DEF Receive
  <2> HIDE DEF m
  <2>3. CASE m.cmd = "JOIN"
    <3>1. sm_join(m.nick, m.chan)
      BY <2>2, <2>3
    <3>2. clist' \subseteq clist \cup {m.chan} /\ UNCHANGED frame
      BY <3>1, <1>a DEF sm_join
    <3> QED
      BY <2>1, <2>3, <3>2 DEF About
  <2>4. CASE m.cmd = "353"
    <3>1. UNCHANGED clist /\ frame'.chan = m.chan
      BY <2>2, <2>4 DEF get_users_from_chan, links
    <3> QED
      BY <2>1, <2>4, <3>1 DEF About
  <2>5. CASE m.cmd \notin {"JOIN", "353"}
    <3>1. UNCHANGED clist
      BY <2>2, <2>5 DEF sm_part, sm_kick, sm_quit, sm_nick, sm_privmsg, numeric_nickinuse, links
    <3>2. frame'.op # "names"
      BY <2>2, <2>5, UnlinkFrame
      DEF sm_part, sm_kick, sm_quit, sm_nick, sm_privmsg, numeric_nickinuse, Idle, Crashed
    <3> QED
      BY <3>1, <3>2
  <2> QED
    BY <2>3, <2>4, <2>5
<1>2. CASE Handle
  <2>1. clist' \subseteq clist /\ frame'.op # "names"
    BY <1>2, UnlinkFrame
    DEF Handle, msg_join, msg_part, msg_nick, NamesEnd, QuitStep, DelChannelStep, Idle, Crashed, links
  <2> QED
    BY <2>1
<1>3. ASSUME NEW n \in Nick, HandleName(n)
      PROVE  c \in clist \/ (frame.op = "names" /\ frame.chan = c)
  <2>1. frame.op = "names" /\ clist' \subseteq clist \cup {frame.chan}
    BY <1>3, <1>a DEF HandleName, NamesStep
  <2>2. frame \in [op : {"names"}, chan : Channel, left : 0 .. MaxNames]
    BY <2>1 DEF STypeOK, TypeOK, Frame, Idle, Crashed
  <2>3. frame' = [frame EXCEPT !.left = @ - 1]
    BY <1>3 DEF HandleName, NamesStep
  <2>4. frame'.chan = frame.chan
    BY <2>2, <2>3
  <2> QED
    BY <2>1, <2>4
<1>4. CASE Housekeeping
  <2>1. UNCHANGED clist /\ frame'.op # "names"
    BY <1>4 DEF Housekeeping, ReapUserList, ReapStep, GrowOld, Idle, links
  <2> QED
    BY <2>1
<1> QED
  BY <1>1, <1>2, <1>3, <1>4 DEF Bot

\* What the bot has in hand it has been told.
LEMMA BotInHand ==
    ASSUME STypeOK, Bot, msg'.cmd = "PRIVMSG"
    PROVE  msg' = msg \/ Takes(msg')
BY DEF Bot, Receive, Handle, HandleName, Housekeeping, Takes, NoMsg, STypeOK, WireOK, BotMsg

\* What the bot does leaves the invariants about its places true.
LEMMA BotPlacesInv == STypeOK /\ PlacesInv /\ Bot => PlacesInv'
<1> SUFFICES ASSUME STypeOK, PlacesInv, Bot PROVE PlacesInv'
  OBVIOUS
<1>0. /\ UNCHANGED <<setting, online, srvnick, on>>
      /\ toServer' = toServer \o sent'
      /\ SaysRefused \/ SaysRejoin \/ SaysNick \/ SaysJoin \/ SaysPart \/ SaysNothing
  BY BotSays DEF server
<1>1. OnlineInv' /\ \A c \in Channel : BotOn(c)' <=> BotOn(c)
  BY <1>0 DEF PlacesInv, OnlineInv, BotOn
<1>2. Coming' = Coming \/ \E m \in BotMsg : Takes(m) /\ Coming = {m} \cup Coming'
  <2>1. UNCHANGED toBot \/ \E m \in BotMsg : Takes(m)
    BY <1>0 DEF SaysRefused, SaysRejoin, SaysNick, SaysJoin, SaysPart, SaysNothing, Obeys
  <2> QED
    BY <2>1, ComingAfter DEF STypeOK
<1>3. AsksInv'
  <2>1. \A m : Takes(m) => m \in Coming
    BY ComingAfter DEF STypeOK
  <2>2. msg'.cmd = "PRIVMSG" => msg'.what.ask \in setting.asks
    BY <2>1, BotInHand DEF PlacesInv, AsksInv
  <2> QED
    BY <1>0, <1>2, <2>2 DEF PlacesInv, AsksInv
<1>4. ASSUME NEW c \in Channel, InPlay(c)', JoinSaid(c)' => InPlay(c)
      PROVE  InPlay(c)
  <2>1. \A m : Takes(m) => m \in Coming
    BY ComingAfter DEF STypeOK
  <2> QED
    BY <1>1, <1>2, <1>4, <2>1, BotTracks DEF InPlay
<1>5. CASE SaysRefused \/ SaysNick
  <2>1. "nick" \in setting.asks
    BY <1>5, ComingAfter DEF SaysRefused, SaysNick, Obeys, PlacesInv, NickKept, AsksInv, STypeOK
  <2>2. UNCHANGED conf
    BY <1>5 DEF SaysRefused, SaysNick
  <2>3. Said' = Said \/ \E x \in Message : x.cmd = "NICK" /\ Said' = Said \cup {x}
    <3>1. me' \in Nick
      BY BotIsNext, NextTypeOK DEF STypeOK, TypeOK
    <3>2. CASE sent' = << >>
      BY <1>0, <3>2, ConcatEmptySeq DEF Said, STypeOK, WireOK
    <3>3. CASE sent' = <<[cmd |-> "NICK", nick |-> me']>>
      <4>1. [cmd |-> "NICK", nick |-> me'] \in Message
        BY <3>1 DEF Message
      <4> QED
        BY <1>0, <3>3, <4>1, SaidMore
    <3> QED
      BY <1>5, <3>2, <3>3 DEF SaysRefused, SaysNick
  <2>4. \A c \in Channel : (JoinSaid(c)' <=> JoinSaid(c)) /\ (PartSaid(c)' <=> PartSaid(c))
    BY <2>3 DEF JoinSaid, PartSaid
  <2>5. MeantInv'
    BY <1>0, <1>4, <2>2, <2>4 DEF PlacesInv, MeantInv, InPlay
  <2>6. HeldInv'
    BY <1>0, <1>1, <2>1, <2>2, <2>4 DEF PlacesInv, HeldInv
  <2>7. NickKept' /\ LeftInv'
    BY <1>0, <2>1 DEF NickKept, LeftInv
  <2> QED
    BY <1>1, <1>3, <2>5, <2>6, <2>7 DEF PlacesInv
<1>n. ASSUME UNCHANGED me, \A m \in Said' : m \in Said \/ m.cmd # "NICK"
      PROVE  NickKept'
  BY <1>0, <1>2, <1>n DEF PlacesInv, NickKept
<1>6. CASE SaysRejoin
  <2>1. PICK m \in BotMsg :
           /\ Takes(m) /\ m.cmd = "KICK" /\ m.nick = me
           /\ sent' = <<[cmd |-> "JOIN", chan |-> m.chan]>>
    BY <1>6 DEF SaysRejoin
  <2> DEFINE x == [cmd |-> "JOIN", chan |-> m.chan]
  <2>2. UNCHANGED <<me, conf>> /\ m.chan \in Channel
    BY <1>6, <2>1, BotMsgFields DEF SaysRejoin
  <2>3. x \in Message /\ x.cmd = "JOIN" /\ x.chan = m.chan
    BY <2>2 DEF Message
  <2>4. toServer' = toServer \o <<x>>
    BY <1>0, <2>1
  <2> HIDE DEF x
  <2>5. Said' = Said \cup {x}
    BY <2>3, <2>4, SaidMore
  <2>6. Coming = {m} \cup Coming'
    BY <2>1, ComingAfter DEF STypeOK
  <2>7. KickComing(m.chan) /\ InPlay(m.chan) /\ JoinSaid(m.chan)'
    BY <2>1, <2>3, <2>5, <2>6 DEF KickComing, InPlay, JoinSaid, About
  <2>8. \A c \in Channel : /\ JoinSaid(c)' <=> JoinSaid(c) \/ c = m.chan
                           /\ PartSaid(c)' <=> PartSaid(c)
                           /\ KickComing(c) => KickComing(c)' \/ c = m.chan
    BY <2>2, <2>3, <2>5, <2>6 DEF JoinSaid, PartSaid, KickComing
  <2>9. MeantInv'
    <3>1. \A c \in Channel : InPlay(c)' => InPlay(c)
      BY <1>4, <2>7, <2>8 DEF InPlay
    <3> QED
      BY <1>0, <2>2, <2>8, <3>1 DEF PlacesInv, MeantInv
  <2>10. HeldInv'
    BY <1>0, <1>1, <2>2, <2>7, <2>8 DEF PlacesInv, HeldInv
  <2>11. LeftInv'
    BY <1>0, <2>2, <2>7 DEF PlacesInv, LeftInv
  <2>12. NickKept'
    BY <1>n, <2>2, <2>3, <2>5
  <2> QED
    BY <1>1, <1>3, <2>9, <2>10, <2>11, <2>12 DEF PlacesInv
<1>7. CASE SaysJoin \/ SaysPart
  <2> DEFINE c == msg.what.chan
             x == [cmd |-> IF SaysJoin THEN "JOIN" ELSE "PART", chan |-> c]
  <2>1. msg.cmd = "PRIVMSG" /\ msg.what.ask \in {"join", "part"} /\ UNCHANGED <<toBot, me>>
    BY <1>7 DEF SaysJoin, SaysPart, Obeys
  <2>2. c \in Channel
    <3>1. msg.what \in Request
      BY <2>1, BotMsgFields DEF STypeOK, WireOK, NoMsg
    <3> QED
      BY <2>1, <3>1 DEF Request
  <2>3. x \in Message /\ x.chan = c
    BY <2>2 DEF Message
  <2>4. toServer' = toServer \o <<x>>
    BY <1>0, <1>7 DEF SaysJoin, SaysPart, Obeys
  <2>5. x.cmd = IF SaysJoin THEN "JOIN" ELSE "PART"
    OBVIOUS
  <2> HIDE DEF c, x
  <2>6. /\ Said' = Said \cup {x}
        /\ \A d \in Channel :
              /\ PartLater(d) /\ ~(x.cmd = "JOIN" /\ x.chan = d) => PartLater(d)'
              /\ x.cmd = "PART" /\ x.chan = d => PartLater(d)'
    BY <2>3, <2>4, SaidMore
  <2>7. \A d \in Channel : KickComing(d)' <=> KickComing(d)
    BY <2>1 DEF KickComing, Coming
  <2>8. NickKept'
    BY <1>n, <2>1, <2>5, <2>6
  <2>9. CASE SaysJoin
    <3>1. /\ x.cmd = "JOIN"
          /\ \A d \in Channel : conf'[d] >= conf[d] /\ (d # c => conf'[d] = conf[d])
          /\ conf'[c] > 0
          /\ conf \in [Channel -> Nat] /\ conf' \in [Channel -> Nat]
      <4>1. /\ conf \in [Channel -> Nat]
            /\ conf' = [conf EXCEPT ![c] = IF @ < MaxConf THEN @ + 1 ELSE @]
        BY <2>9 DEF SaysJoin, insert_channels, STypeOK, TypeOK, c
      <4> QED
        BY <2>2, <2>5, <2>9, <4>1, ConstantsAssumption
    <3>2. \A d \in Channel : /\ JoinSaid(d)' <=> JoinSaid(d) \/ d = c
                             /\ PartSaid(d)' <=> PartSaid(d)
      BY <2>3, <2>6, <3>1 DEF JoinSaid, PartSaid
    <3>3. MeantInv'
      <4>1. \A d \in Channel : InPlay(d)' => InPlay(d) \/ d = c
        BY <1>4, <3>2 DEF InPlay
      <4> QED
        BY <1>0, <3>1, <3>2, <4>1 DEF PlacesInv, MeantInv
    <3>4. HeldInv'
      BY <1>0, <1>1, <2>7, <3>1, <3>2 DEF PlacesInv, HeldInv
    <3>5. LeftInv'
      <4> SUFFICES ASSUME ~setting.kicks, "nick" \notin setting.asks, NEW d \in Channel
                   PROVE  /\ ~KickComing(d)'
                          /\ conf'[d] = 0 => (BotOn(d)' => PartSaid(d)') /\ PartLater(d)'
        BY <1>0 DEF LeftInv
      <4>1. /\ ~KickComing(d)
            /\ conf[d] = 0 => (BotOn(d) => PartSaid(d)) /\ PartLater(d)
        BY DEF PlacesInv, LeftInv
      <4> QED
        BY <1>1, <2>3, <2>6, <2>7, <3>1, <3>2, <4>1
    <3> QED
      BY <1>1, <1>3, <2>8, <3>3, <3>4, <3>5 DEF PlacesInv
  <2>10. CASE SaysPart /\ ~SaysJoin
    <3>1. /\ x.cmd = "PART"
          /\ \A d \in Channel : d # c => conf'[d] = conf[d]
      <4>1. /\ conf \in [Channel -> Nat]
            /\ conf' = [conf EXCEPT ![c] = IF @ > 0 THEN @ - 1 ELSE @]
        BY <2>10 DEF SaysPart, delete_channel, STypeOK, TypeOK, c
      <4> QED
        BY <2>2, <2>5, <2>10, <4>1
    <3>2. "part" \in setting.asks
      BY <2>10 DEF SaysPart, Obeys, PlacesInv, AsksInv
    <3>3. \A d \in Channel : PartSaid(d)' <=> PartSaid(d) \/ d = c
      BY <2>3, <2>6, <3>1 DEF PartSaid
    <3>4. MeantInv' /\ HeldInv'
      BY <1>0, <3>2 DEF MeantInv, HeldInv
    <3>5. LeftInv'
      <4> SUFFICES ASSUME ~setting.kicks, "nick" \notin setting.asks, NEW d \in Channel
                   PROVE  /\ ~KickComing(d)'
                          /\ conf'[d] = 0 => (BotOn(d)' => PartSaid(d)') /\ PartLater(d)'
        BY <1>0 DEF LeftInv
      <4>1. /\ ~KickComing(d)
            /\ conf[d] = 0 => (BotOn(d) => PartSaid(d)) /\ PartLater(d)
        BY DEF PlacesInv, LeftInv
      <4> QED
        BY <1>1, <2>3, <2>6, <2>7, <3>1, <3>3, <4>1
    <3> QED
      BY <1>1, <1>3, <2>8, <3>4, <3>5 DEF PlacesInv
  <2> QED
    BY <1>7, <2>9, <2>10
<1>8. CASE SaysNothing
  <2>1. UNCHANGED <<me, conf, toServer>>
    BY <1>0, <1>8, ConcatEmptySeq DEF SaysNothing, STypeOK, WireOK
  <2>2. \A c \in Channel : /\ JoinSaid(c)' <=> JoinSaid(c)
                           /\ PartSaid(c)' <=> PartSaid(c)
                           /\ PartLater(c)' <=> PartLater(c)
    BY <2>1 DEF JoinSaid, PartSaid, PartLater, Said
  <2>3. \A c \in Channel : KickComing(c)' <=> KickComing(c)
    <3>1. CASE UNCHANGED toBot
      BY <2>1, <3>1 DEF KickComing, Coming
    <3>2. ASSUME NEW m \in BotMsg, Takes(m), ~(m.cmd = "KICK" /\ m.nick = me)
          PROVE  \A c \in Channel : KickComing(c)' <=> KickComing(c)
      <4>1. Coming = {m} \cup Coming'
        BY <3>2, ComingAfter DEF STypeOK
      <4> QED
        BY <2>1, <3>2, <4>1 DEF KickComing
    <3> QED
      BY <1>8, <3>1, <3>2 DEF SaysNothing
  <2>4. MeantInv'
    BY <1>0, <1>4, <2>1, <2>2 DEF PlacesInv, MeantInv, InPlay
  <2>5. HeldInv' /\ LeftInv'
    BY <1>0, <1>1, <2>1, <2>2, <2>3 DEF PlacesInv, HeldInv, LeftInv
  <2>6. NickKept'
    BY <1>n, <2>1 DEF Said
  <2> QED
    BY <1>1, <1>3, <2>4, <2>5, <2>6 DEF PlacesInv
<1> QED
  BY <1>0, <1>5, <1>6, <1>7, <1>8

\* The invariants about the bot's places hold at the start and at every step.
LEMMA PlacesInvariance == SessionSpec => [](STypeOK /\ PlacesInv)
<1>1. SessionInit => PlacesInv
  <2> SUFFICES ASSUME SessionInit PROVE PlacesInv
    OBVIOUS
  <2>1. /\ Coming = {} /\ msg = NoMsg /\ clist = {} /\ frame = Idle
        /\ me = FirstNick /\ srvnick = FirstNick
        /\ on \in [Channel -> SUBSET setting.people]
        /\ online = setting.people \cup {FirstNick} /\ FirstNick \notin setting.people
    BY SessionAssumption DEF SessionInit, Init, Coming, ToSet, Setting
  <2>2. /\ \A m \in Said : m.cmd = "JOIN" /\ m.chan \in Configured
        /\ \A c \in Configured : JoinSaid(c)
    <3>1. /\ \A i \in DOMAIN toServer : toServer[i].cmd = "JOIN" /\ toServer[i].chan \in Configured
          /\ \A c \in Configured : \E i \in DOMAIN toServer : toServer[i] = [cmd |-> "JOIN", chan |-> c]
      <4> DEFINE J == SetToSeq({[cmd |-> "JOIN", chan |-> c] : c \in Configured})
      <4>1. toServer = J
        BY DEF SessionInit
      <4>2. /\ \A i \in DOMAIN J : J[i].cmd = "JOIN" /\ J[i].chan \in Configured
            /\ \A c \in Configured : \E i \in DOMAIN J : J[i] = [cmd |-> "JOIN", chan |-> c]
        <5>1. Configured \in SUBSET Channel
          BY ConstantsAssumption
        <5> QED
          BY <5>1, JoinsShape, SessionAssumption
      <4> HIDE DEF J
      <4> QED
        BY <4>1, <4>2
    <3>2. \A m \in Said : m.cmd = "JOIN" /\ m.chan \in Configured
      BY <3>1 DEF Said, ToSet
    <3>3. ASSUME NEW c \in Configured
          PROVE  JoinSaid(c)
      <4>1. [cmd |-> "JOIN", chan |-> c] \in Said
        BY <3>1 DEF Said, ToSet
      <4> QED
        BY <4>1 DEF JoinSaid
    <3> QED
      BY <3>2, <3>3
  <2>3. \A c \in Channel : conf[c] = IF c \in Configured THEN 1 ELSE 0
    BY DEF SessionInit, Init
  <2>4. \A c \in Channel : ~BotOn(c) /\ ~PartSaid(c) /\ ~KickComing(c)
    BY <2>1, <2>2 DEF BotOn, PartSaid, KickComing
  <2>5. NickKept /\ AsksInv
    BY <2>1, <2>2 DEF NickKept, AsksInv, NoMsg
  <2>6. OnlineInv
    BY <2>1 DEF OnlineInv
  <2>7. \A c \in Channel : InPlay(c) => c \in Configured
    BY <2>1, <2>2, <2>4 DEF InPlay, JoinSaid, Idle
  <2>8. MeantInv
    BY <2>3, <2>4, <2>7 DEF MeantInv
  <2>9. HeldInv
    BY <2>2, <2>3 DEF HeldInv
  <2>10. LeftInv
    <3>1. \A i \in DOMAIN toServer : toServer[i] \in Said
      BY DEF Said, ToSet
    <3>2. \A c \in Channel : conf[c] = 0 => PartLater(c)
      BY <2>2, <2>3, <3>1 DEF PartLater
    <3> QED
      BY <2>4, <3>2 DEF LeftInv
  <2> QED
    BY <2>5, <2>6, <2>8, <2>9, <2>10 DEF PlacesInv
<1>2. STypeOK /\ PlacesInv /\ [SessionNext]_svars => PlacesInv'
  <2> SUFFICES ASSUME STypeOK, PlacesInv, UNCHANGED svars
               PROVE  PlacesInv'
    BY ClientsPlacesInv, ServesPlacesInv, ReconnectPlacesInv, BotPlacesInv DEF SessionNext
  <2>1. UNCHANGED <<me, conf, clist, frame, setting, online, srvnick, on, toBot, toServer, msg>>
    BY DEF svars, vars, links, server
  <2>2. Coming' = Coming /\ Said' = Said
    BY <2>1 DEF Coming, Said
  <2>3. \A c \in Channel : /\ BotOn(c)' <=> BotOn(c)
                           /\ JoinSaid(c)' <=> JoinSaid(c)
                           /\ PartSaid(c)' <=> PartSaid(c)
                           /\ KickComing(c)' <=> KickComing(c)
                           /\ PartLater(c)' <=> PartLater(c)
                           /\ InPlay(c)' <=> InPlay(c)
    BY <2>1, <2>2 DEF BotOn, JoinSaid, PartSaid, KickComing, PartLater, InPlay
  <2>4. NickKept' /\ AsksInv' /\ OnlineInv'
    BY <2>1, <2>2 DEF PlacesInv, NickKept, AsksInv, OnlineInv
  <2>5. MeantInv' /\ HeldInv' /\ LeftInv'
    BY <2>1, <2>3 DEF PlacesInv, MeantInv, HeldInv, LeftInv
  <2> QED
    BY <2>4, <2>5 DEF PlacesInv
<1> QED
  BY <1>1, <1>2, SessionInitType, SessionNextType, PTL DEF SessionSpec

\* When nothing is under way, nothing is.
LEMMA QuietSets ==
    ASSUME Quiet
    PROVE  Coming = {} /\ Said = {} /\ \A c : ~JoinSaid(c) /\ ~PartSaid(c) /\ ~KickComing(c)
<1>1. Coming = {} /\ Said = {}
  BY DEF Quiet, Coming, Said, ToSet
<1> QED
  BY <1>1 DEF JoinSaid, PartSaid, KickComing

\* As long as nobody tells the bot to part, and unless it is kicked by a nick it
\* no longer takes for its own, "I'm in that channel already" is true.
THEOREM ListedIsOn == SessionSpec => []ListedMeansOn
<1>1. STypeOK /\ PlacesInv => ListedMeansOn
  <2> SUFFICES ASSUME STypeOK, PlacesInv, Quiet, "part" \notin setting.asks,
                      setting.kicks => "nick" \notin setting.asks, NEW c \in clist
               PROVE  BotOn(c)
    BY DEF ListedMeansOn
  <2>1. c \in Channel
    BY DEF STypeOK, TypeOK
  <2>2. conf[c] > 0
    BY <2>1 DEF PlacesInv, MeantInv, InPlay
  <2>3. BotOn(c) \/ JoinSaid(c) \/ KickComing(c)
    BY <2>1, <2>2 DEF PlacesInv, HeldInv
  <2> QED
    BY <2>3, QuietSets
<1> QED
  BY <1>1, PlacesInvariance, PTL

\* The bot is only on channels of its conf_channels list, unless it is kicked
\* from one it was told to part, or takes somebody else's KICK for its own.
THEOREM OnlyOnMeantChannels == SessionSpec => []OnlyWhereMeant
<1>1. STypeOK /\ PlacesInv => OnlyWhereMeant
  <2> SUFFICES ASSUME STypeOK, PlacesInv, Quiet,
                      "part" \in setting.asks => ~setting.kicks /\ "nick" \notin setting.asks,
                      NEW c \in Channel, BotOn(c)
               PROVE  conf[c] > 0
    BY DEF OnlyWhereMeant
  <2>1. CASE "part" \notin setting.asks
    BY <2>1 DEF PlacesInv, MeantInv, InPlay
  <2>2. CASE "part" \in setting.asks
    <3>1. conf[c] # 0
      BY <2>2, QuietSets DEF PlacesInv, LeftInv
    <3>2. conf[c] \in Nat
      BY DEF STypeOK, TypeOK
    <3> QED
      BY <3>1, <3>2
  <2> QED
    BY <2>1, <2>2
<1> QED
  BY <1>1, PlacesInvariance, PTL

-----------------------------------------------------------------------------
(* The session: what reaches the lists is calm *)

Mentions(m, n) ==
    IF m.cmd = "353" THEN n \in m.names
                     ELSE m.nick = n \/ (m.cmd = "NICK" /\ m.new = n)

\* A nick the bot is about to hear of as somebody's new one is on no list and in
\* no message it has yet to handle before that.
Fresh(n, i) ==
    /\ Unclaimed(n) /\ n # FirstNick
    /\ msg.cmd = "353" => n \notin msg.names
    /\ \A j \in DOMAIN toBot : j < i => ~Mentions(toBot[j], n)

FreshInv ==
    "nick" \notin setting.asks =>
        \A i \in DOMAIN toBot : toBot[i].cmd = "NICK" => Fresh(toBot[i].new, i)

\* A nick comes onto the bot's list only in a message the bot handles.
LEMMA BotNames ==
    ASSUME STypeOK, Bot, "nick" \notin setting.asks, NickKept, AsksInv,
           NEW n \in Nick, Unclaimed(n),
           \A m : Takes(m) => ~Mentions(m, n), msg.cmd = "353" => n \notin msg.names
    PROVE  Unclaimed(n)'
<1>0. /\ ulist \in Seq(UserId)
      /\ nick \in [UserId -> Nick \cup {NoNick}]
      /\ \A i \in DOMAIN ulist : ulist[i] \in UserId /\ nick[ulist[i]] # n
      /\ n # NoNick
  BY ElementOfSeq, LenProperties, ConstantsAssumption
  DEF STypeOK, TypeOK, Unclaimed, NoneNamed
<1>1. ASSUME NEW u \in UserId, NEW k \in Nick, k # n, CreateUser(u, k)
      PROVE  Unclaimed(n)'
  <2>1. /\ ulist' = Append(ulist, u) /\ nick' = [nick EXCEPT ![u] = k]
    BY <1>1 DEF CreateUser
  <2>2. \A i \in DOMAIN ulist' : ulist'[i] = u \/ (i \in DOMAIN ulist /\ ulist'[i] = ulist[i])
    <3>1. /\ Len(ulist) \in Nat /\ DOMAIN ulist = 1 .. Len(ulist)
          /\ DOMAIN ulist' = 1 .. (Len(ulist) + 1)
          /\ \A i \in DOMAIN ulist : ulist'[i] = ulist[i]
          /\ ulist'[Len(ulist) + 1] = u
      BY <1>0, <2>1, QueueAppend
    <3> QED
      BY <3>1
  <2>3. \A w \in UserId : nick'[w] = IF w = u THEN k ELSE nick[w]
    BY <1>0, <2>1
  <2> QED
    BY <1>0, <1>1, <2>2, <2>3 DEF Unclaimed, NoneNamed
<1>2. ASSUME NEW k \in Nick, k # n, NEW c, AddUserToChannel(k, c)
      PROVE  Unclaimed(n)'
  <2>1. CASE UNCHANGED users
    BY <2>1 DEF Unclaimed, NoneNamed, users
  <2>2. ASSUME NEW u \in UserId, CreateUser(u, k)
        PROVE  Unclaimed(n)'
    BY <1>1, <1>2, <2>2
  <2> QED
    BY <1>2, <2>1, <2>2 DEF AddUserToChannel
<1>3. ASSUME NEW u \in UserId, DelUser(u)
      PROVE  Unclaimed(n)'
  <2>1. PICK i \in DOMAIN ulist : ulist' = RemoveAt(ulist, i)
    BY <1>3 DEF DelUser
  <2>2. \A j \in DOMAIN ulist' : \E k \in DOMAIN ulist : ulist'[j] = ulist[k]
    <3>1. /\ Len(ulist) \in Nat /\ DOMAIN ulist = 1 .. Len(ulist) /\ i \in 1 .. Len(ulist)
          /\ DOMAIN ulist' = 1 .. (Len(ulist) - 1)
          /\ \A j \in 1 .. (Len(ulist) - 1) :
                ulist'[j] = IF j < i THEN ulist[j] ELSE ulist[j + 1]
      BY <1>0, <2>1, RemoveAtShape, LenProperties
    <3>2. \A j \in DOMAIN ulist' : j \in DOMAIN ulist /\ j + 1 \in DOMAIN ulist
      BY <3>1
    <3> QED
      BY <3>1, <3>2
  <2>3. nick' = [nick EXCEPT ![u] = NoNick]
    BY <1>3 DEF DelUser
  <2> QED
    BY <1>0, <2>2, <2>3 DEF Unclaimed, NoneNamed
<1>4. CASE UNCHANGED <<ulist, nick>>
  BY <1>4 DEF Unclaimed, NoneNamed
<1>5. CASE Receive
  <2> DEFINE m == Head(toBot)
  <2>1. m \in BotMsg /\ Takes(m) /\ ~Mentions(m, n)
    BY <1>5, QueueHead DEF Receive, STypeOK, WireOK, Takes
  <2>2. \/ m.cmd = "JOIN"    /\ sm_join(m.nick, m.chan)
        \/ m.cmd = "PART"    /\ sm_part(m.nick, m.chan)
        \/ m.cmd = "KICK"    /\ sm_kick(m.nick, m.chan)
        \/ m.cmd = "QUIT"    /\ sm_quit(m.nick)
        \/ m.cmd = "NICK"    /\ sm_nick(m.nick, m.new)
        \/ m.cmd = "PRIVMSG" /\ sm_privmsg(m.nick)
        \/ m.cmd = "353"     /\ get_users_from_chan(m.chan)
        \/ m.cmd = "433"     /\ numeric_nickinuse
    BY <1>5 DEF Receive
  <2> HIDE DEF m
  <2>3. CASE m.cmd = "JOIN"
    <3>1. sm_join(m.nick, m.chan) /\ m.nick \in Nick /\ m.nick # n
      BY <2>1, <2>2, <2>3, BotMsgFields DEF Mentions
    <3> QED
      BY <1>2, <3>1 DEF sm_join
  <2>4. CASE m.cmd = "NICK"
    <3>1. sm_nick(m.nick, m.new) /\ m.new # n
      BY <2>1, <2>2, <2>4 DEF Mentions
    <3>2. CASE UNCHANGED nick
      BY <1>4, <3>1, <3>2 DEF sm_nick
    <3>3. ASSUME NEW i \in DOMAIN ulist, nick' = [nick EXCEPT ![ulist[i]] = m.new]
          PROVE  Unclaimed(n)'
      <4>1. UNCHANGED ulist
        BY <3>1 DEF sm_nick
      <4> QED
        BY <1>0, <3>1, <3>3, <4>1 DEF Unclaimed, NoneNamed
    <3> QED
      BY <3>1, <3>2, <3>3 DEF sm_nick, RenameUser
  <2>5. CASE m.cmd = "PRIVMSG"
    <3>1. sm_privmsg(m.nick) /\ m.nick \in Nick /\ m.nick # n
      BY <2>1, <2>2, <2>5, BotMsgFields DEF Mentions
    <3>2. UNCHANGED <<ulist, nick>> \/ \E u \in UserId : CreateUser(u, m.nick)
      BY <3>1 DEF sm_privmsg, users
    <3> QED
      BY <1>1, <1>4, <3>1, <3>2
  <2>6. CASE m.cmd \notin {"JOIN", "NICK", "PRIVMSG"}
    <3>1. UNCHANGED <<ulist, nick>>
      BY <2>2, <2>6 DEF sm_part, sm_kick, sm_quit, get_users_from_chan, numeric_nickinuse, users
    <3> QED
      BY <1>4, <3>1
  <2> QED
    BY <2>3, <2>4, <2>5, <2>6
<1>6. CASE Handle
  <2>1. UNCHANGED <<ulist, nick>> \/ (frame.op = "quit" /\ DelUser(frame.user))
    BY <1>6 DEF Handle, msg_join, msg_part, msg_nick, NamesEnd, QuitStep, DelChannelStep, users
  <2>2. frame.op = "quit" => frame.user \in UserId
    BY DEF STypeOK, TypeOK, Frame, Idle, Crashed
  <2> QED
    BY <1>3, <1>4, <2>1, <2>2
<1>7. ASSUME NEW k \in Nick, HandleName(k)
      PROVE  Unclaimed(n)'
  <2>1. k # n /\ AddUserToChannel(k, frame.chan)
    BY <1>7 DEF HandleName, NamesStep
  <2> QED
    BY <1>2, <2>1
<1>8. CASE Housekeeping
  <2>1. UNCHANGED <<ulist, nick>> \/ \E u \in Live : DelUser(u)
    BY <1>8 DEF Housekeeping, ReapUserList, ReapStep, GrowOld, users
  <2>2. Live \subseteq UserId
    BY <1>0 DEF Live
  <2> QED
    BY <1>3, <1>4, <2>1, <2>2
<1> QED
  BY <1>5, <1>6, <1>7, <1>8 DEF Bot

\* As long as nobody asks for another nick, what the bot does is calm.
LEMMA BotIsCalm ==
    ASSUME STypeOK, PlacesInv, FreshInv, Bot, "nick" \notin setting.asks
    PROVE  CalmNext
<1>0. \A m : Takes(m) => m \in Coming
  BY ComingAfter DEF STypeOK
<1>1. CASE Receive
  <2> DEFINE m == Head(toBot)
  <2>1. m \in BotMsg /\ Takes(m) /\ m.cmd # "433" /\ m = toBot[1] /\ 1 \in DOMAIN toBot
    BY <1>0, <1>1, QueueHead DEF Receive, STypeOK, WireOK, Takes, PlacesInv, NickKept
  <2>2. \/ m.cmd = "JOIN"    /\ sm_join(m.nick, m.chan)
        \/ m.cmd = "PART"    /\ sm_part(m.nick, m.chan)
        \/ m.cmd = "KICK"    /\ sm_kick(m.nick, m.chan)
        \/ m.cmd = "QUIT"    /\ sm_quit(m.nick)
        \/ m.cmd = "NICK"    /\ sm_nick(m.nick, m.new)
        \/ m.cmd = "PRIVMSG" /\ sm_privmsg(m.nick)
        \/ m.cmd = "353"     /\ get_users_from_chan(m.chan)
        \/ m.cmd = "433"     /\ numeric_nickinuse
    BY <1>1 DEF Receive
  <2> HIDE DEF m
  <2>3. m.cmd = "NICK" => Unclaimed(m.new)
    BY <2>1 DEF FreshInv, Fresh
  <2> QED
    BY <2>1, <2>2, <2>3, BotMsgFields DEF CalmNext, Dispatch
<1>2. CASE Handle
  <2>1. msg.cmd = "PRIVMSG" => /\ msg.what \in Request
                               /\ msg.what.ask # "nick"
    BY BotMsgFields DEF STypeOK, WireOK, NoMsg, PlacesInv, AsksInv
  <2>2. msg.cmd = "PRIVMSG" /\ msg.what.ask \in {"join", "part"} => msg.what.chan \in Channel
    BY <2>1 DEF Request
  <2> QED
    BY <1>2, <2>1, <2>2 DEF Handle, CalmNext, Continue
<1>3. CASE \E n \in Nick : HandleName(n)
  BY <1>3 DEF HandleName, CalmNext, Continue
<1>4. CASE Housekeeping
  BY <1>4 DEF Housekeeping, CalmNext, Dispatch, Continue
<1> QED
  BY <1>1, <1>2, <1>3, <1>4 DEF Bot

\* A message that comes last leaves FreshInv true if the nick it brings is
\* forgotten.
LEMMA FreshAppend ==
    ASSUME FreshInv, UNCHANGED <<ulist, nick, msg, setting>>,
           toBot \in Seq(BotMsg), NEW m \in BotMsg, toBot' = Append(toBot, m),
           m.cmd = "NICK" /\ "nick" \notin setting.asks =>
               /\ Unclaimed(m.new) /\ m.new # FirstNick
               /\ msg.cmd = "353" => m.new \notin msg.names
               /\ \A i \in DOMAIN toBot : ~Mentions(toBot[i], m.new)
    PROVE  FreshInv'
<1>1. /\ Len(toBot) \in Nat
      /\ DOMAIN toBot = 1 .. Len(toBot)
      /\ DOMAIN toBot' = 1 .. (Len(toBot) + 1)
      /\ \A i \in DOMAIN toBot : toBot'[i] = toBot[i]
      /\ toBot'[Len(toBot) + 1] = m
  BY QueueAppend
<1>2. ASSUME NEW i \in DOMAIN toBot', toBot'[i].cmd = "NICK", "nick" \notin setting.asks
      PROVE  /\ Unclaimed(toBot'[i].new) /\ toBot'[i].new # FirstNick
             /\ msg.cmd = "353" => toBot'[i].new \notin msg.names
             /\ \A j \in DOMAIN toBot' : j < i => ~Mentions(toBot'[j], toBot'[i].new)
  <2>1. CASE i \in DOMAIN toBot
    <3>1. toBot'[i] = toBot[i] /\ \A j \in DOMAIN toBot' : j < i => j \in DOMAIN toBot
      BY <1>1, <2>1
    <3>2. Fresh(toBot[i].new, i)
      BY <1>2, <2>1, <3>1 DEF FreshInv
    <3> QED
      BY <1>1, <3>1, <3>2 DEF Fresh
  <2>2. CASE i \notin DOMAIN toBot
    <3>1. i = Len(toBot) + 1 /\ \A j \in DOMAIN toBot' : j < i => j \in DOMAIN toBot
      BY <1>1, <2>2
    <3> QED
      BY <1>1, <1>2, <3>1
  <2> QED
    BY <2>1, <2>2
<1>3. ASSUME NEW n, Unclaimed(n)
      PROVE  Unclaimed(n)'
  BY <1>3 DEF Unclaimed, NoneNamed
<1>4. ASSUME NEW i \in DOMAIN toBot', toBot'[i].cmd = "NICK", "nick" \notin setting.asks
      PROVE  Fresh(toBot[i].new, i)'
  BY <1>2, <1>3, <1>4 DEF Fresh, Mentions
<1> QED
  BY <1>4 DEF FreshInv

\* A client that the bot hears of takes a nick the bot has forgotten.
LEMMA ClientsNick ==
    ASSUME WireOK, Clients, NEW m \in BotMsg, toBot' = Append(toBot, m), m.cmd = "NICK",
           UnseenReuse = FALSE
    PROVE  Forgotten(m.new)
<1>0. ASSUME NEW x \in BotMsg, toBot' = Append(toBot, x)
      PROVE  x = m
  <2>1. Append(toBot, x)[Len(toBot) + 1] = x /\ Append(toBot, m)[Len(toBot) + 1] = m
    BY QueueAppend DEF WireOK
  <2> QED
    BY <1>0, <2>1
<1>n. ASSUME NEW x \in BotMsg, NEW heard, Tell(heard, x)
      PROVE  x = m
  <2>1. toBot' # toBot
    BY QueueAppend DEF WireOK
  <2> QED
    BY <1>0, <1>n, <2>1 DEF Tell
<1>1. ASSUME NEW n \in Nick, NEW c \in Channel, UserJoin(n, c)
      PROVE  FALSE
  <2>1. [cmd |-> "JOIN", nick |-> n, chan |-> c] \in BotMsg
    BY DEF BotMsg
  <2> QED
    BY <1>1, <1>n, <2>1 DEF UserJoin
<1>2. ASSUME NEW n \in Nick, NEW c \in Channel, UserPart(n, c)
      PROVE  FALSE
  <2>1. [cmd |-> "PART", nick |-> n, chan |-> c] \in BotMsg
    BY DEF BotMsg
  <2> QED
    BY <1>2, <1>n, <2>1 DEF UserPart
<1>3. ASSUME NEW n \in Nick, UserQuit(n)
      PROVE  FALSE
  <2>1. [cmd |-> "QUIT", nick |-> n] \in BotMsg
    BY DEF BotMsg
  <2> QED
    BY <1>3, <1>n, <2>1 DEF UserQuit
<1>4. ASSUME NEW n \in Nick, NEW c \in Channel, Kick(n, c)
      PROVE  FALSE
  <2>1. [cmd |-> "KICK", nick |-> n, chan |-> c] \in BotMsg
    BY DEF BotMsg
  <2> QED
    BY <1>4, <1>n, <2>1 DEF Kick
<1>5. ASSUME NEW n \in Nick, NEW new \in Nick, UserNick(n, new)
      PROVE  Forgotten(m.new)
  <2>1. [cmd |-> "NICK", nick |-> n, new |-> new] \in BotMsg
    BY DEF BotMsg
  <2>2. [cmd |-> "NICK", nick |-> n, new |-> new] = m
    BY <1>5, <1>n, <2>1 DEF UserNick
  <2> QED
    BY <1>5, <2>2 DEF UserNick
<1>6. ASSUME NEW n \in Nick, NEW what \in Request, Ask(n, what)
      PROVE  FALSE
  <2>1. [cmd |-> "PRIVMSG", nick |-> n, what |-> what] \in BotMsg
    BY DEF BotMsg
  <2> QED
    BY <1>6, <1>0, <2>1 DEF Ask
<1> QED
  BY <1>1, <1>2, <1>3, <1>4, <1>5, <1>6 DEF Clients

\* What is not the bot's doing leaves FreshInv true.
LEMMA OthersFreshInv ==
    ASSUME STypeOK, PlacesInv, FreshInv, UnseenReuse = FALSE,
           Clients \/ ServeJoin \/ ServePart \/ ServeNick \/ Reconnect
    PROVE  FreshInv'
<1>0. /\ UNCHANGED <<ulist, nick, msg, setting>>
      /\ toBot \in Seq(BotMsg)
      /\ UNCHANGED toBot => FreshInv'
  <2>1. UNCHANGED <<ulist, nick, msg, setting>>
    BY ClientsEvent DEF vars, users, ServeJoin, ServePart, ServeNick, Serve, Reconnect
  <2> QED
    BY <2>1 DEF STypeOK, WireOK, FreshInv, Fresh, Mentions, Unclaimed, NoneNamed
<1>1. CASE Clients
  <2>1. ASSUME NEW m \in BotMsg, toBot' = Append(toBot, m)
        PROVE  FreshInv'
    <3>1. ASSUME m.cmd = "NICK", "nick" \notin setting.asks
          PROVE  /\ Unclaimed(m.new) /\ m.new # FirstNick
                 /\ msg.cmd = "353" => m.new \notin msg.names
                 /\ \A i \in DOMAIN toBot : ~Mentions(toBot[i], m.new)
      <4>1. Forgotten(m.new)
        BY <1>1, <2>1, <3>1, ClientsNick DEF STypeOK
      <4> QED
        BY <3>1, <4>1 DEF Forgotten, Mentions, PlacesInv, NickKept
    <3> QED
      BY <1>0, <2>1, <3>1, FreshAppend
  <2> QED
    BY <1>0, <1>1, <2>1, ClientsTell
<1>2. CASE ServeJoin
  <2> DEFINE j == [cmd |-> "JOIN", nick |-> srvnick, chan |-> Head(toServer).chan]
             l == [cmd |-> "353", chan |-> Head(toServer).chan,
                   names |-> on'[Head(toServer).chan]]
  <2>1. Head(toServer) \in Message /\ on' \in [Channel -> SUBSET Nick]
    BY <1>2, QueueHead, ServesType DEF ServeJoin, Serve, STypeOK, WireOK
  <2>2. j \in BotMsg /\ l \in BotMsg /\ j.cmd = "JOIN" /\ l.cmd = "353"
    BY <1>2, <2>1, MessageFields DEF ServeJoin, BotMsg, STypeOK, WireOK
  <2>3. UNCHANGED toBot \/ toBot' = toBot \o <<j, l>>
    BY <1>2 DEF ServeJoin
  <2> HIDE DEF j, l
  <2>4. ASSUME toBot' = toBot \o <<j, l>>
        PROVE  FreshInv'
    <3>1. /\ Len(toBot) \in Nat
          /\ DOMAIN toBot = 1 .. Len(toBot)
          /\ DOMAIN toBot' = 1 .. (Len(toBot) + 2)
          /\ \A i \in DOMAIN toBot : toBot'[i] = toBot[i]
          /\ toBot'[Len(toBot) + 1] = j
          /\ toBot'[Len(toBot) + 2] = l
      BY <1>0, <2>2, <2>4, QueueAppendTwo
    <3>2. ASSUME NEW i \in DOMAIN toBot', toBot'[i].cmd = "NICK"
          PROVE  /\ i \in DOMAIN toBot /\ toBot'[i] = toBot[i]
                 /\ \A k \in DOMAIN toBot' : k < i => k \in DOMAIN toBot /\ toBot'[k] = toBot[k]
      BY <2>2, <3>1, <3>2
    <3>3. ASSUME NEW i \in DOMAIN toBot', toBot'[i].cmd = "NICK", "nick" \notin setting.asks
          PROVE  Fresh(toBot[i].new, i)'
      <4>1. Fresh(toBot[i].new, i)
        BY <3>2, <3>3 DEF FreshInv
      <4> QED
        BY <1>0, <3>2, <3>3, <4>1 DEF Fresh, Unclaimed, NoneNamed, Mentions
    <3> QED
      BY <1>0, <3>3 DEF FreshInv
  <2> QED
    BY <1>0, <2>3, <2>4
<1>3. CASE ServePart \/ ServeNick
  <2>1. ASSUME NEW m \in BotMsg, toBot' = Append(toBot, m),
               m.cmd = "NICK" => "nick" \in setting.asks
        PROVE  FreshInv'
    BY <1>0, <2>1, FreshAppend
  <2>2. Head(toServer) \in Said /\ Head(toServer) \in Message /\ srvnick \in Nick
    BY <1>3, SaidAfter, QueueHead DEF ServePart, ServeNick, Serve, STypeOK, WireOK
  <2>3. CASE ServePart
    <3>1. [cmd |-> "PART", nick |-> srvnick, chan |-> Head(toServer).chan] \in BotMsg
      BY <2>2, <2>3, MessageFields DEF ServePart, BotMsg
    <3> QED
      BY <1>0, <2>1, <2>3, <3>1 DEF ServePart, Tell
  <2>4. CASE ServeNick
    <3>1. "nick" \in setting.asks
      BY <2>2, <2>4 DEF PlacesInv, NickKept, ServeNick
    <3> QED
      BY <1>0, <3>1 DEF FreshInv
  <2> QED
    BY <1>3, <2>3, <2>4
<1>4. CASE Reconnect
  <2>1. DOMAIN toBot' = {}
    BY <1>4 DEF Reconnect
  <2> QED
    BY <2>1 DEF FreshInv
<1> QED
  BY <1>1, <1>2, <1>3, <1>4

\* What the bot does leaves FreshInv true.
LEMMA BotFreshInv == STypeOK /\ PlacesInv /\ FreshInv /\ Bot => FreshInv'
<1> SUFFICES ASSUME STypeOK, PlacesInv, FreshInv, Bot, "nick" \notin setting.asks,
                    NEW i \in DOMAIN toBot', toBot'[i].cmd = "NICK"
             PROVE  Fresh(toBot[i].new, i)'
  BY DEF FreshInv, Bot, server
<1>0. toBot \in Seq(BotMsg) /\ toBot' \in Seq(BotMsg)
  BY BotType DEF STypeOK, WireOK
<1>1. PICK n \in Nick : n = toBot'[i].new
  BY <1>0, ElementOfSeq, LenProperties, BotMsgFields
<1>2. CASE Receive
  <2>1. /\ toBot # << >> /\ toBot' = Tail(toBot) /\ Head(toBot) = toBot[1] /\ 1 \in DOMAIN toBot
        /\ \A j \in DOMAIN toBot' : j + 1 \in DOMAIN toBot /\ toBot'[j] = toBot[j + 1]
        /\ DOMAIN toBot' \subseteq Nat /\ \A j \in DOMAIN toBot' : 1 < j + 1
    BY <1>0, <1>2, QueueHead DEF Receive
  <2>2. Fresh(n, i + 1)
    BY <1>1, <2>1 DEF FreshInv
  <2>3. ~Mentions(toBot[1], n)
    BY <2>1, <2>2 DEF Fresh
  <2>4. Unclaimed(n)'
    BY <1>1, <2>1, <2>2, <2>3, BotNames DEF PlacesInv, Takes, Fresh
  <2>5. msg'.cmd = "353" => n \notin msg'.names
    BY <1>2, <2>1, <2>3 DEF Receive, NoMsg, Mentions
  <2>6. \A j \in DOMAIN toBot' : j < i => ~Mentions(toBot'[j], n)
    BY <2>1, <2>2 DEF Fresh
  <2> QED
    BY <1>1, <2>2, <2>4, <2>5, <2>6 DEF Fresh, Mentions
<1>3. CASE Handle \/ (\E k \in Nick : HandleName(k)) \/ Housekeeping
  <2>1. UNCHANGED toBot
    BY <1>3 DEF Handle, HandleName, Housekeeping
  <2>2. Fresh(n, i)
    BY <1>1, <2>1 DEF FreshInv
  <2>3. \A m : ~Takes(m)
    BY <1>0, <2>1, QueueHead DEF Takes
  <2>4. Unclaimed(n)'
    BY <1>1, <2>2, <2>3, BotNames DEF PlacesInv, Fresh
  <2>5. msg'.cmd = "353" => n \notin msg'.names
    <3>1. CASE Handle \/ Housekeeping
      BY <2>2, <3>1 DEF Handle, Housekeeping, NoMsg, Fresh
    <3>2. ASSUME NEW k \in Nick, HandleName(k)
          PROVE  n \notin msg'.names
      <4>1. msg.cmd = "353" /\ msg \in BotMsg
        BY <3>2 DEF HandleName, STypeOK, WireOK, NoMsg
      <4>2. msg'.names \subseteq msg.names
        BY <3>2, <4>1 DEF HandleName, BotMsg
      <4> QED
        BY <2>2, <4>1, <4>2 DEF Fresh
    <3> QED
      BY <1>3, <3>1, <3>2
  <2> QED
    BY <1>1, <2>1, <2>2, <2>4, <2>5 DEF Fresh, Mentions
<1> QED
  BY <1>2, <1>3 DEF Bot

\* FreshInv holds at the start and at every step, and with it, as long as nobody
\* asks for another nick, the inductive invariant of CalmSpec.
CalmInv == "nick" \notin setting.asks => IInv

\* The invariants about the bot's lists hold at the start and at every step.
LEMMA CalmInvariance ==
    ASSUME UnseenReuse = FALSE
    PROVE  SessionSpec => [](STypeOK /\ PlacesInv /\ FreshInv /\ CalmInv)
<1>1. SessionInit => FreshInv /\ CalmInv
  <2>1. SessionInit => DOMAIN toBot = {} /\ Init
    BY DEF SessionInit
  <2> QED
    BY <2>1, InitIInv DEF FreshInv, CalmInv
<1>2. STypeOK /\ PlacesInv /\ FreshInv /\ [SessionNext]_svars => FreshInv'
  <2> SUFFICES ASSUME STypeOK, PlacesInv, FreshInv, [SessionNext]_svars
               PROVE  FreshInv'
    OBVIOUS
  <2>1. CASE UNCHANGED svars
    <3>1. UNCHANGED <<ulist, nick, msg, setting, toBot>>
      BY <2>1 DEF svars, vars, users, server
    <3> QED
      BY <3>1 DEF FreshInv, Fresh, Mentions, Unclaimed, NoneNamed
  <2> QED
    BY <2>1, OthersFreshInv, BotFreshInv DEF SessionNext
<1>3. STypeOK /\ PlacesInv /\ FreshInv /\ CalmInv /\ [SessionNext]_svars => CalmInv'
  <2> SUFFICES ASSUME STypeOK, PlacesInv, FreshInv, CalmInv, [SessionNext]_svars,
                      "nick" \notin setting.asks
               PROVE  IInv'
    BY ClientsEvent
    DEF CalmInv, SessionNext, ServeJoin, ServePart, ServeNick, Serve, Reconnect, Bot, svars, server
  <2>1. [CalmNext]_vars
    BY BotIsCalm, ClientsEvent
    DEF SessionNext, ServeJoin, ServePart, ServeNick, Serve, Reconnect, svars
  <2> QED
    BY <2>1, NextIInv DEF CalmInv
<1> QED
  BY <1>1, <1>2, <1>3, PlacesInvariance, PTL DEF SessionSpec

\* As long as nobody asks for another nick, and nobody takes a nick the bot has
\* not forgotten, every step the session makes of the lists is a step of
\* CalmSpec: what is proved of CalmSpec is true of such a session.
THEOREM SessionIsCalm ==
    ASSUME UnseenReuse = FALSE
    PROVE  SessionSpec => ListsAsProved
<1>1. SessionInit => Init
  BY DEF SessionInit
<1>2. STypeOK /\ PlacesInv /\ FreshInv /\ [SessionNext]_svars =>
          ["nick" \in setting.asks \/ CalmNext]_vars
  BY BotIsCalm, ClientsEvent
  DEF SessionNext, ServeJoin, ServePart, ServeNick, Serve, Reconnect, svars
<1> QED
  BY <1>1, <1>2, CalmInvariance, PTL DEF SessionSpec, ListsAsProved

-----------------------------------------------------------------------------
(* The session: what the operations on the lists make of who is listed *)

Distinct(s) == \A i, j \in DOMAIN s : s[i] = s[j] => i = j

\* No user is linked to a channel twice.
LinkedOnce == \A c \in Channel : Distinct(members[c])

\* What a list holds after one more node is linked, and after one is unlinked.
LEMMA ListSets ==
    ASSUME NEW S, NEW s \in Seq(S)
    PROVE  /\ \A e \in S : /\ ToSet(Append(s, e)) = ToSet(s) \cup {e}
                           /\ Distinct(s) /\ e \notin ToSet(s) => Distinct(Append(s, e))
           /\ \A i \in DOMAIN s :
                 /\ ToSet(s) = ToSet(RemoveAt(s, i)) \cup {s[i]}
                 /\ Distinct(s) => /\ Distinct(RemoveAt(s, i))
                                   /\ s[i] \notin ToSet(RemoveAt(s, i))
<1>1. ASSUME NEW e \in S
      PROVE  /\ ToSet(Append(s, e)) = ToSet(s) \cup {e}
             /\ Distinct(s) /\ e \notin ToSet(s) => Distinct(Append(s, e))
  <2>1. ToSet(Append(s, e)) = ToSet(s) \cup {e}
    BY QueueSets
  <2>2. Distinct(s) /\ e \notin ToSet(s) => Distinct(Append(s, e))
    BY QueueAppend DEF Distinct, ToSet
  <2> QED
    BY <2>1, <2>2
<1>2. ASSUME NEW i \in DOMAIN s
      PROVE  /\ ToSet(s) = ToSet(RemoveAt(s, i)) \cup {s[i]}
             /\ Distinct(s) => /\ Distinct(RemoveAt(s, i))
                               /\ s[i] \notin ToSet(RemoveAt(s, i))
  <2> DEFINE r == RemoveAt(s, i)
  <2>1. /\ Len(s) \in Nat /\ DOMAIN s = 1 .. Len(s) /\ i \in 1 .. Len(s)
        /\ DOMAIN r = 1 .. (Len(s) - 1)
        /\ \A j \in 1 .. (Len(s) - 1) : r[j] = IF j < i THEN s[j] ELSE s[j + 1]
    BY RemoveAtShape, LenProperties
  <2> HIDE DEF r
  <2>2. \A k \in DOMAIN s : k # i => \E j \in DOMAIN r : r[j] = s[k]
    <3> SUFFICES ASSUME NEW k \in DOMAIN s, k # i PROVE \E j \in DOMAIN r : r[j] = s[k]
      OBVIOUS
    <3>1. CASE k < i
      BY <2>1, <3>1
    <3>2. CASE ~(k < i)
      <4>1. k - 1 \in DOMAIN r /\ ~(k - 1 < i) /\ (k - 1) + 1 = k
        BY <2>1, <3>2
      <4> QED
        BY <2>1, <4>1
    <3> QED
      BY <3>1, <3>2
  <2>3. \A j \in DOMAIN r : \E k \in DOMAIN s : k # i /\ r[j] = s[k] /\ k = (IF j < i THEN j ELSE j + 1)
    BY <2>1
  <2>4. ToSet(s) = ToSet(r) \cup {s[i]}
    BY <2>2, <2>3 DEF ToSet
  <2>5. ASSUME Distinct(s)
        PROVE  Distinct(r) /\ s[i] \notin ToSet(r)
    <3>1. s[i] \notin ToSet(r)
      BY <2>3, <2>5 DEF Distinct, ToSet
    <3>2. ASSUME NEW j \in DOMAIN r, NEW k \in DOMAIN r, r[j] = r[k]
          PROVE  j = k
      <4>1. (IF j < i THEN j ELSE j + 1) = (IF k < i THEN k ELSE k + 1)
        BY <2>3, <2>5, <3>2 DEF Distinct
      <4> QED
        BY <2>1, <4>1
    <3> QED
      BY <3>1, <3>2 DEF Distinct
  <2> QED
    BY <2>4, <2>5 DEF r
<1> QED
  BY <1>1, <1>2

\* Whoever is listed has a record on the bot's list.
LEMMA ListedAreLive ==
    ASSUME ListsInv, NEW c \in Channel
    PROVE  /\ members[c] \in Seq(UserId)
           /\ ToSet(members[c]) \subseteq Live
           /\ Live \subseteq UserId
           /\ me \notin Listed(c)
           /\ \A u \in Live, w \in ToSet(members[c]) : nick[w] = nick[u] => w = u
<1>1. members[c] \in Seq(UserId)
  BY DEF ListsInv, ListsOK
<1>2. ToSet(members[c]) \subseteq Live
  BY MemberIsLinked DEF ToSet
<1>3. Live \subseteq UserId
  BY OneOfAName
<1>4. me \notin Listed(c)
  BY <1>2 DEF ListsInv, SelfUntracked, Listed
<1>5. \A u \in Live, w \in ToSet(members[c]) : nick[w] = nick[u] => w = u
  BY <1>2, OneOfAName DEF Live
<1> QED
  BY <1>1, <1>2, <1>3, <1>4, <1>5

\* AddUserToChannel lists one user more, unless it is the bot itself.
LEMMA AddUserLists ==
    ASSUME ListsInv, NEW n \in Nick, NEW c \in Channel, AddUserToChannel(n, c), UNCHANGED me
    PROVE  /\ \A d \in Channel :
                 Listed(d)' = Listed(d) \cup (IF d = c THEN {n} \ {me} ELSE {})
           /\ LinkedOnce /\ (n = me \/ n \notin Listed(c)) => LinkedOnce'
<1>0. /\ NodesOf(c) = members[c]
      /\ members \in [Channel -> Seq(UserId)]
      /\ nick \in [UserId -> Nick \cup {NoNick}]
  BY DEF NodesOf, ListsInv, ListsOK, Released
<1>1. CASE n = me /\ UNCHANGED <<users, links>>
  BY <1>1 DEF users, links, Listed, LinkedOnce
<1>2. ASSUME NEW u \in UserId, n # me, nick'[u] = n,
             \A w \in Live : w # u => nick'[w] = nick[w],
             u \in Live => nick[u] = n,
             LinkUserToChannel(u, chans[u], c)
      PROVE  /\ \A d \in Channel :
                   Listed(d)' = Listed(d) \cup (IF d = c THEN {n} \ {me} ELSE {})
             /\ LinkedOnce /\ (n = me \/ n \notin Listed(c)) => LinkedOnce'
  <2>1. members' = [members EXCEPT ![c] = Append(members[c], u)]
    BY <1>0, <1>2 DEF LinkUserToChannel
  <2>2. \A d \in Channel : members'[d] = IF d = c THEN Append(members[c], u) ELSE members[d]
    BY <1>0, <2>1
  <2>3. /\ \A d \in Channel : ToSet(members'[d]) = ToSet(members[d]) \cup (IF d = c THEN {u} ELSE {})
        /\ Distinct(members[c]) /\ u \notin ToSet(members[c]) => Distinct(members'[c])
    BY <1>0, <2>2, ListSets
  <2>4. \A d \in Channel : \A w \in ToSet(members[d]) : nick'[w] = nick[w]
    BY <1>2, ListedAreLive
  <2>5. ASSUME NEW d \in Channel
        PROVE  Listed(d)' = Listed(d) \cup (IF d = c THEN {n} \ {me} ELSE {})
    BY <1>2, <2>3, <2>4 DEF Listed
  <2>6. n \notin Listed(c) => u \notin ToSet(members[c])
    BY <1>2, ListedAreLive DEF Listed
  <2>7. LinkedOnce /\ n \notin Listed(c) => LinkedOnce'
    BY <2>2, <2>3, <2>6 DEF LinkedOnce
  <2> QED
    BY <1>2, <2>5, <2>7
<1>3. ASSUME NEW i \in DOMAIN ulist, n # me, FirstNamed(ulist, i, n), UNCHANGED users,
             LinkUserToChannel(ulist[i], chans[ulist[i]], c)
      PROVE  \E u \in UserId :
                /\ nick'[u] = n /\ \A w \in Live : w # u => nick'[w] = nick[w]
                /\ u \in Live => nick[u] = n
                /\ LinkUserToChannel(u, chans[u], c)
  <2>1. ulist[i] \in UserId
    BY ElementOfSeq, LenProperties DEF ListsInv, ListsOK
  <2> QED
    BY <1>3, <2>1 DEF FirstNamed, users
<1>4. ASSUME NEW u \in UserId, n # me, NoneNamed(ulist, n), CreateUser(u, n),
             LinkUserToChannel(u, << >>, c)
      PROVE  /\ nick'[u] = n /\ \A w \in Live : w # u => nick'[w] = nick[w]
             /\ u \in Live => nick[u] = n
             /\ LinkUserToChannel(u, chans[u], c)
  <2>1. u \notin Live /\ nick' = [nick EXCEPT ![u] = n]
    BY <1>4 DEF CreateUser
  <2>2. chans[u] = << >>
    BY <2>1 DEF ListsInv, Released
  <2>3. \A w \in Live : w \in UserId
    BY OneOfAName
  <2> QED
    BY <1>0, <1>4, <2>1, <2>2, <2>3
<1> QED
  BY <1>1, <1>2, <1>3, <1>4 DEF AddUserToChannel

\* DelUserFromChannel takes nobody but n off that channel, and n as often as it
\* is linked once.
LEMMA DelUserFromChannelLists ==
    ASSUME ListsInv, NEW n, NEW c \in Channel, NEW next,
           DelUserFromChannel(n, c, next), UNCHANGED <<me, users, clist>>
    PROVE  /\ \A d \in Channel : d # c => Listed(d)' = Listed(d)
           /\ Listed(c) \ {n} \subseteq Listed(c)'
           /\ LinkedOnce => LinkedOnce' /\ Listed(c)' = Listed(c) \ {n}
<1>0. /\ members \in [Channel -> Seq(UserId)]
      /\ UNCHANGED nick
  BY DEF ListsInv, ListsOK, users
<1>1. CASE UNCHANGED members /\ (n = me \/ c \notin clist \/ NoneNamed(members[c], n))
  <2>1. n \notin Listed(c)
    <3>1. CASE n = me
      BY <3>1, ListedAreLive
    <3>2. CASE c \notin clist
      <4>1. DOMAIN members[c] = {}
        BY <3>2 DEF ListsInv, Released
      <4> QED
        BY <4>1 DEF Listed, ToSet
    <3>3. CASE NoneNamed(members[c], n)
      BY <3>3 DEF Listed, ToSet, NoneNamed
    <3> QED
      BY <1>1, <3>1, <3>2, <3>3
  <2> QED
    BY <1>0, <1>1, <2>1 DEF Listed, LinkedOnce
<1>2. ASSUME NEW i \in DOMAIN members[c], FirstNamed(members[c], i, n),
             members' = [members EXCEPT ![c] = RemoveAt(members[c], i)]
      PROVE  /\ \A d \in Channel : d # c => Listed(d)' = Listed(d)
             /\ Listed(c) \ {n} \subseteq Listed(c)'
             /\ LinkedOnce => LinkedOnce' /\ Listed(c)' = Listed(c) \ {n}
  <2> DEFINE u == members[c][i]
  <2>1. nick[u] = n /\ u \in ToSet(members[c])
    BY <1>2 DEF FirstNamed, ToSet
  <2>2. /\ \A d \in Channel : d # c => members'[d] = members[d]
        /\ ToSet(members[c]) = ToSet(members'[c]) \cup {u}
        /\ Distinct(members[c]) => Distinct(members'[c]) /\ u \notin ToSet(members'[c])
    BY <1>0, <1>2, ListSets
  <2> HIDE DEF u
  <2>3. \A w \in ToSet(members[c]) : nick[w] = n => w = u
    BY <2>1, ListedAreLive
  <2>4. \A d \in Channel : d # c => Listed(d)' = Listed(d)
    BY <1>0, <2>2 DEF Listed
  <2>5. Listed(c) \ {n} \subseteq Listed(c)'
    BY <1>0, <2>1, <2>2 DEF Listed
  <2>6. ASSUME LinkedOnce
        PROVE  LinkedOnce' /\ Listed(c)' = Listed(c) \ {n}
    <3>1. ToSet(members'[c]) = ToSet(members[c]) \ {u}
      BY <2>2, <2>6 DEF LinkedOnce
    <3>2. Listed(c)' = Listed(c) \ {n}
      BY <1>0, <2>1, <2>3, <3>1 DEF Listed
    <3>3. LinkedOnce'
      BY <2>2, <2>6 DEF LinkedOnce
    <3> QED
      BY <3>2, <3>3
  <2> QED
    BY <2>4, <2>5, <2>6
<1> QED
  BY <1>1, <1>2 DEF DelUserFromChannel

\* A record that goes, or comes without a channel, is on nobody's channel.
LEMMA UnlinkedLists ==
    ASSUME ListsInv, NEW u \in UserId, chans[u] = << >>, UNCHANGED links,
           \A w \in UserId \ {u} : nick'[w] = nick[w]
    PROVE  /\ \A d \in Channel : Listed(d)' = Listed(d)
           /\ u \in Live => \A d \in Channel : nick[u] \notin Listed(d)
           /\ LinkedOnce => LinkedOnce'
<1>1. \A d \in Channel : ToSet(members[d]) \subseteq UserId \ {u}
  <2>1. ASSUME NEW d \in Channel, NEW i \in DOMAIN members[d], members[d][i] = u
        PROVE  FALSE
    <3>1. ~Absent(chans[u], d)
      BY <2>1, MemberIsLinked
    <3>2. DOMAIN chans[u] = {}
      OBVIOUS
    <3> QED
      BY <3>1, <3>2 DEF Absent
  <2> QED
    BY <2>1, ListedAreLive DEF ToSet
<1>2. \A d \in Channel : Listed(d)' = Listed(d)
  BY <1>1 DEF Listed, links
<1>3. u \in Live => \A d \in Channel : nick[u] \notin Listed(d)
  BY <1>1, ListedAreLive DEF Listed
<1>4. LinkedOnce => LinkedOnce'
  BY DEF LinkedOnce, links
<1> QED
  BY <1>2, <1>3, <1>4

\* RenameUser renames who is listed.
LEMMA RenameLists ==
    ASSUME ListsInv, NEW n, NEW new, new # me, RenameUser(n, new), UNCHANGED links
    PROVE  /\ \A d \in Channel : Listed(d)' = {IF x = n THEN new ELSE x : x \in Listed(d)}
           /\ LinkedOnce => LinkedOnce'
<1>0. LinkedOnce => LinkedOnce'
  BY DEF LinkedOnce, links
<1>1. CASE NoneNamed(ulist, n) /\ UNCHANGED nick
  <2>1. \A d \in Channel : n \notin Listed(d)
    BY <1>1, ListedAreLive DEF Listed, NoneNamed, Live
  <2>2. \A d \in Channel : Listed(d)' = Listed(d)
    BY <1>1 DEF Listed, links
  <2> QED
    BY <1>0, <2>1, <2>2
<1>2. ASSUME NEW i \in DOMAIN ulist, FirstNamed(ulist, i, n), nick' = [nick EXCEPT ![ulist[i]] = new]
      PROVE  \A d \in Channel : Listed(d)' = {IF x = n THEN new ELSE x : x \in Listed(d)}
  <2>1. ulist[i] \in Live /\ nick[ulist[i]] = n
    BY <1>2 DEF FirstNamed, Live
  <2>2. ASSUME NEW d \in Channel, NEW w \in ToSet(members[d])
        PROVE  nick'[w] = IF nick[w] = n THEN new ELSE nick[w]
    <3>1. w \in UserId /\ nick \in [UserId -> Nick \cup {NoNick}]
      BY ListedAreLive DEF ListsInv, ListsOK
    <3>2. nick[w] = n => w = ulist[i]
      BY <2>1, ListedAreLive
    <3> QED
      BY <1>2, <2>1, <3>1, <3>2
  <2>3. ASSUME NEW d \in Channel
        PROVE  Listed(d)' = {IF x = n THEN new ELSE x : x \in Listed(d)}
    BY <2>2 DEF Listed, links
  <2> QED
    BY <2>3
<1> QED
  BY <1>0, <1>1, <1>2 DEF RenameUser

-----------------------------------------------------------------------------
(* The session: who the bot is going to list *)

\* Whom the bot lists when it has handled m, if it lists v before.
Heard(v, m) ==
    [c \in Channel |->
        IF m.cmd = "JOIN" /\ m.chan = c THEN v[c] \cup ({m.nick} \ {FirstNick})
        ELSE IF m.cmd = "353" /\ m.chan = c THEN v[c] \cup (m.names \ {FirstNick})
        ELSE IF m.cmd = "QUIT" \/ (m.cmd \in {"PART", "KICK"} /\ m.chan = c) THEN v[c] \ {m.nick}
        ELSE IF m.cmd = "NICK" THEN {IF x = m.nick THEN m.new ELSE x : x \in v[c]}
        ELSE v[c]]

\* Whom the bot lists when the handler that runs has ended.
Now ==
    [c \in Channel |->
        IF frame.op = "names" /\ frame.chan = c THEN Listed(c) \cup (msg.names \ {FirstNick})
        ELSE IF frame.op = "quit" THEN Listed(c) \ {nick[frame.user]}
        ELSE Listed(c)]

\* Whoever m says has come is not listed by then.
Newcomer(v, m) ==
    /\ m.cmd = "JOIN" => m.nick \notin v[m.chan]
    /\ m.cmd = "353" => v[m.chan] = {}

\* No user is linked to a channel twice, nor about to be.
Once ==
    /\ LinkedOnce
    /\ frame.op = "names" => msg.names \cap Listed(frame.chan) = {}

\* Between two handlers what is listed is what is listed.
LEMMA NowListed ==
    /\ frame.op \notin {"names", "quit"} => \A c \in Channel : Now[c] = Listed(c)
    /\ frame'.op \notin {"names", "quit"} => \A c \in Channel : Now'[c] = Listed(c)'
BY DEF Now

\* What Heard makes of messages of each kind.
LEMMA HeardOf ==
    ASSUME NEW v, NEW m, NEW c \in Channel
    PROVE  /\ m.cmd = "JOIN" =>
                 Heard(v, m)[c] = v[c] \cup (IF c = m.chan THEN {m.nick} \ {FirstNick} ELSE {})
           /\ m.cmd = "353" =>
                 Heard(v, m)[c] = v[c] \cup (IF c = m.chan THEN m.names \ {FirstNick} ELSE {})
           /\ m.cmd \in {"PART", "KICK"} =>
                 Heard(v, m)[c] = v[c] \ (IF c = m.chan THEN {m.nick} ELSE {})
           /\ m.cmd = "QUIT" => Heard(v, m)[c] = v[c] \ {m.nick}
           /\ m.cmd = "NICK" => Heard(v, m)[c] = {IF x = m.nick THEN m.new ELSE x : x \in v[c]}
           /\ m.cmd \in {"PRIVMSG", "433"} => Heard(v, m)[c] = v[c]
BY DEF Heard

\* The bot makes of a message what Heard says.
LEMMA BotHears ==
    ASSUME STypeOK, PlacesInv, FreshInv, IInv, JoinsOnly, Receive
    PROVE  /\ frame'.op # "delchan"
           /\ \E m \in BotMsg :
                 /\ Takes(m)
                 /\ \A c \in Channel : Heard(Now, m)[c] \subseteq Now'[c]
                 /\ Once /\ Newcomer(Now, m) =>
                       Once' /\ \A c \in Channel : Now'[c] = Heard(Now, m)[c]
<1>a. PICK m \in BotMsg : Takes(m) /\ m = Head(toBot) /\ m = toBot[1] /\ 1 \in DOMAIN toBot
  BY QueueHead DEF Receive, STypeOK, WireOK, Takes
<1>0. ListsInv /\ me = FirstNick /\ m.cmd # "433"
  <2>1. ListsInv
    BY DEF IInv, TypeOK, ListsInv, ListsOK
  <2>2. m \in Coming
    BY <1>a DEF Coming, ToSet
  <2> QED
    BY <2>1, <2>2 DEF PlacesInv, NickKept, JoinsOnly
<1>1. \/ m.cmd = "JOIN"    /\ sm_join(m.nick, m.chan)
      \/ m.cmd = "PART"    /\ sm_part(m.nick, m.chan)
      \/ m.cmd = "KICK"    /\ sm_kick(m.nick, m.chan)
      \/ m.cmd = "QUIT"    /\ sm_quit(m.nick)
      \/ m.cmd = "NICK"    /\ sm_nick(m.nick, m.new)
      \/ m.cmd = "PRIVMSG" /\ sm_privmsg(m.nick)
      \/ m.cmd = "353"     /\ get_users_from_chan(m.chan)
      \/ m.cmd = "433"     /\ numeric_nickinuse
  BY <1>a DEF Receive
<1>2. msg' = IF frame' = Idle THEN NoMsg ELSE m
  BY <1>a DEF Receive
<1> DEFINE Done == /\ frame'.op # "delchan"
                   /\ \A c \in Channel : Heard(Now, m)[c] \subseteq Now'[c]
                   /\ Once /\ Newcomer(Now, m) =>
                         Once' /\ \A c \in Channel : Now'[c] = Heard(Now, m)[c]
<1>3. /\ frame = Idle
      /\ \A c \in Channel : Now[c] = Listed(c)
  <2>1. frame = Idle
    BY <1>1 DEF sm_join, sm_part, sm_kick, sm_quit, sm_nick, sm_privmsg, get_users_from_chan,
                numeric_nickinuse
  <2> QED
    BY <2>1, NowListed DEF Idle
<1>4. ASSUME frame'.op \notin {"delchan", "names", "quit"},
             \A c \in Channel : Heard(Now, m)[c] \subseteq Listed(c)',
             LinkedOnce /\ Newcomer(Now, m) =>
                 LinkedOnce' /\ \A c \in Channel : Listed(c)' = Heard(Now, m)[c]
      PROVE  Done
  BY <1>4, NowListed DEF Once
<1>b. ASSUME frame'.op \in {"names", "quit"}, LinkedOnce => LinkedOnce',
             \A c \in Channel : Now'[c] = Heard(Now, m)[c],
             frame'.op = "names" /\ Newcomer(Now, m) => msg'.names \cap Listed(frame.chan)' = {}
      PROVE  Done
  BY <1>b DEF Once
<1> SUFFICES Done
  BY <1>a
<1> HIDE DEF Done
<1>h. ASSUME NEW d \in Channel
      PROVE  /\ m.cmd = "JOIN" =>
                   Heard(Now, m)[d] = Listed(d) \cup (IF d = m.chan THEN {m.nick} \ {me} ELSE {})
             /\ m.cmd = "353" =>
                   Heard(Now, m)[d] = Listed(d) \cup (IF d = m.chan THEN m.names \ {FirstNick} ELSE {})
             /\ m.cmd \in {"PART", "KICK"} =>
                   Heard(Now, m)[d] = Listed(d) \ (IF d = m.chan THEN {m.nick} ELSE {})
             /\ m.cmd = "QUIT" => Heard(Now, m)[d] = Listed(d) \ {m.nick}
             /\ m.cmd = "NICK" =>
                   Heard(Now, m)[d] = {IF x = m.nick THEN m.new ELSE x : x \in Listed(d)}
             /\ m.cmd = "PRIVMSG" => Heard(Now, m)[d] = Listed(d)
  <2>1. Now[d] = Listed(d) /\ me = FirstNick
    BY <1>0, <1>3
  <2> QED
    BY <2>1, HeardOf
<1>5. CASE m.cmd = "JOIN"
  <2>1. /\ m.nick \in Nick /\ m.chan \in Channel
        /\ AddUserToChannel(m.nick, m.chan) /\ UNCHANGED <<me, frame>>
    BY <1>0, <1>1, <1>5, BotMsgFields DEF sm_join
  <2>2. /\ \A d \in Channel :
              Listed(d)' = Listed(d) \cup (IF d = m.chan THEN {m.nick} \ {me} ELSE {})
        /\ LinkedOnce /\ (m.nick = me \/ m.nick \notin Listed(m.chan)) => LinkedOnce'
    BY <1>0, <2>1, AddUserLists
  <2>3. \A d \in Channel : Listed(d)' = Heard(Now, m)[d]
    BY <1>5, <1>h, <2>2
  <2>4. Newcomer(Now, m) => m.nick \notin Listed(m.chan)
    BY <1>3, <1>5, <2>1 DEF Newcomer
  <2>5. frame'.op \notin {"delchan", "names", "quit"}
    BY <1>3, <2>1 DEF Idle
  <2> QED
    BY <1>4, <2>2, <2>3, <2>4, <2>5
<1>6. CASE m.cmd \in {"PART", "KICK"}
  <2>1. /\ m.nick \in Nick /\ m.chan \in Channel
        /\ DelUserFromChannel(m.nick, m.chan, Idle) /\ UNCHANGED <<me, users, clist>>
    BY <1>0, <1>1, <1>6, BotMsgFields DEF sm_part, sm_kick
  <2>2. frame' = Idle
    BY <1>0, <2>1, DelUserFromChannelInv
  <2>3. /\ \A d \in Channel : d # m.chan => Listed(d)' = Listed(d)
        /\ Listed(m.chan) \ {m.nick} \subseteq Listed(m.chan)'
        /\ LinkedOnce => LinkedOnce' /\ Listed(m.chan)' = Listed(m.chan) \ {m.nick}
    BY <1>0, <2>1, DelUserFromChannelLists
  <2>4. \A d \in Channel :
           Heard(Now, m)[d] = IF d = m.chan THEN Listed(d) \ {m.nick} ELSE Listed(d)
    BY <1>6, <1>h
  <2> QED
    BY <1>4, <2>2, <2>3, <2>4 DEF Idle
<1>7. CASE m.cmd = "QUIT"
  <2>1. sm_quit(m.nick) /\ UNCHANGED <<users, links>>
    BY <1>1, <1>7 DEF sm_quit
  <2>2. \A d \in Channel : Listed(d)' = Listed(d)
    BY <2>1 DEF users, links, Listed
  <2>3. \A d \in Channel : Heard(Now, m)[d] = Listed(d) \ {m.nick}
    BY <1>7, <1>h
  <2>4. LinkedOnce' <=> LinkedOnce
    BY <2>1 DEF LinkedOnce, links
  <2>5. CASE NoneNamed(ulist, m.nick) /\ UNCHANGED frame
    <3>1. ASSUME NEW d \in Channel
          PROVE  m.nick \notin Listed(d)
      <4>1. \A w \in ToSet(members[d]) : w \in Live
        BY <1>0, ListedAreLive
      <4> QED
        BY <2>5, <4>1 DEF NoneNamed, Live, Listed
    <3> QED
      BY <1>3, <1>4, <2>2, <2>3, <2>4, <2>5, <3>1 DEF Idle
  <2>6. ASSUME NEW i \in DOMAIN ulist, FirstNamed(ulist, i, m.nick),
               frame' = [op |-> "quit", user |-> ulist[i]]
        PROVE  /\ frame'.op = "quit"
               /\ \A d \in Channel : Now'[d] = Listed(d) \ {m.nick}
    <3>1. frame'.op = "quit" /\ nick'[frame'.user] = m.nick
      BY <2>1, <2>6 DEF FirstNamed, users
    <3> QED
      BY <2>2, <3>1 DEF Now
  <2> QED
    BY <1>b, <2>1, <2>3, <2>4, <2>5, <2>6 DEF sm_quit
<1>8. CASE m.cmd = "NICK"
  <2>1. RenameUser(m.nick, m.new) /\ UNCHANGED <<links, frame>>
    BY <1>1, <1>8 DEF sm_nick
  <2>2. m.new # me
    BY <1>0, <1>8, <1>a DEF FreshInv, Fresh, JoinsOnly
  <2>3. /\ \A d \in Channel : Listed(d)' = {IF x = m.nick THEN m.new ELSE x : x \in Listed(d)}
        /\ LinkedOnce => LinkedOnce'
    BY <1>0, <2>1, <2>2, RenameLists
  <2>4. \A d \in Channel : Heard(Now, m)[d] = {IF x = m.nick THEN m.new ELSE x : x \in Listed(d)}
    BY <1>8, <1>h
  <2> QED
    BY <1>3, <1>4, <2>1, <2>3, <2>4 DEF Idle
<1>9. CASE m.cmd = "PRIVMSG"
  <2>1. /\ sm_privmsg(m.nick) /\ UNCHANGED links
        /\ frame'.op \in {"idle", "command"}
    BY <1>1, <1>3, <1>9 DEF sm_privmsg, Idle
  <2>2. \A d \in Channel : Heard(Now, m)[d] = Listed(d)
    BY <1>9, <1>h
  <2>3. /\ \A d \in Channel : Listed(d)' = Listed(d)
        /\ LinkedOnce => LinkedOnce'
    <3>1. CASE UNCHANGED nick
      BY <2>1, <3>1 DEF Listed, LinkedOnce, links
    <3>2. ASSUME NEW u \in UserId, CreateUser(u, m.nick)
          PROVE  /\ \A d \in Channel : Listed(d)' = Listed(d)
                 /\ LinkedOnce => LinkedOnce'
      <4>1. u \notin Live /\ nick' = [nick EXCEPT ![u] = m.nick]
        BY <3>2 DEF CreateUser
      <4>2. chans[u] = << >> /\ nick \in [UserId -> Nick \cup {NoNick}]
        BY <1>0, <4>1 DEF ListsInv, ListsOK, Released
      <4>3. \A w \in UserId \ {u} : nick'[w] = nick[w]
        BY <4>1, <4>2
      <4> QED
        BY <1>0, <2>1, <4>2, <4>3, UnlinkedLists
    <3> QED
      BY <2>1, <3>1, <3>2 DEF sm_privmsg, users
  <2> QED
    BY <1>4, <2>1, <2>2, <2>3
<1>10. CASE m.cmd = "353"
  <2>1. /\ m.chan \in Channel
        /\ UNCHANGED <<users, links>>
        /\ frame' = [op |-> "names", chan |-> m.chan, left |-> MaxNames]
    BY <1>0, <1>1, <1>10, BotMsgFields DEF get_users_from_chan
  <2>2. frame'.op = "names" /\ frame'.chan = m.chan /\ frame' # Idle /\ msg' = m
    BY <1>2, <2>1 DEF Idle
  <2>3. /\ \A d \in Channel : Listed(d)' = Listed(d)
        /\ LinkedOnce => LinkedOnce'
    BY <2>1 DEF users, links, Listed, LinkedOnce
  <2>4. \A d \in Channel : Now'[d] = IF d = m.chan THEN Listed(d) \cup (m.names \ {FirstNick})
                                                   ELSE Listed(d)
    BY <2>2, <2>3 DEF Now
  <2>5. ASSUME NEW d \in Channel
        PROVE  Now'[d] = Heard(Now, m)[d]
    <3>1. Heard(Now, m)[d] = Listed(d) \cup (IF d = m.chan THEN m.names \ {FirstNick} ELSE {})
      BY <1>10, <1>h
    <3>2. Now'[d] = IF d = m.chan THEN Listed(d) \cup (m.names \ {FirstNick}) ELSE Listed(d)
      BY <2>4
    <3> QED
      BY <3>1, <3>2
  <2>6. Newcomer(Now, m) => m.names \cap Listed(m.chan) = {}
    BY <1>3, <1>10, <2>1 DEF Newcomer
  <2>7. Listed(frame.chan)' = Listed(m.chan)
    BY <2>1, <2>2, <2>3
  <2> QED
    BY <1>b, <2>2, <2>3, <2>5, <2>6, <2>7
<1> QED
  BY <1>0, <1>1, <1>5, <1>6, <1>7, <1>8, <1>9, <1>10, BotMsgFields

\* What the bot goes on with leaves nobody out.
LEMMA BotGoesOn ==
    ASSUME STypeOK, PlacesInv, IInv, JoinsOnly, frame.op # "delchan",
           Handle \/ (\E n \in Nick : HandleName(n)) \/ Housekeeping
    PROVE  /\ frame'.op # "delchan"
           /\ UNCHANGED toBot
           /\ \A c \in Channel : Now[c] \subseteq Now'[c]
           /\ Once => Once' /\ \A c \in Channel : Now'[c] = Now[c]
<1>0. /\ ListsInv
      /\ me = FirstNick
      /\ UNCHANGED toBot
      /\ frame \in Frame
      /\ nick \in [UserId -> Nick \cup {NoNick}]
  BY DEF IInv, TypeOK, ListsInv, ListsOK, PlacesInv, NickKept, JoinsOnly,
         Handle, HandleName, Housekeeping, STypeOK
<1> DEFINE Done == /\ frame'.op # "delchan"
                   /\ \A c \in Channel : Now[c] \subseteq Now'[c]
                   /\ Once => Once' /\ \A c \in Channel : Now'[c] = Now[c]
<1> SUFFICES Done
  BY <1>0
<1>1. ASSUME frame.op \notin {"names", "quit"}, frame'.op \notin {"delchan", "names", "quit"},
             \A c \in Channel : Listed(c)' = Listed(c), LinkedOnce => LinkedOnce'
      PROVE  Done
  BY <1>1, NowListed DEF Once
<1>2. CASE QuitStep
  <2> DEFINE u == frame.user
             e == Head(chans[u])
  <2>1. frame.op = "quit" /\ u \in Live /\ u \in UserId /\ chans[u] \in Seq(Channel)
    <3>1. frame.op = "quit" /\ u \in Live
      BY <1>2 DEF QuitStep, IInv, HeldUserLive
    <3> QED
      BY <1>0, <3>1, OneOfAName DEF ListsInv, ListsOK
  <2>2. PICK n \in Nick \cup {NoNick} : n = nick[u]
    BY <1>0, <2>1
  <2>3. \A c \in Channel : Now[c] = Listed(c) \ {n}
    BY <2>1, <2>2 DEF Now
  <2>4. ASSUME chans[u] # << >>, DelUserFromChannel(n, e, frame), UNCHANGED <<me, users, clist>>
        PROVE  Done
    <3>1. PICK d \in Channel : d = e
      BY <2>1, <2>4, QueueHead
    <3>2. PICK f : f = frame /\ DelUserFromChannel(n, d, f)
      BY <2>4, <3>1
    <3>3. frame' = frame
      BY <1>0, <2>4, <3>2, DelUserFromChannelInv
    <3>4. /\ \A c \in Channel : c # d => Listed(c)' = Listed(c)
          /\ Listed(d) \ {n} \subseteq Listed(d)'
          /\ LinkedOnce => LinkedOnce' /\ Listed(d)' = Listed(d) \ {n}
      BY <1>0, <2>4, <3>2, DelUserFromChannelLists
    <3>5. \A c \in Channel : Now'[c] = Listed(c)' \ {n}
      <4>1. frame'.op = "quit" /\ nick'[frame'.user] = n
        BY <2>1, <2>2, <2>4, <3>3 DEF users
      <4> QED
        BY <4>1 DEF Now
    <3>6. \A c \in Channel : Listed(c) \ {n} \subseteq Listed(c)' \ {n}
      BY <3>4
    <3>7. LinkedOnce => \A c \in Channel : Listed(c)' \ {n} = Listed(c) \ {n}
      BY <3>4
    <3> QED
      BY <2>1, <2>3, <3>3, <3>4, <3>5, <3>6, <3>7 DEF Once
  <2>5. ASSUME chans[u] = << >>, DelUser(u), frame' = Idle, UNCHANGED links
        PROVE  Done
    <3>1. PICK w \in UserId : w = u
      BY <2>1
    <3>2. \A x \in UserId \ {w} : nick'[x] = nick[x]
      BY <1>0, <2>5, <3>1 DEF DelUser
    <3>3. /\ \A d \in Channel : Listed(d)' = Listed(d)
          /\ \A d \in Channel : n \notin Listed(d)
          /\ LinkedOnce => LinkedOnce'
      BY <1>0, <2>1, <2>2, <2>5, <3>1, <3>2, UnlinkedLists
    <3>4. frame'.op = "idle" /\ \A c \in Channel : Now'[c] = Listed(c)'
      BY <2>5, NowListed DEF Idle
    <3>5. ASSUME NEW c \in Channel
          PROVE  Now'[c] = Now[c]
      BY <2>3, <3>3, <3>4
    <3> QED
      BY <3>3, <3>4, <3>5 DEF Once
  <2> QED
    BY <1>2, <2>2, <2>4, <2>5 DEF QuitStep
<1>3. CASE Handle /\ ~QuitStep
  <2>1. /\ ~DelChannelStep
        /\ msg.cmd = "PRIVMSG" => msg.what.ask = "join"
    <3>1. setting.asks \subseteq {"join"}
      BY DEF JoinsOnly
    <3> QED
      BY <3>1 DEF DelChannelStep, PlacesInv, AsksInv
  <2>2. CASE msg.cmd = "PRIVMSG" /\ msg_join(msg.what.chan)
    <3>1. /\ UNCHANGED <<users, links>>
          /\ frame.op = "command" /\ frame' = Idle
      BY <2>2 DEF msg_join
    <3>2. /\ \A c \in Channel : Listed(c)' = Listed(c)
          /\ LinkedOnce => LinkedOnce'
      BY <3>1 DEF users, links, Listed, LinkedOnce
    <3> QED
      BY <1>1, <3>1, <3>2 DEF Idle
  <2>3. CASE msg.cmd = "353" /\ msg.names = {} /\ NamesEnd
    <3>1. /\ UNCHANGED <<users, links>>
          /\ frame.op = "names" /\ frame' = Idle
      BY <2>3 DEF NamesEnd
    <3>2. /\ \A c \in Channel : Listed(c)' = Listed(c)
          /\ LinkedOnce => LinkedOnce'
      BY <3>1 DEF users, links, Listed, LinkedOnce
    <3>3. \A c \in Channel : Now'[c] = Listed(c)'
      BY <3>1, NowListed DEF Idle
    <3>4. \A c \in Channel : Now[c] = Listed(c)
      BY <2>3, <3>1 DEF Now
    <3> QED
      BY <3>1, <3>2, <3>3, <3>4 DEF Once, Idle
  <2> QED
    BY <1>3, <2>1, <2>2, <2>3 DEF Handle
<1>4. ASSUME NEW n \in Nick, HandleName(n)
      PROVE  Done
  <2>1. /\ frame.op = "names" /\ AddUserToChannel(n, frame.chan) /\ UNCHANGED me
        /\ frame' = [frame EXCEPT !.left = @ - 1]
        /\ msg.cmd = "353" /\ n \in msg.names /\ msg' = [msg EXCEPT !.names = @ \ {n}]
    BY <1>4 DEF HandleName, NamesStep
  <2>2. /\ frame \in [op : {"names"}, chan : Channel, left : 0 .. MaxNames]
        /\ msg \in BotMsg
    BY <1>0, <2>1 DEF Frame, Idle, Crashed, STypeOK, WireOK, NoMsg
  <2>3. PICK c \in Channel, N \in SUBSET Nick : c = frame.chan /\ N = msg.names
    BY <2>1, <2>2, BotMsgFields
  <2>4. frame'.op = "names" /\ frame'.chan = c /\ msg'.names = N \ {n} /\ n \in N
    BY <2>1, <2>2, <2>3 DEF BotMsg
  <2>5. /\ \A d \in Channel : Listed(d)' = Listed(d) \cup (IF d = c THEN {n} \ {me} ELSE {})
        /\ LinkedOnce /\ (n = me \/ n \notin Listed(c)) => LinkedOnce'
    BY <1>0, <2>1, <2>3, AddUserLists
  <2>6. \A d \in Channel : /\ Now[d] = IF d = c THEN Listed(d) \cup (N \ {FirstNick}) ELSE Listed(d)
                           /\ Now'[d] = IF d = c THEN Listed(d)' \cup ((N \ {n}) \ {FirstNick})
                                                 ELSE Listed(d)'
    BY <2>1, <2>3, <2>4 DEF Now
  <2>7. ASSUME NEW d \in Channel
        PROVE  Now'[d] = Now[d]
    <3>1. CASE d = c
      <4>1. /\ Now[d] = Listed(d) \cup (N \ {me})
            /\ Now'[d] = Listed(d)' \cup ((N \ {n}) \ {me})
            /\ Listed(d)' = Listed(d) \cup ({n} \ {me})
        BY <1>0, <2>5, <2>6, <3>1
      <4> QED
        BY <2>4, <4>1
    <3>2. CASE d # c
      <4>1. Now[d] = Listed(d) /\ Now'[d] = Listed(d)' /\ Listed(d)' = Listed(d)
        BY <2>5, <2>6, <3>2
      <4> QED
        BY <4>1
    <3> QED
      BY <3>1, <3>2
  <2>8. ASSUME Once
        PROVE  Once'
    <3>1. N \cap Listed(c) = {} /\ LinkedOnce
      BY <2>1, <2>3, <2>8 DEF Once
    <3>2. (N \ {n}) \cap (Listed(c) \cup ({n} \ {me})) = {} /\ n \notin Listed(c)
      BY <2>4, <3>1
    <3> QED
      BY <2>4, <2>5, <3>1, <3>2 DEF Once
  <2> QED
    BY <2>4, <2>7, <2>8
<1>5. CASE Housekeeping
  <2>1. /\ frame.op \in {"idle", "reap"} /\ frame'.op \in {"idle", "reap"} /\ UNCHANGED links
    BY <1>5 DEF Housekeeping, ReapUserList, ReapStep, GrowOld, Idle
  <2>2. CASE UNCHANGED nick
    <3>1. /\ \A c \in Channel : Listed(c)' = Listed(c)
          /\ LinkedOnce => LinkedOnce'
      BY <2>1, <2>2 DEF links, Listed, LinkedOnce
    <3> QED
      BY <1>1, <2>1, <3>1
  <2>3. ASSUME NEW u \in Live, Reapable(u), DelUser(u)
        PROVE  Done
    <3>1. u \in UserId /\ chans[u] = << >>
      BY <1>0, <2>3, OneOfAName DEF Reapable
    <3>2. \A x \in UserId \ {u} : nick'[x] = nick[x]
      BY <1>0, <2>3 DEF DelUser
    <3>3. /\ \A d \in Channel : Listed(d)' = Listed(d)
          /\ LinkedOnce => LinkedOnce'
      BY <1>0, <2>1, <3>1, <3>2, UnlinkedLists
    <3> QED
      BY <1>1, <2>1, <3>3
  <2> QED
    BY <1>5, <2>2, <2>3 DEF Housekeeping, ReapUserList, ReapStep, GrowOld, users
<1> QED
  BY <1>2, <1>3, <1>4, <1>5 DEF Handle

View == [Channel -> SUBSET (Nick \cup {NoNick})]

\* What Heard makes of one view is a view, and less of less.
LEMMA HeardView ==
    ASSUME NEW m \in BotMsg
    PROVE  /\ \A v \in View : Heard(v, m) \in View
           /\ \A v, w : (\A c \in Channel : v[c] \subseteq w[c]) =>
                 \A c \in Channel : Heard(v, m)[c] \subseteq Heard(w, m)[c]
           /\ \A v, w : (\A c \in Channel : v[c] = w[c]) =>
                 /\ \A c \in Channel : Heard(v, m)[c] = Heard(w, m)[c]
                 /\ Newcomer(v, m) => Newcomer(w, m)
<1>0. /\ m.cmd \in {"JOIN", "PART", "KICK"} => m.nick \in Nick /\ m.chan \in Channel
      /\ m.cmd = "353" => m.chan \in Channel /\ m.names \subseteq Nick
      /\ m.cmd = "NICK" => m.new \in Nick
      /\ m.cmd \in {"JOIN", "PART", "KICK", "QUIT", "NICK", "PRIVMSG", "353", "433"}
  BY BotMsgFields
<1>1. ASSUME NEW v \in View
      PROVE  Heard(v, m) \in View
  <2>1. ASSUME NEW c \in Channel
        PROVE  Heard(v, m)[c] \subseteq Nick \cup {NoNick}
    <3>1. v[c] \subseteq Nick \cup {NoNick}
      BY DEF View
    <3> QED
      BY <1>0, <3>1, HeardOf
  <2> QED
    BY <2>1 DEF View, Heard
<1>2. ASSUME NEW v, NEW w, \A c \in Channel : v[c] \subseteq w[c], NEW c \in Channel
      PROVE  Heard(v, m)[c] \subseteq Heard(w, m)[c]
  <2>1. v[c] \subseteq w[c]
    BY <1>2
  <2> QED
    BY <1>0, <2>1, HeardOf
<1>3. ASSUME NEW v, NEW w, \A c \in Channel : v[c] = w[c]
      PROVE  /\ \A c \in Channel : Heard(v, m)[c] = Heard(w, m)[c]
             /\ Newcomer(v, m) => Newcomer(w, m)
  <2>1. \A c \in Channel : Heard(v, m)[c] = Heard(w, m)[c]
    BY <1>3 DEF Heard
  <2>2. Newcomer(v, m) => Newcomer(w, m)
    BY <1>0, <1>3 DEF Newcomer
  <2> QED
    BY <2>1, <2>2
<1> QED
  BY <1>1, <1>2, <1>3

\* What the bot is going to list after each of the messages under way.
ViewOf(v) ==
    /\ v \in [0 .. Len(toBot) -> View]
    /\ \A k \in DOMAIN toBot : v[k] = Heard(v[k - 1], toBot[k])

\* Whoever is said to come is not listed before.
Proper(v) == \A k \in DOMAIN toBot : Newcomer(v[k - 1], toBot[k])

\* A message that comes last is heard last.
LEMMA ViewAppend ==
    ASSUME toBot \in Seq(BotMsg), NEW m \in BotMsg, toBot' = Append(toBot, m),
           NEW v, ViewOf(v)
    PROVE  \E w : /\ ViewOf(w)'
                  /\ w[0] = v[0]
                  /\ w[Len(toBot')] = Heard(v[Len(toBot)], m)
                  /\ Proper(v) /\ Newcomer(v[Len(toBot)], m) => Proper(w)'
<1>0. PICK n \in Nat : n = Len(toBot)
  BY LenProperties
<1>1. /\ DOMAIN toBot = 1 .. n
      /\ DOMAIN toBot' = 1 .. (n + 1)
      /\ Len(toBot') = n + 1
      /\ \A k \in 1 .. n : toBot'[k] = toBot[k]
      /\ toBot'[n + 1] = m
  BY <1>0, QueueAppend
<1>2. /\ v \in [0 .. n -> View]
      /\ \A k \in 1 .. n : v[k] = Heard(v[k - 1], toBot[k])
  BY <1>0, <1>1 DEF ViewOf
<1> DEFINE w == [k \in 0 .. (n + 1) |-> IF k <= n THEN v[k] ELSE Heard(v[n], m)]
<1>3. /\ \A k \in 0 .. n : w[k] = v[k]
      /\ w[n + 1] = Heard(v[n], m)
      /\ w \in [0 .. (n + 1) -> View]
  <2>1. v[n] \in View
    BY <1>2
  <2>2. Heard(v[n], m) \in View
    BY <2>1, HeardView
  <2> QED
    BY <1>2, <2>2
<1> HIDE DEF w
<1>4. ASSUME NEW k \in 1 .. (n + 1)
      PROVE  /\ w[k] = Heard(w[k - 1], toBot'[k])
             /\ Proper(v) /\ Newcomer(v[n], m) => Newcomer(w[k - 1], toBot'[k])
  <2>1. CASE k \in 1 .. n
    <3>1. k - 1 \in 0 .. n /\ k \in 0 .. n
      BY <2>1
    <3>2. w[k] = v[k] /\ w[k - 1] = v[k - 1] /\ toBot'[k] = toBot[k]
      BY <1>1, <1>3, <2>1, <3>1
    <3> QED
      BY <1>1, <1>2, <2>1, <3>2 DEF Proper
  <2>2. CASE k = n + 1
    <3>1. k - 1 = n /\ n \in 0 .. n
      BY <2>2
    <3> QED
      BY <1>1, <1>3, <2>2, <3>1
  <2>3. k \in 1 .. n \/ k = n + 1
    OBVIOUS
  <2> QED
    BY <2>1, <2>2, <2>3
<1>5. ViewOf(w)'
  BY <1>1, <1>3, <1>4 DEF ViewOf
<1>6. Proper(v) /\ Newcomer(v[n], m) => Proper(w)'
  BY <1>1, <1>4 DEF Proper
<1>7. w[0] = v[0] /\ w[Len(toBot')] = Heard(v[n], m)
  BY <1>1, <1>3
<1> QED
  BY <1>0, <1>5, <1>6, <1>7

\* Two messages that come last are heard one after the other.
LEMMA ViewAppendTwo ==
    ASSUME toBot \in Seq(BotMsg), NEW m \in BotMsg, NEW l \in BotMsg,
           toBot' = toBot \o <<m, l>>, NEW v, ViewOf(v)
    PROVE  \E w : /\ ViewOf(w)'
                  /\ w[0] = v[0]
                  /\ w[Len(toBot')] = Heard(Heard(v[Len(toBot)], m), l)
                  /\ /\ Proper(v) /\ Newcomer(v[Len(toBot)], m)
                     /\ Newcomer(Heard(v[Len(toBot)], m), l)
                     => Proper(w)'
<1>0. PICK n \in Nat : n = Len(toBot)
  BY LenProperties
<1>1. /\ DOMAIN toBot = 1 .. n
      /\ DOMAIN toBot' = 1 .. (n + 2)
      /\ Len(toBot') = n + 2
      /\ \A k \in 1 .. n : toBot'[k] = toBot[k]
      /\ toBot'[n + 1] = m
      /\ toBot'[n + 2] = l
  BY <1>0, QueueAppendTwo
<1>2. /\ v \in [0 .. n -> View]
      /\ \A k \in 1 .. n : v[k] = Heard(v[k - 1], toBot[k])
  BY <1>0, <1>1 DEF ViewOf
<1> DEFINE x == Heard(v[n], m)
           y == Heard(x, l)
           w == [k \in 0 .. (n + 2) |-> IF k <= n THEN v[k] ELSE IF k = n + 1 THEN x ELSE y]
<1>3. /\ \A k \in 0 .. n : w[k] = v[k]
      /\ w[n + 1] = x /\ w[n + 2] = y
      /\ w \in [0 .. (n + 2) -> View]
  <2>1. v[n] \in View
    BY <1>2
  <2>2. x \in View /\ y \in View
    BY <2>1, HeardView
  <2> HIDE DEF x, y
  <2> QED
    BY <1>2, <2>2
<1> HIDE DEF w
<1>4. ASSUME NEW k \in 1 .. (n + 2)
      PROVE  /\ w[k] = Heard(w[k - 1], toBot'[k])
             /\ Proper(v) /\ Newcomer(v[n], m) /\ Newcomer(x, l) =>
                   Newcomer(w[k - 1], toBot'[k])
  <2>1. CASE k \in 1 .. n
    <3>1. k - 1 \in 0 .. n /\ k \in 0 .. n
      BY <2>1
    <3>2. w[k] = v[k] /\ w[k - 1] = v[k - 1] /\ toBot'[k] = toBot[k]
      BY <1>1, <1>3, <2>1, <3>1
    <3> QED
      BY <1>1, <1>2, <2>1, <3>2 DEF Proper
  <2>2. CASE k = n + 1
    <3>1. k - 1 = n /\ n \in 0 .. n
      BY <2>2
    <3> QED
      BY <1>1, <1>3, <2>2, <3>1
  <2>3. CASE k = n + 2
    <3>1. k - 1 = n + 1
      BY <2>3
    <3> QED
      BY <1>1, <1>3, <2>3, <3>1
  <2>4. k \in 1 .. n \/ k = n + 1 \/ k = n + 2
    OBVIOUS
  <2> QED
    BY <2>1, <2>2, <2>3, <2>4
<1>5. ViewOf(w)'
  BY <1>1, <1>3, <1>4 DEF ViewOf
<1>6. Proper(v) /\ Newcomer(v[n], m) /\ Newcomer(x, l) => Proper(w)'
  BY <1>1, <1>4 DEF Proper
<1>7. w[0] = v[0] /\ w[Len(toBot')] = y
  BY <1>1, <1>3
<1> QED
  BY <1>0, <1>5, <1>6, <1>7

\* The message the bot takes is heard.
LEMMA ViewTake ==
    ASSUME toBot \in Seq(BotMsg), NEW m, Takes(m), NEW v, ViewOf(v)
    PROVE  \E w : /\ ViewOf(w)'
                  /\ w[0] = Heard(v[0], m)
                  /\ w[Len(toBot')] = v[Len(toBot)]
                  /\ Proper(v) => Proper(w)' /\ Newcomer(v[0], m)
<1>0. PICK n \in Nat : n = Len(toBot)
  BY LenProperties
<1>1. /\ DOMAIN toBot = 1 .. n
      /\ DOMAIN toBot' = 1 .. (n - 1)
      /\ Len(toBot') = n - 1
      /\ n > 0
      /\ m = toBot[1]
      /\ \A k \in 1 .. (n - 1) : toBot'[k] = toBot[k + 1]
  BY <1>0, QueueHead DEF Takes
<1>2. /\ v \in [0 .. n -> View]
      /\ \A k \in 1 .. n : v[k] = Heard(v[k - 1], toBot[k])
  BY <1>0, <1>1 DEF ViewOf
<1> DEFINE w == [k \in 0 .. (n - 1) |-> v[k + 1]]
<1>3. /\ \A k \in 0 .. (n - 1) : w[k] = v[k + 1]
      /\ w \in [0 .. (n - 1) -> View]
  BY <1>2
<1> HIDE DEF w
<1>4. ASSUME NEW k \in 1 .. (n - 1)
      PROVE  /\ w[k] = Heard(w[k - 1], toBot'[k])
             /\ Proper(v) => Newcomer(w[k - 1], toBot'[k])
  <2>1. k + 1 \in 1 .. n /\ (k + 1) - 1 = k /\ k \in 0 .. (n - 1) /\ k - 1 \in 0 .. (n - 1)
        /\ (k - 1) + 1 = k
    OBVIOUS
  <2>2. w[k] = v[k + 1] /\ w[k - 1] = v[k] /\ toBot'[k] = toBot[k + 1]
    BY <1>1, <1>3, <2>1
  <2>3. v[k + 1] = Heard(v[k], toBot[k + 1])
    BY <1>2, <2>1
  <2>4. Proper(v) => Newcomer(v[k], toBot[k + 1])
    BY <1>1, <2>1 DEF Proper
  <2> QED
    BY <2>2, <2>3, <2>4
<1>5. ViewOf(w)'
  BY <1>1, <1>3, <1>4 DEF ViewOf
<1>6. Proper(v) => Proper(w)' /\ Newcomer(v[0], m)
  BY <1>1, <1>4 DEF Proper
<1>7. w[0] = Heard(v[0], m)
  BY <1>1, <1>2, <1>3
<1>8. w[Len(toBot')] = v[n]
  <2>1. n - 1 \in 0 .. (n - 1) /\ (n - 1) + 1 = n
    BY <1>1
  <2> QED
    BY <1>1, <1>3, <2>1
<1> QED
  BY <1>0, <1>5, <1>6, <1>7, <1>8

\* Nothing takes the bot off a channel.
Steady == ~setting.kicks /\ ~setting.breaks

\* Whom the bot has to list: the others on the channels it is on.
Shown == [c \in Channel |-> IF BotOn(c) THEN on[c] \ {FirstNick} ELSE {}]

\* The bot hears of whatever changes who is on a channel it is on, in time.
LEMMA ClientsShown ==
    ASSUME STypeOK, PlacesInv, JoinsOnly, Clients
    PROVE  \/ /\ UNCHANGED toBot
              /\ \A c \in Channel : Shown'[c] = Shown[c]
           \/ \E m \in BotMsg :
                 /\ toBot' = Append(toBot, m)
                 /\ \A c \in Channel : Shown'[c] \subseteq Heard(Shown, m)[c]
                 /\ Steady => /\ \A c \in Channel : Shown'[c] = Heard(Shown, m)[c]
                              /\ Newcomer(Shown, m)
<1> DEFINE Told(m) == /\ \A c \in Channel : Shown'[c] \subseteq Heard(Shown, m)[c]
                      /\ Steady => /\ \A c \in Channel : Shown'[c] = Heard(Shown, m)[c]
                                   /\ Newcomer(Shown, m)
           Untold == \A c \in Channel : Shown'[c] = Shown[c]
           Aim == (UNCHANGED toBot /\ Untold) \/ \E x \in BotMsg : toBot' = Append(toBot, x) /\ Told(x)
<1>0. /\ srvnick' = srvnick /\ srvnick = FirstNick
      /\ on \in [Channel -> SUBSET Nick] /\ on' \in [Channel -> SUBSET Nick]
      /\ srvnick \in online
  BY ClientsEvent, ClientsType DEF STypeOK, WireOK, PlacesInv, NickKept, JoinsOnly
<1>1. \A c \in Channel :
         /\ Shown[c] = IF FirstNick \in on[c] THEN on[c] \ {FirstNick} ELSE {}
         /\ Shown'[c] = IF FirstNick \in on'[c] THEN on'[c] \ {FirstNick} ELSE {}
  BY <1>0 DEF Shown, BotOn
<1>2. ASSUME NEW m \in BotMsg, NEW heard, Tell(heard, m), heard => Told(m), ~heard => Untold
      PROVE  Aim
  BY <1>2 DEF Tell
<1> SUFFICES Aim
  OBVIOUS
<1> HIDE DEF Told, Untold, Aim
<1>3. ASSUME NEW n \in Nick, NEW d \in Channel, UserJoin(n, d)
      PROVE  Aim
  <2>1. PICK m \in BotMsg : m = [cmd |-> "JOIN", nick |-> n, chan |-> d]
    BY DEF BotMsg
  <2>2. /\ n \in online \ (on[d] \cup {FirstNick})
        /\ \A c \in Channel : on'[c] = IF c = d THEN on[c] \cup {n} ELSE on[c]
        /\ Tell(BotOn(d), m)
    BY <1>0, <1>3, <2>1 DEF UserJoin
  <2>3. ~BotOn(d) => Untold
    BY <1>0, <1>1, <2>2 DEF BotOn, Untold
  <2>4. BotOn(d) => Told(m)
    <3> SUFFICES ASSUME BotOn(d) PROVE Told(m)
      OBVIOUS
    <3>1. \A c \in Channel : Heard(Shown, m)[c] = Shown[c] \cup (IF c = d THEN {n} \ {FirstNick} ELSE {})
      BY <2>1, HeardOf
    <3>2. ASSUME NEW c \in Channel
          PROVE  Shown'[c] = Heard(Shown, m)[c]
      BY <1>0, <1>1, <2>2, <3>1 DEF BotOn
    <3>3. Newcomer(Shown, m)
      BY <1>1, <2>1, <2>2 DEF Newcomer
    <3> QED
      BY <3>2, <3>3 DEF Told
  <2> QED
    BY <1>2, <2>2, <2>3, <2>4
<1>4. ASSUME NEW n \in Nick, NEW d \in Channel, NEW m \in BotMsg,
             m.cmd \in {"PART", "KICK"}, m.nick = n, m.chan = d,
             on' = [on EXCEPT ![d] = @ \ {n}], n = srvnick => ~Steady, Tell(BotOn(d), m)
      PROVE  Aim
  <2>1. \A c \in Channel : on'[c] = IF c = d THEN on[c] \ {n} ELSE on[c]
    BY <1>0, <1>4
  <2>2. ~BotOn(d) => Untold
    BY <1>0, <1>1, <2>1 DEF BotOn, Untold
  <2>3. BotOn(d) => Told(m)
    <3> SUFFICES ASSUME BotOn(d) PROVE Told(m)
      OBVIOUS
    <3>1. \A c \in Channel : Heard(Shown, m)[c] = Shown[c] \ (IF c = d THEN {n} ELSE {})
      BY <1>4, HeardOf
    <3>2. ASSUME NEW c \in Channel
          PROVE  /\ Shown'[c] \subseteq Heard(Shown, m)[c]
                 /\ Steady => Shown'[c] = Heard(Shown, m)[c]
      <4>1. CASE c = d
        <5>1. /\ Shown[c] = on[c] \ {FirstNick}
              /\ on'[c] = on[c] \ {n}
              /\ Heard(Shown, m)[c] = Shown[c] \ {n}
          BY <1>0, <1>1, <2>1, <3>1, <4>1 DEF BotOn
        <5>2. CASE n = FirstNick
          <6>1. Shown'[c] = {} /\ ~Steady
            BY <1>0, <1>1, <1>4, <5>1, <5>2
          <6> QED
            BY <6>1
        <5>3. CASE n # FirstNick
          <6>1. Shown'[c] = (on[c] \ {n}) \ {FirstNick}
            BY <1>0, <1>1, <4>1, <5>1, <5>3 DEF BotOn
          <6> QED
            BY <5>1, <6>1
        <5> QED
          BY <5>2, <5>3
      <4>2. CASE c # d
        BY <1>1, <2>1, <3>1, <4>2
      <4> QED
        BY <4>1, <4>2
    <3>3. Newcomer(Shown, m)
      BY <1>4 DEF Newcomer
    <3> QED
      BY <3>2, <3>3 DEF Told
  <2> QED
    BY <1>2, <1>4, <2>2, <2>3
<1>5. ASSUME NEW n \in Nick, NEW d \in Channel, UserPart(n, d)
      PROVE  Aim
  <2>1. PICK m \in BotMsg : m = [cmd |-> "PART", nick |-> n, chan |-> d]
    BY DEF BotMsg
  <2>2. n # srvnick /\ on' = [on EXCEPT ![d] = @ \ {n}] /\ Tell(BotOn(d), m)
    BY <1>5, <2>1 DEF UserPart
  <2>3. m.cmd = "PART" /\ m.nick = n /\ m.chan = d
    BY <2>1
  <2> QED
    BY <1>4, <2>2, <2>3
<1>6. ASSUME NEW n \in Nick, NEW d \in Channel, Kick(n, d)
      PROVE  Aim
  <2>1. PICK m \in BotMsg : m = [cmd |-> "KICK", nick |-> n, chan |-> d]
    BY DEF BotMsg
  <2>2. /\ n = srvnick => ~Steady
        /\ on' = [on EXCEPT ![d] = @ \ {n}] /\ Tell(BotOn(d), m)
    BY <1>6, <2>1 DEF Kick, Steady
  <2>3. m.cmd = "KICK" /\ m.nick = n /\ m.chan = d
    BY <2>1
  <2> QED
    BY <1>4, <2>2, <2>3
<1>7. ASSUME NEW n \in Nick, UserQuit(n)
      PROVE  Aim
  <2>1. PICK m \in BotMsg : m = [cmd |-> "QUIT", nick |-> n]
    BY DEF BotMsg
  <2>2. /\ n # FirstNick
        /\ \A c \in Channel : on'[c] = on[c] \ {n}
        /\ Tell(Seen(n), m)
    BY <1>0, <1>7, <2>1 DEF UserQuit
  <2>3. ASSUME NEW c \in Channel
        PROVE  Shown'[c] = Shown[c] \ {n}
    BY <1>1, <2>2
  <2>4. ~Seen(n) => Untold
    <3>1. ~Seen(n) => \A c \in Channel : n \notin Shown[c]
      BY <1>0, <1>1 DEF Seen, BotOn
    <3>2. (\A c \in Channel : n \notin Shown[c]) => \A c \in Channel : Shown'[c] = Shown[c]
      BY <2>3
    <3> QED
      BY <3>1, <3>2 DEF Untold
  <2>5. Told(m)
    <3>1. \A c \in Channel : Heard(Shown, m)[c] = Shown[c] \ {n}
      BY <2>1, HeardOf
    <3>2. Newcomer(Shown, m)
      BY <2>1 DEF Newcomer
    <3> QED
      BY <2>3, <3>1, <3>2 DEF Told
  <2> QED
    BY <1>2, <2>2, <2>4, <2>5
<1>8. ASSUME NEW n \in Nick, NEW new \in Nick, UserNick(n, new)
      PROVE  Aim
  <2>1. PICK m \in BotMsg : m = [cmd |-> "NICK", nick |-> n, new |-> new]
    BY DEF BotMsg
  <2>2. /\ n # FirstNick /\ new # FirstNick
        /\ on' = [c \in Channel |-> IF n \in on[c] THEN (on[c] \ {n}) \cup {new} ELSE on[c]]
        /\ Tell(Seen(n), m)
    BY <1>0, <1>8, <2>1 DEF UserNick
  <2>3. \A c \in Channel : on'[c] = IF n \in on[c] THEN (on[c] \ {n}) \cup {new} ELSE on[c]
    BY <2>2
  <2>4. \A c \in Channel : n \notin Shown[c] => Shown'[c] = Shown[c]
    BY <1>1, <2>2, <2>3
  <2>5. ~Seen(n) => Untold
    BY <1>0, <1>1, <2>4 DEF Seen, BotOn, Untold
  <2>6. Told(m)
    <3>1. \A c \in Channel : Heard(Shown, m)[c] = {IF x = n THEN new ELSE x : x \in Shown[c]}
      BY <2>1, HeardOf
    <3>2. ASSUME NEW c \in Channel
          PROVE  Shown'[c] = {IF x = n THEN new ELSE x : x \in Shown[c]}
      <4>1. CASE n \notin Shown[c]
        BY <2>4, <4>1
      <4>2. CASE n \in Shown[c]
        <5>1. /\ Shown[c] = on[c] \ {FirstNick} /\ n \in on[c]
              /\ Shown'[c] = ((on[c] \ {n}) \cup {new}) \ {FirstNick}
          BY <1>1, <2>2, <2>3, <4>2
        <5>2. Shown'[c] = (Shown[c] \ {n}) \cup {new}
          BY <2>2, <5>1
        <5> QED
          BY <4>2, <5>2
      <4> QED
        BY <4>1, <4>2
    <3>3. Newcomer(Shown, m)
      BY <2>1 DEF Newcomer
    <3> QED
      BY <3>1, <3>2, <3>3 DEF Told
  <2> QED
    BY <1>2, <2>2, <2>5, <2>6
<1>9. ASSUME NEW n \in Nick, NEW what \in Request, Ask(n, what)
      PROVE  Aim
  <2>1. PICK m \in BotMsg : m = [cmd |-> "PRIVMSG", nick |-> n, what |-> what]
    BY DEF BotMsg
  <2>2. Tell(TRUE, m) /\ UNCHANGED on
    BY <1>9, <2>1 DEF Ask, Tell
  <2>3. \A c \in Channel : Shown'[c] = Shown[c]
    BY <1>1, <2>2
  <2>4. m.cmd = "PRIVMSG"
    BY <2>1
  <2>5. \A c \in Channel : Heard(Shown, m)[c] = Shown[c]
    BY <2>4, HeardOf
  <2>6. Told(m)
    BY <2>3, <2>4, <2>5 DEF Told, Newcomer
  <2> QED
    BY <1>2, <2>2, <2>6
<1> QED
  BY <1>3, <1>5, <1>6, <1>7, <1>8, <1>9 DEF Clients

\* The server shows the bot who is on a channel when it lets it in.
LEMMA ServesShown ==
    ASSUME STypeOK, PlacesInv, JoinsOnly, ServeJoin \/ ServePart \/ ServeNick
    PROVE  \/ /\ UNCHANGED toBot
              /\ \A c \in Channel : Shown'[c] = Shown[c]
           \/ \E m, l \in BotMsg :
                 /\ toBot' = toBot \o <<m, l>>
                 /\ Newcomer(Shown, m) /\ Newcomer(Heard(Shown, m), l)
                 /\ \A c \in Channel : Shown'[c] = Heard(Heard(Shown, m), l)[c]
<1>0. /\ Head(toServer) \in Said /\ Head(toServer) \in Message
      /\ srvnick = FirstNick /\ FirstNick \in Nick
      /\ on \in [Channel -> SUBSET Nick]
      /\ "nick" \notin setting.asks /\ "part" \notin setting.asks
  <2>1. toServer # << >> /\ toServer' = Tail(toServer)
    BY DEF ServeJoin, ServePart, ServeNick, Serve
  <2> QED
    BY <2>1, SaidAfter, QueueHead, ConstantsAssumption
    DEF STypeOK, WireOK, PlacesInv, NickKept, JoinsOnly
<1>1. ServeJoin
  <2>1. ~ServeNick
    BY <1>0 DEF ServeNick, PlacesInv, NickKept
  <2>2. ~ServePart
    BY <1>0, MessageFields DEF ServePart, PlacesInv, MeantInv, PartSaid
  <2> QED
    BY <2>1, <2>2
<1>2. PICK d \in Channel : d = Head(toServer).chan
  BY <1>0, <1>1, MessageFields DEF ServeJoin
<1>3. /\ on' = [on EXCEPT ![d] = @ \cup {FirstNick}] /\ srvnick' = FirstNick
      /\ toBot' = IF BotOn(d) THEN toBot
                  ELSE toBot \o <<[cmd |-> "JOIN", nick |-> FirstNick, chan |-> d],
                                  [cmd |-> "353", chan |-> d, names |-> on'[d]]>>
  BY <1>0, <1>1, <1>2 DEF ServeJoin
<1>4. /\ \A c \in Channel : on'[c] = IF c = d THEN on[c] \cup {FirstNick} ELSE on[c]
      /\ on'[d] \subseteq Nick
  BY <1>0, <1>3
<1>5. \A c \in Channel :
         /\ Shown[c] = IF FirstNick \in on[c] THEN on[c] \ {FirstNick} ELSE {}
         /\ Shown'[c] = IF FirstNick \in on'[c] THEN on'[c] \ {FirstNick} ELSE {}
  BY <1>0, <1>3 DEF Shown, BotOn
<1>6. CASE BotOn(d)
  <2>1. \A c \in Channel : Shown'[c] = Shown[c]
    BY <1>0, <1>4, <1>5, <1>6 DEF BotOn
  <2> QED
    BY <1>3, <1>6, <2>1
<1>7. CASE ~BotOn(d)
  <2>1. PICK m \in BotMsg : m = [cmd |-> "JOIN", nick |-> FirstNick, chan |-> d]
    BY <1>0 DEF BotMsg
  <2>2. PICK l \in BotMsg : l = [cmd |-> "353", chan |-> d, names |-> on'[d]]
    BY <1>4 DEF BotMsg
  <2>3. toBot' = toBot \o <<m, l>>
    BY <1>3, <1>7, <2>1, <2>2
  <2>4. Shown[d] = {}
    BY <1>0, <1>5, <1>7 DEF BotOn
  <2>5. ASSUME NEW c \in Channel
        PROVE  Heard(Shown, m)[c] = Shown[c]
    <3>1. Heard(Shown, m)[c] = Shown[c] \cup (IF c = d THEN {FirstNick} \ {FirstNick} ELSE {})
      BY <2>1, HeardOf
    <3> QED
      BY <3>1
  <2>6. Newcomer(Shown, m) /\ Newcomer(Heard(Shown, m), l)
    BY <2>1, <2>2, <2>4, <2>5 DEF Newcomer
  <2>7. \A c \in Channel : Heard(Heard(Shown, m), l)[c]
            = Heard(Shown, m)[c] \cup (IF c = d THEN on'[d] \ {FirstNick} ELSE {})
    BY <2>2, HeardOf
  <2>8. ASSUME NEW c \in Channel
        PROVE  Shown'[c] = Heard(Heard(Shown, m), l)[c]
    <3>1. Heard(Heard(Shown, m), l)[c] = Shown[c] \cup (IF c = d THEN on'[d] \ {FirstNick} ELSE {})
      BY <2>5, <2>7
    <3>2. CASE c = d
      BY <1>4, <1>5, <2>4, <3>1, <3>2
    <3>3. CASE c # d
      BY <1>4, <1>5, <3>1, <3>3
    <3> QED
      BY <3>2, <3>3
  <2> QED
    BY <2>3, <2>6, <2>8
<1> QED
  BY <1>6, <1>7

\* The view ends with what the bot has to list.  It begins with who is listed
\* now, or with fewer: what the bot lists besides is no concern of NobodyMissing.
ViewInv ==
    JoinsOnly =>
        /\ frame.op # "delchan"
        /\ Steady => Once
        /\ \E v : /\ ViewOf(v)
                  /\ \A c \in Channel : /\ v[0][c] \subseteq Now[c]
                                        /\ Shown[c] \subseteq v[Len(toBot)][c]
                  /\ Steady => /\ Proper(v)
                               /\ \A c \in Channel : /\ v[0][c] = Now[c]
                                                     /\ Shown[c] = v[Len(toBot)][c]

\* What is not the bot's doing leaves a view.
LEMMA OthersView ==
    ASSUME STypeOK, PlacesInv, ViewInv,
           Clients \/ ServeJoin \/ ServePart \/ ServeNick \/ Reconnect
    PROVE  ViewInv'
<1>0. /\ UNCHANGED <<vars, setting, msg>>
      /\ (Once' <=> Once) /\ \A c \in Channel : Now'[c] = Now[c]
      /\ Steady' <=> Steady
  <2>1. UNCHANGED <<vars, setting, msg>>
    BY ClientsEvent DEF ServeJoin, ServePart, ServeNick, Serve, Reconnect
  <2>2. UNCHANGED <<members, nick, frame>>
    BY <2>1 DEF vars, users, links
  <2> QED
    BY <2>1, <2>2 DEF Once, LinkedOnce, Now, Listed, Steady
<1> SUFFICES ASSUME JoinsOnly
             PROVE  ViewInv'
  BY <1>0 DEF ViewInv, JoinsOnly
<1>1. frame'.op # "delchan" /\ (Steady => Once')
  BY <1>0 DEF ViewInv, vars
<1>2. PICK v : /\ ViewOf(v)
               /\ \A c \in Channel : /\ v[0][c] \subseteq Now[c]
                                     /\ Shown[c] \subseteq v[Len(toBot)][c]
               /\ Steady => /\ Proper(v)
                            /\ \A c \in Channel : /\ v[0][c] = Now[c]
                                                  /\ Shown[c] = v[Len(toBot)][c]
  BY DEF ViewInv
<1>3. ASSUME NEW w, ViewOf(w)', \A c \in Channel : w[0][c] = v[0][c],
             \A c \in Channel : Shown'[c] \subseteq w[Len(toBot')][c],
             Steady => Proper(w)' /\ \A c \in Channel : Shown'[c] = w[Len(toBot')][c]
      PROVE  ViewInv'
  BY <1>0, <1>1, <1>2, <1>3 DEF ViewInv
<1>b. toBot \in Seq(BotMsg) /\ Len(toBot) \in Nat
  BY LenProperties DEF STypeOK, WireOK
<1>4. CASE UNCHANGED toBot /\ \A c \in Channel : Shown'[c] = Shown[c]
  <2>1. ViewOf(v)' /\ (Proper(v) => Proper(v)')
    BY <1>2, <1>4 DEF ViewOf, Proper
  <2> QED
    BY <1>2, <1>3, <1>4, <2>1
<1>5. ASSUME NEW m \in BotMsg, toBot' = Append(toBot, m),
             \A c \in Channel : Shown'[c] \subseteq Heard(Shown, m)[c],
             Steady => /\ \A c \in Channel : Shown'[c] = Heard(Shown, m)[c]
                       /\ Newcomer(Shown, m)
      PROVE  ViewInv'
  <2>1. PICK w : /\ ViewOf(w)'
                 /\ w[0] = v[0]
                 /\ w[Len(toBot')] = Heard(v[Len(toBot)], m)
                 /\ Proper(v) /\ Newcomer(v[Len(toBot)], m) => Proper(w)'
    BY <1>2, <1>5, <1>b, ViewAppend
  <2>2. \A c \in Channel : Heard(Shown, m)[c] \subseteq Heard(v[Len(toBot)], m)[c]
    BY <1>2, HeardView
  <2>3. Steady => /\ \A c \in Channel : Heard(Shown, m)[c] = Heard(v[Len(toBot)], m)[c]
                  /\ Newcomer(Shown, m) => Newcomer(v[Len(toBot)], m)
    BY <1>2, HeardView
  <2>4. \A c \in Channel : Shown'[c] \subseteq w[Len(toBot')][c]
    BY <1>5, <2>1, <2>2
  <2>5. Steady => Proper(w)' /\ \A c \in Channel : Shown'[c] = w[Len(toBot')][c]
    BY <1>2, <1>5, <2>1, <2>3
  <2> QED
    BY <1>3, <2>1, <2>4, <2>5
<1>6. CASE Clients
  BY <1>4, <1>5, <1>6, ClientsShown
<1>7. CASE ServeJoin \/ ServePart \/ ServeNick
  <2> SUFFICES ASSUME NEW m \in BotMsg, NEW l \in BotMsg,
                      toBot' = toBot \o <<m, l>>,
                      Newcomer(Shown, m), Newcomer(Heard(Shown, m), l),
                      \A c \in Channel : Shown'[c] = Heard(Heard(Shown, m), l)[c]
               PROVE  ViewInv'
    BY <1>4, <1>7, ServesShown
  <2> DEFINE x == v[Len(toBot)]
  <2>1. PICK w : /\ ViewOf(w)'
                 /\ w[0] = v[0]
                 /\ w[Len(toBot')] = Heard(Heard(x, m), l)
                 /\ Proper(v) /\ Newcomer(x, m) /\ Newcomer(Heard(x, m), l) => Proper(w)'
    BY <1>2, <1>b, ViewAppendTwo
  <2>2. \A c \in Channel : Heard(Heard(Shown, m), l)[c] \subseteq Heard(Heard(x, m), l)[c]
    <3>1. \A c \in Channel : Heard(Shown, m)[c] \subseteq Heard(x, m)[c]
      BY <1>2, HeardView
    <3> QED
      BY <3>1, HeardView
  <2>3. Steady => /\ \A c \in Channel : Heard(Heard(Shown, m), l)[c] = Heard(Heard(x, m), l)[c]
                  /\ Newcomer(x, m) /\ Newcomer(Heard(x, m), l)
    <3>1. Steady => /\ \A c \in Channel : Heard(Shown, m)[c] = Heard(x, m)[c]
                    /\ Newcomer(x, m)
      BY <1>2, HeardView
    <3> QED
      BY <3>1, HeardView
  <2> HIDE DEF x
  <2>4. \A c \in Channel : Shown'[c] \subseteq w[Len(toBot')][c]
    BY <2>1, <2>2
  <2>5. Steady => Proper(w)' /\ \A c \in Channel : Shown'[c] = w[Len(toBot')][c]
    BY <1>2, <2>1, <2>3
  <2> QED
    BY <1>3, <2>1, <2>4, <2>5
<1>8. CASE Reconnect
  <2> DEFINE w == [k \in 0 .. 0 |-> [c \in Channel |-> {}]]
  <2>1. Len(toBot') = 0 /\ DOMAIN toBot' = {}
    BY <1>8 DEF Reconnect
  <2>2. ViewOf(w)'
    BY <2>1 DEF ViewOf, View
  <2>3. \A c \in Channel : w[0][c] = {}
    OBVIOUS
  <2>4. \A c \in Channel : Shown'[c] = {} /\ ~Steady
    <3>1. \A c \in Channel : ~BotOn(c)'
      BY <1>8 DEF Reconnect, BotOn, STypeOK, WireOK, PlacesInv, OnlineInv
    <3> QED
      BY <1>8, <3>1 DEF Shown, Reconnect, Steady
  <2> HIDE DEF w
  <2>5. ~Steady'
    BY <1>0, <1>8 DEF Reconnect, Steady
  <2> QED
    BY <1>0, <1>1, <2>1, <2>2, <2>3, <2>4, <2>5 DEF ViewInv
<1> QED
  BY <1>6, <1>7, <1>8

\* What the bot does leaves a view.
LEMMA BotView ==
    ASSUME STypeOK, PlacesInv, FreshInv, CalmInv, ViewInv, Bot
    PROVE  ViewInv'
<1>0. /\ UNCHANGED setting
      /\ Steady' <=> Steady
      /\ Shown' = Shown
  BY DEF Bot, server, Steady, Shown, BotOn
<1> SUFFICES ASSUME JoinsOnly
             PROVE  ViewInv'
  BY <1>0 DEF ViewInv, JoinsOnly
<1>1. IInv /\ frame.op # "delchan" /\ (Steady => Once)
  BY DEF CalmInv, ViewInv, JoinsOnly
<1>2. PICK v : /\ ViewOf(v)
               /\ \A c \in Channel : /\ v[0][c] \subseteq Now[c]
                                     /\ Shown[c] \subseteq v[Len(toBot)][c]
               /\ Steady => /\ Proper(v)
                            /\ \A c \in Channel : /\ v[0][c] = Now[c]
                                                  /\ Shown[c] = v[Len(toBot)][c]
  BY DEF ViewInv
<1>3. CASE Receive
  <2>1. frame'.op # "delchan"
    BY <1>1, <1>3, BotHears
  <2>2. PICK m \in BotMsg :
           /\ Takes(m)
           /\ \A c \in Channel : Heard(Now, m)[c] \subseteq Now'[c]
           /\ Once /\ Newcomer(Now, m) =>
                 Once' /\ \A c \in Channel : Now'[c] = Heard(Now, m)[c]
    BY <1>1, <1>3, BotHears
  <2>3. PICK w : /\ ViewOf(w)'
                 /\ w[0] = Heard(v[0], m)
                 /\ w[Len(toBot')] = v[Len(toBot)]
                 /\ Proper(v) => Proper(w)' /\ Newcomer(v[0], m)
    BY <1>2, <2>2, ViewTake DEF STypeOK, WireOK
  <2>4. ASSUME NEW c \in Channel
        PROVE  w[0][c] \subseteq Now'[c]
    <3>1. Heard(v[0], m)[c] \subseteq Heard(Now, m)[c]
      BY <1>2, HeardView
    <3> QED
      BY <2>2, <2>3, <3>1
  <2>5. ASSUME Steady
        PROVE  Once' /\ Proper(w)' /\ \A c \in Channel : w[0][c] = Now'[c]
    <3>1. /\ \A c \in Channel : Heard(v[0], m)[c] = Heard(Now, m)[c]
          /\ Newcomer(v[0], m) => Newcomer(Now, m)
      BY <1>2, <2>5, HeardView
    <3> QED
      BY <1>1, <1>2, <2>2, <2>3, <2>5, <3>1
  <2> QED
    BY <1>0, <1>2, <2>1, <2>3, <2>4, <2>5 DEF ViewInv
<1>4. CASE Handle \/ (\E n \in Nick : HandleName(n)) \/ Housekeeping
  <2>1. /\ frame'.op # "delchan"
        /\ UNCHANGED toBot
        /\ \A c \in Channel : Now[c] \subseteq Now'[c]
        /\ Once => Once' /\ \A c \in Channel : Now'[c] = Now[c]
    BY <1>1, <1>4, BotGoesOn
  <2>2. ViewOf(v)' /\ (Proper(v) => Proper(v)')
    BY <1>2, <2>1 DEF ViewOf, Proper
  <2>3. \A c \in Channel : v[0][c] \subseteq Now'[c]
    BY <1>2, <2>1
  <2>4. Steady => Once' /\ \A c \in Channel : v[0][c] = Now'[c]
    BY <1>1, <1>2, <2>1
  <2> QED
    BY <1>0, <1>2, <2>1, <2>2, <2>3, <2>4 DEF ViewInv
<1> QED
  BY <1>3, <1>4 DEF Bot

\* The view is there at the start and at every step.
LEMMA ViewInvariance ==
    ASSUME UnseenReuse = FALSE
    PROVE  SessionSpec => [](STypeOK /\ PlacesInv /\ CalmInv /\ ViewInv)
<1>1. SessionInit => ViewInv
  <2> SUFFICES ASSUME SessionInit PROVE ViewInv
    OBVIOUS
  <2> DEFINE w == [k \in 0 .. 0 |-> [c \in Channel |-> {}]]
  <2>1. Len(toBot) = 0 /\ DOMAIN toBot = {} /\ frame.op = "idle"
    BY DEF SessionInit, Init, Idle
  <2>2. ViewOf(w)
    BY <2>1 DEF ViewOf, View
  <2>3. \A c \in Channel : w[0][c] = {}
    OBVIOUS
  <2>4. \A c \in Channel : Shown[c] = {}
    <3>1. /\ on \in [Channel -> SUBSET setting.people] /\ srvnick = FirstNick
          /\ FirstNick \notin setting.people
      BY SessionAssumption DEF SessionInit, Setting
    <3> QED
      BY <3>1 DEF Shown, BotOn
  <2>5. \A c \in Channel : DOMAIN members[c] = {}
    BY DEF SessionInit, Init
  <2>6. Once /\ \A c \in Channel : Now[c] = {}
    BY <2>1, <2>5, NowListed DEF Once, LinkedOnce, Distinct, Listed, ToSet
  <2>7. Proper(w)
    BY <2>1 DEF Proper
  <2> HIDE DEF w
  <2> QED
    BY <2>1, <2>2, <2>3, <2>4, <2>6, <2>7 DEF ViewInv
<1>2. STypeOK /\ PlacesInv /\ FreshInv /\ CalmInv /\ ViewInv /\ [SessionNext]_svars => ViewInv'
  <2> SUFFICES ASSUME ViewInv, UNCHANGED svars
               PROVE  ViewInv'
    BY OthersView, BotView DEF SessionNext
  <2>1. UNCHANGED <<nick, members, frame, setting, srvnick, on, toBot, msg>>
    BY DEF svars, vars, users, links, server
  <2>2. (JoinsOnly' <=> JoinsOnly) /\ (Steady' <=> Steady)
    BY <2>1 DEF JoinsOnly, Steady
  <2>3. Once' <=> Once
    BY <2>1 DEF Once, LinkedOnce, Listed
  <2>4. \A c \in Channel : Now'[c] = Now[c] /\ Shown'[c] = Shown[c]
    BY <2>1 DEF Now, Listed, Shown, BotOn
  <2> SUFFICES ASSUME JoinsOnly
               PROVE  ViewInv'
    BY <2>2 DEF ViewInv
  <2>5. PICK v : /\ ViewOf(v)
                 /\ \A c \in Channel : /\ v[0][c] \subseteq Now[c]
                                       /\ Shown[c] \subseteq v[Len(toBot)][c]
                 /\ Steady => /\ Proper(v)
                              /\ \A c \in Channel : /\ v[0][c] = Now[c]
                                                    /\ Shown[c] = v[Len(toBot)][c]
    BY DEF ViewInv
  <2>6. ViewOf(v)' /\ (Proper(v) => Proper(v)')
    BY <2>1, <2>5 DEF ViewOf, Proper
  <2> QED
    BY <2>1, <2>2, <2>3, <2>4, <2>5, <2>6 DEF ViewInv
<1> QED
  BY <1>1, <1>2, CalmInvariance, PTL DEF SessionSpec

\* Once the bot has heard everything, nobody who shares a channel with it is
\* missing from its list, however often it has been kicked or the connection has
\* been made again.
THEOREM NobodyIsMissing ==
    ASSUME UnseenReuse = FALSE
    PROVE  SessionSpec => []NobodyMissing
<1>1. STypeOK /\ PlacesInv /\ ViewInv => NobodyMissing
  <2> SUFFICES ASSUME PlacesInv, ViewInv, Quiet, JoinsOnly, NEW c \in Channel, BotOn(c)
               PROVE  on[c] \ {srvnick} \subseteq Listed(c)
    BY DEF NobodyMissing
  <2>1. Len(toBot) = 0 /\ Now[c] = Listed(c)
    BY NowListed DEF Quiet, Idle
  <2>2. srvnick = FirstNick
    BY DEF PlacesInv, NickKept, JoinsOnly
  <2>3. Shown[c] = on[c] \ {srvnick}
    BY <2>2 DEF Shown
  <2> QED
    BY <2>1, <2>3 DEF ViewInv
<1> QED
  BY <1>1, ViewInvariance, PTL

\* A list without repetitions is as long as the set of the nicks on it.
LEMMA ListedCount ==
    ASSUME ListsInv, NEW c \in Channel, Distinct(members[c])
    PROVE  Len(members[c]) = Cardinality(Listed(c))
<1> DEFINE s == members[c]
           N == 1 .. Len(s)
           f == [i \in N |-> nick[s[i]]]
<1>1. s \in Seq(UserId) /\ Len(s) \in Nat /\ DOMAIN s = N
  BY LenProperties DEF ListsInv, ListsOK
<1>2. Listed(c) = {nick[s[i]] : i \in N}
  BY <1>1 DEF Listed, ToSet
<1>3. \A i, j \in N : f[i] = f[j] => i = j
  <2>1. \A i \in N : s[i] \in ToSet(s)
    BY <1>1 DEF ToSet
  <2>2. \A i, j \in N : nick[s[i]] = nick[s[j]] => s[i] = s[j]
    BY <2>1, ListedAreLive
  <2> QED
    BY <1>1, <2>2 DEF Distinct
<1>4. f \in Bijection(N, Listed(c))
  BY <1>2, <1>3, Fun_IsBij
<1>5. IsFiniteSet(N) /\ Cardinality(N) = Len(s)
  BY <1>1, FS_Interval
<1> HIDE DEF N, f
<1> QED
  BY <1>4, <1>5, FS_Bijection DEF ExistsBijection

\* Once the bot has heard everything, its list of a channel it is on shows
\* exactly the others there, each once, unless it has been kicked, has been away
\* or was told to part or to change its nick.
THEOREM ListsAreAccurate ==
    ASSUME UnseenReuse = FALSE
    PROVE  SessionSpec => []ListsAccurate
<1>1. STypeOK /\ PlacesInv /\ CalmInv /\ ViewInv => ListsAccurate
  <2> SUFFICES ASSUME PlacesInv, CalmInv, ViewInv, Quiet, JoinsOnly, Steady,
                      NEW c \in Channel, BotOn(c)
               PROVE  /\ Listed(c) = on[c] \ {srvnick}
                      /\ Len(members[c]) = Cardinality(on[c] \ {srvnick})
    BY DEF ListsAccurate, Steady
  <2>1. Len(toBot) = 0 /\ Now[c] = Listed(c)
    BY NowListed DEF Quiet, Idle
  <2>2. srvnick = FirstNick /\ IInv
    BY DEF PlacesInv, NickKept, JoinsOnly, CalmInv
  <2>3. Shown[c] = on[c] \ {srvnick}
    BY <2>2 DEF Shown
  <2>4. Listed(c) = on[c] \ {srvnick} /\ Once
    BY <2>1, <2>3 DEF ViewInv
  <2>5. ListsInv
    BY <2>2 DEF IInv, TypeOK, ListsInv, ListsOK
  <2>6. Len(members[c]) = Cardinality(Listed(c))
    BY <2>4, <2>5, ListedCount DEF Once, LinkedOnce
  <2> QED
    BY <2>4, <2>6
<1> QED
  BY <1>1, ViewInvariance, PTL
=============================================================================
