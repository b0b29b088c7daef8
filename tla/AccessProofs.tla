---------------------------- MODULE AccessProofs ----------------------------
(***************************************************************************)
(* Proofs about Access, for any users, channels and user files: a level    *)
(* that is taken up is what an entry of the list in force gives; while the *)
(* list and the nicks stay what they are, so is every level that is kept,  *)
(* and whoever is given a channel mode for his own sake has earned it.     *)
(* Where users are listed twice, all this is said of the nodes that        *)
(* SetChanAccess has set.                                                  *)
(***************************************************************************)
EXTENDS Access, Lemmas

-----------------------------------------------------------------------------
(* Looking a level up *)

\* A user file, and the empty list before one is read, is a sequence of entries.
LEMMA FilesAreSequences ==
    ASSUME userdata \in Files \cup {<< >>}
    PROVE  /\ DOMAIN userdata \subseteq Nat
           /\ \A i \in DOMAIN userdata : userdata[i] \in Entry
<1>1. userdata \in Seq(Entry)
  BY AccessAssumption, EmptySeq
<1> QED
  BY <1>1

\* SetAccess takes the first of the entries that match; there is a first.
LEMMA LeastOf ==
    ASSUME NEW T, T \subseteq Nat, T # {}
    PROVE  Min(T) \in T
BY LeastNumber DEF Min

\* A level that is not the default is that of an entry which names the user
\* where he is, is for that channel, and has no password or the one given.
LEMMA LevelShape ==
    ASSUME userdata \in Files \cup {<< >>}, NEW u, NEW c, NEW pw
    PROVE  \/ Level(u, c, pw) = Unlisted
           \/ \E i \in DOMAIN userdata :
                 /\ nick[u] \in userdata[i].nicks /\ Host[u] \in userdata[i].hosts
                 /\ Covers(userdata[i], c)
                 /\ userdata[i].pass = NoPassword \/ ~ReqPass \/ pw = userdata[i].pass
                 /\ Level(u, c, pw) = userdata[i].status
<1> DEFINE hits == {i \in DOMAIN userdata : /\ nick[u] \in userdata[i].nicks
                                            /\ Host[u] \in userdata[i].hosts}
<1>1. hits \subseteq Nat
  BY FilesAreSequences
<1>2. hits # {} => Min(hits) \in hits
  BY <1>1, LeastOf
<1>3. CASE hits # {} /\ Level(u, c, pw) # Unlisted
  <2>1. /\ Covers(userdata[Min(hits)], c)
        /\ userdata[Min(hits)].pass = NoPassword \/ ~ReqPass
              \/ pw = userdata[Min(hits)].pass
        /\ Level(u, c, pw) = userdata[Min(hits)].status
    BY <1>3 DEF Level
  <2> HIDE DEF hits
  <2>2. Min(hits) \in hits
    BY <1>2, <1>3
  <2> QED
    BY <2>1, <2>2 DEF hits
<1>4. CASE hits = {}
  BY <1>4 DEF Level
<1> QED
  BY <1>3, <1>4

\* What SetAccess gives is a level of the file or the default.
LEMMA LevelType ==
    ASSUME userdata \in Files \cup {<< >>}, NEW u, NEW c, NEW pw
    PROVE  Level(u, c, pw) \in Levels
<1>1. CASE Level(u, c, pw) = Unlisted
  BY <1>1, AccessAssumption DEF Levels, Unlisted
<1>2. CASE Level(u, c, pw) # Unlisted
  <2>1. PICK i \in DOMAIN userdata : Level(u, c, pw) = userdata[i].status
    BY <1>2, LevelShape
  <2>2. userdata \in Files
    BY <2>1
  <2>3. userdata[i].status \in Int
    BY FilesAreSequences DEF Entry
  <2> QED
    BY <2>1, <2>2, <2>3, AccessAssumption DEF Levels
<1> QED
  BY <1>1, <1>2

\* The default is a level, and what a node holds that nobody has set is none.
LEMMA LevelsAreLevels == Unlisted \in Levels /\ Levels \subseteq Int /\ Wild \notin Levels
<1>1. \A f \in Files : \A i \in DOMAIN f : f[i].status \in Int
  <2> SUFFICES ASSUME NEW f \in Files, NEW i \in DOMAIN f
               PROVE  f[i].status \in Int
    OBVIOUS
  <2>1. f \in Seq(Entry)
    BY AccessAssumption
  <2>2. f[i] \in Entry
    BY <2>1
  <2> QED
    BY <2>2 DEF Entry
<1> QED
  BY <1>1, AccessAssumption DEF Levels, Unlisted

-----------------------------------------------------------------------------
(* Nodes *)

\* The levels in the nodes of a user on a channel.
Row == Seq(Levels \cup {Wild})

\* Setting the first node leaves the others.
LEMMA FirstSet ==
    ASSUME NEW s \in Row, s # << >>, NEW l \in Levels
    PROVE  /\ SetFirst(s, l) \in Row
           /\ SetFirst(s, l) # << >>
           /\ Head(SetFirst(s, l)) = l
           /\ Len(SetFirst(s, l)) = Len(s)
<1>1. Len(s) \in Nat \ {0} /\ 1 \in DOMAIN s
  BY DEF Row
<1>2. SetFirst(s, l) \in Row
  BY <1>1 DEF Row, SetFirst
<1>3. DOMAIN SetFirst(s, l) = DOMAIN s /\ SetFirst(s, l)[1] = l
  BY <1>1 DEF SetFirst
<1>4. Len(SetFirst(s, l)) = Len(s)
  BY <1>1, <1>2, <1>3 DEF Row
<1> QED
  BY <1>1, <1>2, <1>3, <1>4 DEF Row

\* Linking a node makes one more, and it is the first that has its level set.
LEMMA NodeLinked ==
    ASSUME NEW s \in Row, NEW l \in Levels
    PROVE  /\ Linked(s, l) \in Row
           /\ Linked(s, l) # << >>
           /\ Head(Linked(s, l)) = l
           /\ Len(Linked(s, l)) = Len(s) + 1
<1>1. /\ Append(s, Wild) \in Row
      /\ Append(s, Wild) # << >>
      /\ Len(Append(s, Wild)) = Len(s) + 1
  <2> DEFINE S == Levels \cup {Wild}
  <2>1. s \in Seq(S) /\ Wild \in S /\ Row = Seq(S)
    BY DEF Row
  <2> HIDE DEF S
  <2> QED
    BY <2>1
<1> QED
  BY <1>1, FirstSet DEF Linked

-----------------------------------------------------------------------------
(* Type correctness and what a step does to the levels *)

\* SetChanAccess finds the level l for u on c, perhaps with a password u gives.
Found(u, c, l) ==
    \/ l = Unlisted
    \/ /\ UNCHANGED <<userdata, nick>>
       /\ \E pw \in Given : /\ l = Level(u, c, pw)
                            /\ pw = NoPassword \/ pw \in told'[u]

\* What a step may make of u's nodes on c.
NodesStep(u, c) ==
    \/ level'[u][c] \in {level[u][c], << >>}
    \/ c \in On(u) /\ level'[u][c] = Tail(level[u][c])
    \/ \E l \in Levels :
          /\ Found(u, c, l)
          /\ \/ c \in On(u) /\ level'[u][c] = SetFirst(level[u][c], l)
             \/ MayList(u, c) /\ level'[u][c] = Linked(level[u][c], l)

LevelStep == \A u \in User, c \in Channel : NodesStep(u, c)

\* Nobody is listed twice unless that may happen.
ListedOnce == "again" \in Allowed \/ \A u \in User, c \in Channel : Len(level[u][c]) <= 1

\* Nobody is known at first, and no file is read.
LEMMA InitTypeOK == Init => TypeOK
BY AccessAssumption DEF Init, TypeOK, On

\* Users the bot has no record of are on no channel, and have not been warm.
Unknown == \A u \in User \ known : On(u) = {} /\ u \notin warm

\* The rest of what is to be shown of a step.
StepOK ==
    /\ TypeOK'
    /\ LevelStep
    /\ \A u \in User : told[u] \subseteq told'[u]

\* A handler that hears of u and touches the levels of nobody else.
LEMMA HeardOf ==
    ASSUME TypeOK, NEW u \in User, known' = known \cup {u},
           warm' \in Uninitialised(u) \/ warm' = warm \cup {u},
           level' \in [User -> [Channel -> Row]],
           \A v \in User \ {u} : level'[v] = level[v]
    PROVE  known' \subseteq User /\ Unknown'
<1>1. \A v \in User \ known' : v \in User \ known /\ v # u /\ level'[v] = level[v]
  OBVIOUS
<1>2. \A v \in User \ known' : On(v)' = On(v) /\ On(v) = {} /\ v \notin warm
  BY <1>1 DEF On, TypeOK
<1>3. \A v \in User \ known' : v \notin warm'
  BY <1>1, <1>2 DEF Uninitialised
<1> QED
  BY <1>2, <1>3 DEF Unknown, TypeOK

\* A record CreateUser makes begins with a level or with what malloc left.
LEMMA IntroducedType ==
    ASSUME TypeOK, NEW u \in User
    PROVE  Introduced(u) \in Levels \cup {Fresh}
<1>1. Level(u, All, NoPassword) \in Levels
  BY LevelType DEF TypeOK
<1> QED
  BY <1>1 DEF Introduced, TypeOK

\* The nodes of one user on one channel change.
LEMMA OneRow ==
    ASSUME level \in [User -> [Channel -> Row]], NEW u \in User, NEW c \in Channel,
           NEW x \in Row, level' = [level EXCEPT ![u][c] = x]
    PROVE  /\ level' \in [User -> [Channel -> Row]]
           /\ \A v \in User \ {u} : level'[v] = level[v]
           /\ \A v \in User, d \in Channel :
                 level'[v][d] = IF v = u /\ d = c THEN x ELSE level[v][d]
OBVIOUS

\* A step may leave all nodes as they are.
LEMMA KeptLevels ==
    ASSUME UNCHANGED level
    PROVE  LevelStep
BY DEF LevelStep, NodesStep

\* UpdateAccess with a password u gives now or has given.
LEMMA UpdateAccessShape ==
    ASSUME TypeOK, NEW u \in User, NEW pw \in Given, UpdateAccess(u, pw),
           UNCHANGED <<userdata, nick>>, pw = NoPassword \/ pw \in told'[u]
    PROVE  /\ access' \in [User -> Levels \cup {Fresh}]
           /\ level' \in [User -> [Channel -> Row]]
           /\ \A v \in User \ {u} : level'[v] = level[v]
           /\ LevelStep
<1>1. \A c : Level(u, c, pw) \in Levels
  BY LevelType DEF TypeOK
<1> DEFINE row == [c \in Channel |-> IF c \in On(u)
                                     THEN SetFirst(level[u][c], Level(u, c, pw)) ELSE << >>]
<1>2. row \in [Channel -> Row]
  <2>1. level[u] \in [Channel -> Row] /\ << >> \in Row
    BY DEF TypeOK, Row
  <2>2. \A c \in On(u) : SetFirst(level[u][c], Level(u, c, pw)) \in Row
    BY <1>1, <2>1, FirstSet DEF On
  <2> QED
    BY <2>1, <2>2
<1>3. level' = [level EXCEPT ![u] = row]
  BY DEF UpdateAccess
<1>4. level'[u] = row /\ \A v \in User \ {u} : level'[v] = level[v]
  BY <1>3 DEF TypeOK
<1>5. ASSUME NEW c \in Channel
      PROVE  NodesStep(u, c)
  <2>1. Found(u, c, Level(u, c, pw))
    BY DEF Found
  <2> QED
    BY <1>1, <1>4, <2>1 DEF NodesStep
<1> HIDE DEF row
<1>6. \A v \in User, c \in Channel : NodesStep(v, c)
  BY <1>4, <1>5 DEF NodesStep
<1> QED
  BY <1>1, <1>2, <1>3, <1>4, <1>6 DEF UpdateAccess, LevelStep, TypeOK, Row

\* A node is linked, with the level found for it set in the first.
LEMMA LinkOK ==
    ASSUME TypeOK, NEW u \in User, NEW c \in Channel, NEW l \in Levels,
           MayList(u, c), Found(u, c, l),
           level' = [level EXCEPT ![u][c] = Linked(@, l)]
    PROVE  /\ level' \in [User -> [Channel -> Row]]
           /\ \A v \in User \ {u} : level'[v] = level[v]
           /\ level'[u][c] = Linked(level[u][c], l)
           /\ LevelStep
<1>1. level \in [User -> [Channel -> Row]]
  BY DEF TypeOK, Row
<1> DEFINE x == Linked(level[u][c], l)
<1>2. x \in Row /\ level' = [level EXCEPT ![u][c] = x]
  BY <1>1, NodeLinked
<1> HIDE DEF x
<1>3. /\ level' \in [User -> [Channel -> Row]]
      /\ \A v \in User \ {u} : level'[v] = level[v]
      /\ \A v \in User, d \in Channel :
            level'[v][d] = IF v = u /\ d = c THEN x ELSE level[v][d]
  BY <1>1, <1>2, OneRow
<1>4. \A v \in User, d \in Channel : NodesStep(v, d)
  BY <1>3 DEF NodesStep, x
<1> QED
  BY <1>3, <1>4 DEF LevelStep, x

\* JOIN: the membership takes the level its own address gives.
LEMMA JoinOK ==
    ASSUME TypeOK, NEW u \in User, NEW c \in Channel, sm_join(u, c)
    PROVE  StepOK
<1>1. Level(u, c, NoPassword) \in Levels /\ Found(u, c, Level(u, c, NoPassword))
  BY LevelType DEF TypeOK, Found, Given, sm_join, settings, client
<1>2. /\ level' \in [User -> [Channel -> Row]]
      /\ \A v \in User \ {u} : level'[v] = level[v]
      /\ LevelStep
  BY <1>1, LinkOK DEF sm_join
<1>3. known' \subseteq User /\ Unknown' /\ learnt' \subseteq known'
  BY <1>2, HeardOf DEF sm_join, UpdateUser, TypeOK
<1>4. access' \in [User -> Levels \cup {Fresh}]
  BY IntroducedType DEF sm_join, TypeOK
<1>5. TypeOK'
  BY <1>2, <1>3, <1>4 DEF TypeOK, Unknown, Row, sm_join, settings, client
<1> QED
  BY <1>2, <1>5 DEF StepOK, sm_join

\* 353: the members listed take a level up if their address is known.
LEMMA ListingOK ==
    ASSUME TypeOK, NEW u \in User, NEW c \in Channel, get_users_from_chan(u, c)
    PROVE  StepOK
<1> DEFINE x == IF u \in learnt THEN Level(u, c, NoPassword) ELSE Unlisted
<1>1. x \in Levels /\ Found(u, c, x)
  BY LevelType, LevelsAreLevels DEF TypeOK, Found, Given, get_users_from_chan, settings, client
<1>2. /\ level' \in [User -> [Channel -> Row]]
      /\ \A v \in User \ {u} : level'[v] = level[v]
      /\ LevelStep
  <2>1. MayList(u, c) /\ level' = [level EXCEPT ![u][c] = Linked(@, x)]
    BY DEF get_users_from_chan
  <2> HIDE DEF x
  <2> QED
    BY <1>1, <2>1, LinkOK
<1>3. known' \subseteq User /\ Unknown' /\ learnt' \subseteq known'
  BY <1>2, HeardOf DEF get_users_from_chan, TypeOK
<1>4. access' \in [User -> Levels \cup {Fresh}]
  BY DEF get_users_from_chan, TypeOK
<1>5. asked' \in [Nick -> 0 .. MaxAsked]
  <2>1. \A k \in 0 .. MaxAsked : k < MaxAsked => k + 1 \in 0 .. MaxAsked
    BY AccessAssumption
  <2> QED
    BY <2>1 DEF get_users_from_chan, TypeOK
<1>6. TypeOK'
  BY <1>2, <1>3, <1>4, <1>5 DEF TypeOK, Unknown, Row, get_users_from_chan, settings, client
<1> QED
  BY <1>2, <1>6 DEF StepOK, get_users_from_chan

\* PART takes the first node away.
LEMMA PartOK ==
    ASSUME TypeOK, NEW u \in User, NEW c \in Channel, sm_part(u, c)
    PROVE  StepOK
<1> DEFINE x == Tail(level[u][c])
<1>1. level \in [User -> [Channel -> Row]] /\ x \in Row
  <2>1. level \in [User -> [Channel -> Row]] /\ level[u][c] \in Row /\ level[u][c] # << >>
    BY DEF TypeOK, Row, sm_part, On
  <2> QED
    BY <2>1 DEF Row
<1>2. level' = [level EXCEPT ![u][c] = x] /\ c \in On(u)
  BY DEF sm_part
<1> HIDE DEF x
<1>3. /\ level' \in [User -> [Channel -> Row]]
      /\ \A v \in User, d \in Channel :
            level'[v][d] = IF v = u /\ d = c THEN x ELSE level[v][d]
  BY <1>1, <1>2, OneRow
<1>4. \A v \in User : On(v)' \subseteq On(v)
  BY <1>2, <1>3 DEF On
<1>5. \A v \in User \ known' : On(v)' = {} /\ v \notin warm'
  BY <1>4 DEF sm_part, TypeOK
<1>6. TypeOK'
  BY <1>3, <1>5 DEF TypeOK, Row, sm_part, settings, client
<1>7. \A v \in User, d \in Channel : NodesStep(v, d)
  BY <1>2, <1>3 DEF NodesStep, x
<1> QED
  BY <1>6, <1>7 DEF StepOK, LevelStep, sm_part

\* QUIT, and the users ReapUserList forgets: all nodes go.
LEMMA DropOK ==
    ASSUME TypeOK, NEW u \in User, Drop(u), online' \subseteq User,
           UNCHANGED <<userdata, nick, asked, told>>
    PROVE  StepOK
<1>1. << >> \in Row /\ level \in [User -> [Channel -> Row]]
  BY DEF Row, TypeOK
<1>2. /\ level' \in [User -> [Channel -> Row]]
      /\ \A v \in User, d \in Channel :
            level'[v][d] = IF v = u THEN << >> ELSE level[v][d]
  BY <1>1 DEF Drop
<1>3. On(u)' = {} /\ \A v \in User : On(v)' \subseteq On(v)
  BY <1>2 DEF On
<1>4. \A v \in User \ known' : On(v)' = {} /\ v \notin warm'
  BY <1>3 DEF Drop, TypeOK
<1>5. TypeOK'
  BY <1>2, <1>4 DEF TypeOK, Row, Drop
<1>6. LevelStep
  BY <1>2 DEF LevelStep, NodesStep
<1> QED
  BY <1>5, <1>6 DEF StepOK

\* 302: the level of who bears the nick now is looked up without a password.
LEMMA UserhostOK ==
    ASSUME TypeOK, NEW n \in Nick, numeric_userhost(n)
    PROVE  StepOK
<1>1. asked' \in [Nick -> 0 .. MaxAsked]
  <2>1. \A k \in 0 .. MaxAsked : k > 0 => k - 1 \in 0 .. MaxAsked
    BY AccessAssumption
  <2> QED
    BY <2>1 DEF numeric_userhost, TypeOK
<1>2. UNCHANGED <<userdata, nick, online, told>>
  BY DEF numeric_userhost, settings, client
<1>3. ASSUME UNCHANGED <<record, warm>>
      PROVE  StepOK
  BY <1>1, <1>2, <1>3, KeptLevels DEF TypeOK, StepOK, record, On
<1>4. ASSUME NEW u \in User, UpdateUser(u), UpdateAccess(u, NoPassword),
             warm' \in Uninitialised(u)
      PROVE  StepOK
  <2>1. /\ access' \in [User -> Levels \cup {Fresh}]
        /\ level' \in [User -> [Channel -> Row]]
        /\ \A v \in User \ {u} : level'[v] = level[v]
        /\ LevelStep
    BY <1>2, <1>4, UpdateAccessShape DEF Given
  <2>2. known' \subseteq User /\ Unknown' /\ learnt' \subseteq known'
    BY <1>4, <2>1, HeardOf DEF UpdateUser, TypeOK
  <2> QED
    BY <1>1, <1>2, <2>1, <2>2 DEF TypeOK, StepOK, Unknown, Row
<1> QED
  BY <1>3, <1>4 DEF numeric_userhost, TypeOK

\* A command that leaves the levels alone.
LEMMA KeepOK ==
    ASSUME TypeOK, NEW u \in User, UpdateUser(u), KeepLevels(u),
           warm' \in Uninitialised(u) \/ warm' = warm \cup {u},
           userdata' \in Files \cup {<< >>}, UNCHANGED <<nick, online, asked, told>>
    PROVE  StepOK
<1>1. known' \subseteq User /\ Unknown' /\ learnt' \subseteq known'
  BY HeardOf DEF UpdateUser, TypeOK, KeepLevels, Row
<1>2. access' \in [User -> Levels \cup {Fresh}]
  BY IntroducedType DEF KeepLevels, TypeOK
<1>3. TypeOK'
  BY <1>1, <1>2 DEF TypeOK, Unknown, KeepLevels
<1> QED
  BY <1>3, KeptLevels DEF StepOK, KeepLevels

\* A command that looks the levels up, with a password or without.
LEMMA LookOK ==
    ASSUME TypeOK, NEW u \in User, NEW pw \in Given, UpdateUser(u), UpdateAccess(u, pw),
           warm' = warm \cup {u},
           told' = [told EXCEPT ![u] = @ \cup ({pw} \ {NoPassword})],
           UNCHANGED <<userdata, nick, online, asked>>
    PROVE  StepOK
<1>1. /\ told' \in [User -> SUBSET Password]
      /\ \A v \in User : told[v] \subseteq told'[v]
      /\ pw = NoPassword \/ pw \in told'[u]
  BY AccessAssumption DEF TypeOK, Given
<1>2. /\ access' \in [User -> Levels \cup {Fresh}]
      /\ level' \in [User -> [Channel -> Row]]
      /\ \A v \in User \ {u} : level'[v] = level[v]
      /\ LevelStep
  BY <1>1, UpdateAccessShape
<1>3. known' \subseteq User /\ Unknown' /\ learnt' \subseteq known'
  BY <1>2, HeardOf DEF UpdateUser, TypeOK
<1> QED
  BY <1>1, <1>2, <1>3 DEF StepOK, TypeOK, Unknown, Row

\* What a PRIVMSG does: the flood test, IDENTIFY, ACCESS, RELOAD and the rest.
LEMMA CommandOK ==
    ASSUME TypeOK, NEW u \in User, Command(u)
    PROVE  StepOK
<1>1. ASSUME handle_command(u)
      PROVE  /\ UpdateUser(u) /\ warm' = warm \cup {u}
             /\ UNCHANGED <<nick, online, asked>>
  BY <1>1 DEF handle_command, client
<1>2. ASSUME handle_command(u), KeepLevels(u), userdata' \in Files \cup {<< >>},
             UNCHANGED told
      PROVE  StepOK
  BY <1>1, <1>2, KeepOK
<1>3. userdata \in Files \cup {<< >>}
  BY DEF TypeOK
<1>4. NoPassword \in Given /\ told = [told EXCEPT ![u] = @ \cup ({NoPassword} \ {NoPassword})]
  BY DEF Given, TypeOK
<1>5. CASE \E need \in {0, 20} : access_too_low(u, need)
  BY <1>2, <1>3, <1>5 DEF access_too_low
<1>6. CASE \E pw \in Given : msg_identify(u, pw)
  BY <1>1, <1>6, LookOK DEF msg_identify, Run
<1>7. CASE msg_access(u)
  <2>1. /\ told' = [told EXCEPT ![u] = @ \cup ({NoPassword} \ {NoPassword})]
        /\ handle_command(u) /\ UpdateAccess(u, NoPassword) /\ UNCHANGED userdata
    BY <1>4, <1>7 DEF msg_access, Run
  <2> QED
    BY <1>1, <1>4, <2>1, LookOK
<1>8. CASE msg_reload(u)
  BY <1>2, <1>8 DEF msg_reload, Run, read_user_data
<1>9. ASSUME NEW c \in Channel, NEW pw \in Given, msg_op(u, c, pw)
      PROVE  StepOK
  <2>1. /\ told' = [told EXCEPT ![u] = @ \cup ({pw} \ {NoPassword})]
        /\ handle_command(u) /\ UNCHANGED userdata
        /\ IF pw = NoPassword THEN KeepLevels(u) ELSE UpdateAccess(u, pw)
    BY <1>9 DEF msg_op, Run
  <2>2. CASE pw = NoPassword
    BY <1>2, <1>3, <1>4, <2>1, <2>2
  <2>3. CASE pw # NoPassword
    BY <1>1, <2>1, <2>3, LookOK
  <2> QED
    BY <2>2, <2>3
<1>10. CASE \E c \in Channel, v \in User : msg_opuser(u, c, v)
  BY <1>2, <1>3, <1>10 DEF msg_opuser, Run
<1>11. CASE \E c \in Channel : msg_topic(u, c) \/ msg_say(u, c)
  BY <1>2, <1>3, <1>11 DEF msg_topic, msg_say, OnChannel, Run
<1>12. CASE \E to \in BOOLEAN : msg_autoop(u, to)
  BY <1>2, <1>3, <1>12 DEF msg_autoop, Run
<1>13. CASE \E c \in Channel, v \in User : msg_deop(u, c, v) \/ msg_kick(u, c, v)
  BY <1>2, <1>3, <1>13 DEF msg_deop, msg_kick, Against, Run
<1>14. CASE \E c \in Channel : kick_myself(u, c)
  BY <1>2, <1>3, <1>14 DEF kick_myself, Run
<1> QED
  BY <1>5, <1>6, <1>7, <1>8, <1>9, <1>10, <1>11, <1>12, <1>13, <1>14 DEF Command

\* Every step keeps the types and takes up only levels the list gives.
LEMMA NextOK == TypeOK /\ [Next]_vars => StepOK
<1> SUFFICES ASSUME TypeOK, [Next]_vars
             PROVE  StepOK
  OBVIOUS
<1>1. CASE UNCHANGED vars
  BY <1>1, KeptLevels DEF vars, TypeOK, StepOK, On
<1>2. CASE handle_hup
  BY <1>2, KeptLevels DEF handle_hup, read_user_data, client, record, TypeOK, StepOK, On
<1>3. ASSUME NEW u \in User, sm_quit(u) \/ ReapUserList(u)
      PROVE  StepOK
  BY <1>3, DropOK DEF sm_quit, ReapUserList, settings, client, TypeOK
<1>4. ASSUME NEW u \in User, Connect(u)
      PROVE  StepOK
  BY <1>4, KeptLevels DEF Connect, settings, record, TypeOK, StepOK, On
<1>5. ASSUME NEW u \in User, NEW n \in Nick, sm_nick(u, n)
      PROVE  StepOK
  BY <1>5, KeptLevels DEF sm_nick, settings, record, TypeOK, StepOK, On
<1>6. ASSUME NEW u \in User, Message(u)
      PROVE  StepOK
  BY <1>6, KeepOK DEF Message, KeepLevels, settings, client, TypeOK
<1>7. ASSUME NEW u \in User, Cool(u)
      PROVE  StepOK
  BY <1>7, KeptLevels DEF Cool, settings, client, record, TypeOK, StepOK, On
<1> QED
  BY <1>1, <1>2, <1>3, <1>4, <1>5, <1>6, <1>7, JoinOK, ListingOK, PartOK, UserhostOK, CommandOK
     DEF Next

\* The records, their levels and the user file keep their types.
THEOREM TypeCorrect == Spec => []TypeOK
<1>1. Init => TypeOK
  BY InitTypeOK
<1>2. TypeOK /\ [Next]_vars => TypeOK'
  BY NextOK DEF StepOK
<1> QED
  BY <1>1, <1>2, PTL DEF Spec

-----------------------------------------------------------------------------
(* Levels come from the list *)

\* A level found that is not the default is granted by an entry in force
\* after the step.
LEMMA FoundIsGranted ==
    ASSUME TypeOK, NEW u \in User, NEW c \in Channel, NEW l, Found(u, c, l), l # Unlisted
    PROVE  \E i \in DOMAIN userdata' : Grants(userdata[i], u, c, l)'
<1>1. PICK pw \in Given : l = Level(u, c, pw) /\ (pw = NoPassword \/ pw \in told'[u])
  BY DEF Found
<1>2. PICK i \in DOMAIN userdata :
                 /\ nick[u] \in userdata[i].nicks /\ Host[u] \in userdata[i].hosts
                 /\ Covers(userdata[i], c)
                 /\ userdata[i].pass = NoPassword \/ ~ReqPass \/ pw = userdata[i].pass
                 /\ Level(u, c, pw) = userdata[i].status
  BY <1>1, LevelShape DEF TypeOK
<1>3. userdata' = userdata /\ nick' = nick
  BY DEF Found
<1>4. Grants(userdata[i], u, c, l)'
  BY <1>1, <1>2, <1>3 DEF Grants, Covers
<1> QED
  BY <1>3, <1>4

\* The level in force after a step: the default, an entry's, the next node's,
\* or the one before.
LEMMA InForceAfter ==
    ASSUME StepOK, TypeOK, NEW u \in User, NEW c \in On(u)'
    PROVE  \/ InForce(u, c)' = Unlisted
           \/ Granted(u, c)'
           \/ c \in On(u) /\ level'[u][c] = Tail(level[u][c])
           \/ c \in On(u) /\ InForce(u, c)' = InForce(u, c)
<1>1. c \in Channel /\ level'[u][c] # << >> /\ level[u][c] \in Row
  BY DEF On, TypeOK, Row
<1>2. CASE level'[u][c] = level[u][c]
  BY <1>1, <1>2 DEF On, InForce
<1>3. ASSUME NEW l \in Levels, Found(u, c, l), InForce(u, c)' = l
      PROVE  InForce(u, c)' = Unlisted \/ Granted(u, c)'
  <2>1. l # Unlisted => \E i \in DOMAIN userdata' : Grants(userdata[i], u, c, l)'
    BY <1>1, <1>3, FoundIsGranted
  <2> QED
    BY <1>3, <2>1 DEF Granted, Grants
<1>4. ASSUME NEW l \in Levels, c \in On(u), level'[u][c] = SetFirst(level[u][c], l)
      PROVE  InForce(u, c)' = l
  BY <1>1, <1>4, FirstSet DEF On, InForce
<1>5. ASSUME NEW l \in Levels, level'[u][c] = Linked(level[u][c], l)
      PROVE  InForce(u, c)' = l
  BY <1>1, <1>5, NodeLinked DEF InForce
<1>6. NodesStep(u, c)
  BY <1>1 DEF StepOK, LevelStep
<1> QED
  BY <1>1, <1>2, <1>3, <1>4, <1>5, <1>6 DEF NodesStep

\* An entry that grants a level goes on granting it while list and nick stay.
LEMMA GrantedOn ==
    ASSUME StepOK, NEW u \in User, NEW c, Granted(u, c), InForce(u, c)' = InForce(u, c),
           userdata' = userdata, nick'[u] = nick[u]
    PROVE  Granted(u, c)'
<1>1. PICK i \in DOMAIN userdata : Grants(userdata[i], u, c, InForce(u, c))
  BY DEF Granted
<1>2. Grants(userdata[i], u, c, InForce(u, c))'
  BY <1>1 DEF Grants, Covers, StepOK
<1> QED
  BY <1>2 DEF Granted

\* Whatever is reloaded, whoever changes nicks and however often a user is
\* listed, a level comes into force as an entry then in force gives it, or from
\* the node behind the one a PART unlinks; and one that is kept has lost its
\* entry by a reload or a NICK.
THEOREM GrantedByList == Spec => GrantsByList
<1> DEFINE Held(u, c) ==
              \/ InForce(u, c)' = Unlisted
              \/ Granted(u, c)'
              \/ c \in On(u) /\ level'[u][c] = Tail(level[u][c])
              \/ /\ c \in On(u) /\ InForce(u, c)' = InForce(u, c)
                 /\ userdata' # userdata \/ nick'[u] # nick[u] \/ ~Granted(u, c)
<1>1. TypeOK /\ [Next]_vars => \A u \in User : \A c \in On(u)' : Held(u, c)
  <2> SUFFICES ASSUME TypeOK, [Next]_vars, NEW u \in User, NEW c \in On(u)'
               PROVE  Held(u, c)
    OBVIOUS
  <2>1. StepOK
    BY NextOK
  <2> QED
    BY <2>1, InForceAfter, GrantedOn
<1>2. TypeOK /\ [Next]_vars => [\A u \in User : \A c \in On(u)' : Held(u, c)]_vars
  BY <1>1
<1> QED
  BY <1>2, TypeCorrect, PTL DEF Spec, GrantsByList

\* Where nobody is listed again, nobody ever has two nodes.
LEMMA StillOnce == TypeOK /\ ListedOnce /\ StepOK => ListedOnce'
<1> SUFFICES ASSUME TypeOK, ListedOnce, StepOK, "again" \notin Allowed,
                    NEW u \in User, NEW c \in Channel
             PROVE  Len(level'[u][c]) <= 1
  BY DEF ListedOnce
<1>1. level[u][c] \in Row /\ Len(level[u][c]) <= 1
  BY DEF TypeOK, Row, ListedOnce
<1>2. CASE level'[u][c] \in {level[u][c], << >>}
  BY <1>1, <1>2
<1>3. CASE c \in On(u) /\ level'[u][c] = Tail(level[u][c])
  BY <1>1, <1>3 DEF On, Row
<1>4. ASSUME NEW l \in Levels, c \in On(u), level'[u][c] = SetFirst(level[u][c], l)
      PROVE  Len(level'[u][c]) <= 1
  BY <1>1, <1>4, FirstSet DEF On
<1>5. ASSUME NEW l \in Levels, MayList(u, c), level'[u][c] = Linked(level[u][c], l)
      PROVE  Len(level'[u][c]) <= 1
  <2>1. level[u][c] = << >>
    BY <1>5 DEF MayList, On
  <2> QED
    BY <1>1, <1>5, <2>1, NodeLinked
<1>6. NodesStep(u, c)
  BY DEF StepOK, LevelStep
<1> QED
  BY <1>2, <1>3, <1>4, <1>5, <1>6 DEF NodesStep

\* The user file and the nicks stay what they were at the start.
Settled == "reload" \notin Allowed /\ "rename" \notin Allowed

\* Without reloads and renames the list and the nicks stay.
LEMMA SettledStays ==
    ASSUME Settled, [Next]_vars
    PROVE  UNCHANGED <<userdata, nick>>
<1>1. CASE UNCHANGED vars
  BY <1>1 DEF vars
<1>2. ASSUME NEW u \in User, Command(u)
      PROVE  UNCHANGED <<userdata, nick>>
  <2>1. nick' = nick
    BY <1>2 DEF Command, access_too_low, msg_identify, msg_access, msg_reload, msg_op,
       msg_opuser, msg_topic, msg_say, OnChannel, msg_autoop, msg_deop, msg_kick, Against,
       kick_myself, Run, handle_command, client
  <2>2. userdata' = userdata
    BY <1>2 DEF Settled, Command, access_too_low, msg_identify, msg_access, msg_reload, msg_op,
       msg_opuser, msg_topic, msg_say, OnChannel, msg_autoop, msg_deop, msg_kick, Against,
       kick_myself
  <2> QED
    BY <2>1, <2>2
<1> QED
  BY <1>1, <1>2 DEF Settled, Next, handle_hup, sm_join, get_users_from_chan, sm_part, sm_quit,
     ReapUserList, Connect, sm_nick, numeric_userhost, Message, Cool, settings, client

\* Nobody sets a node behind the first, so that Wild is all that can come to
\* the front.
RestWild ==
    \A u \in User, c \in Channel : \A i \in DOMAIN level[u][c] :
        i = 1 \/ level[u][c][i] = Wild

\* What every level is while list and nicks stay.
CurrentInv == LevelsCurrent /\ ListedOnce /\ RestWild

\* Nothing but the first node is ever set.
LEMMA StillWild == TypeOK /\ RestWild /\ StepOK => RestWild'
<1> SUFFICES ASSUME TypeOK, RestWild, StepOK, NEW u \in User, NEW c \in Channel,
                    NEW i \in DOMAIN level'[u][c], i # 1
             PROVE  level'[u][c][i] = Wild
  BY DEF RestWild
<1> DEFINE s == level[u][c]
<1>1. s \in Row /\ \A j \in DOMAIN s : j = 1 \/ s[j] = Wild
  BY DEF TypeOK, Row, RestWild
<1> HIDE DEF s
<1>2. CASE level'[u][c] \in {s, << >>}
  BY <1>1, <1>2
<1>3. CASE s # << >> /\ level'[u][c] = Tail(s)
  BY <1>1, <1>3 DEF Row
<1>4. ASSUME NEW l \in Levels, s # << >>, level'[u][c] = SetFirst(s, l)
      PROVE  level'[u][c][i] = Wild
  BY <1>1, <1>4 DEF SetFirst, Row
<1>5. ASSUME NEW l \in Levels, level'[u][c] = Linked(s, l)
      PROVE  level'[u][c][i] = Wild
  <2>1. /\ Append(s, Wild) \in Row
        /\ \A j \in DOMAIN Append(s, Wild) : j = 1 \/ Append(s, Wild)[j] = Wild
    BY <1>1 DEF Row
  <2> QED
    BY <1>5, <2>1 DEF Linked, SetFirst, Row
<1>6. NodesStep(u, c)
  BY DEF StepOK, LevelStep
<1> QED
  BY <1>2, <1>3, <1>4, <1>5, <1>6 DEF NodesStep, On, s

\* Then a level that an entry gives goes on being given.
LEMMA NextCurrent == Settled /\ CurrentInv /\ [Next]_vars => CurrentInv'
<1> SUFFICES ASSUME Settled, CurrentInv, [Next]_vars
             PROVE  CurrentInv'
  OBVIOUS
<1>1. StepOK /\ TypeOK /\ UNCHANGED <<userdata, nick>>
  BY NextOK, SettledStays DEF CurrentInv, LevelsCurrent
<1>2. ListedOnce' /\ RestWild' /\ TypeOK'
  BY <1>1, StillOnce, StillWild DEF CurrentInv, StepOK
<1>3. ASSUME NEW u \in User, NEW c \in On(u)'
      PROVE  \/ InForce(u, c)' = Unlisted
             \/ InForce(u, c)' = Wild /\ "again" \in Allowed
             \/ Granted(u, c)'
  <2>1. CASE c \in On(u) /\ InForce(u, c)' = InForce(u, c)
    BY <1>1, <2>1, GrantedOn DEF CurrentInv, LevelsCurrent
  <2>2. CASE c \in On(u) /\ level'[u][c] = Tail(level[u][c])
    <3>1. /\ level[u][c] \in Row /\ level[u][c] # << >> /\ Tail(level[u][c]) # << >>
          /\ \A i \in DOMAIN level[u][c] : i = 1 \/ level[u][c][i] = Wild
          /\ "again" \in Allowed \/ Len(level[u][c]) <= 1
      BY <1>1, <1>3, <2>2 DEF On, TypeOK, Row, CurrentInv, ListedOnce, RestWild
    <3>2. Len(level[u][c]) \in Nat /\ Len(level[u][c]) >= 2
      BY <3>1 DEF Row
    <3>3. Head(Tail(level[u][c])) = Wild
      BY <3>1, <3>2 DEF Row
    <3> QED
      BY <2>2, <3>1, <3>2, <3>3 DEF InForce
  <2> QED
    BY <1>1, <1>3, <2>1, <2>2, InForceAfter
<1> QED
  BY <1>2, <1>3 DEF CurrentInv, LevelsCurrent

\* No channel lists anybody at first.
LEMMA InitCurrent == Init => CurrentInv
<1> SUFFICES ASSUME Init
             PROVE  CurrentInv
  OBVIOUS
<1>1. TypeOK /\ \A u \in User : On(u) = {}
  BY InitTypeOK DEF Init, On
<1>2. \A u \in User, c \in Channel : level[u][c] = << >>
  BY DEF Init
<1> QED
  BY <1>1, <1>2 DEF CurrentInv, LevelsCurrent, ListedOnce, RestWild

\* The invariant, from which LevelsCurrent and OpsEarned follow.
LEMMA AlwaysCurrent ==
    ASSUME Settled
    PROVE  Spec => []CurrentInv
<1>1. Init => CurrentInv
  BY InitCurrent
<1>2. CurrentInv /\ [Next]_vars => CurrentInv'
  BY NextCurrent
<1> QED
  BY <1>1, <1>2, PTL DEF Spec

\* While the list and the nicks stay what they are, nobody has a level that no
\* entry gives him, but for levels that were never set, and those only where
\* somebody is listed twice.
THEOREM LevelsStayCurrent ==
    ASSUME Settled
    PROVE  Spec => []LevelsCurrent
<1>1. CurrentInv => LevelsCurrent
  BY DEF CurrentInv
<1> QED
  BY <1>1, AlwaysCurrent, PTL

-----------------------------------------------------------------------------
(* Modes are earned *)

\* The configuration asks for levels that users the file does not list lack.
Demanding == OpLevel < Unlisted /\ HopLevel < Unlisted /\ VoiceLevel < Unlisted

\* user_join, OP and AUTOOP give a mode to a level that suffices for it.
LEMMA ModeEarned ==
    ASSUME NEW c, NEW u, NEW l \in Int, NEW s \in ModeFor(c, u, l)
    PROVE  /\ s.user = u /\ s.chan = c
           /\ l <= Needed(s.line)
           /\ Demanding => l # Unlisted
<1>1. /\ OpLevel \in Int /\ HopLevel \in Int /\ VoiceLevel \in Int /\ Unlisted \in Int
  BY AccessAssumption DEF Unlisted
<1>2. \/ l <= OpLevel /\ s = [line |-> "+o", chan |-> c, user |-> u]
      \/ l <= HopLevel /\ s = [line |-> "+h", chan |-> c, user |-> u]
      \/ l <= VoiceLevel /\ s = [line |-> "+v", chan |-> c, user |-> u]
  BY DEF ModeFor
<1>3. s.user = u /\ s.chan = c /\ l <= Needed(s.line)
  BY <1>2 DEF Needed
<1>4. Demanding => l # Unlisted
  BY <1>1, <1>2 DEF Demanding, Unlisted
<1> QED
  BY <1>3, <1>4

\* A mode is given by JOIN or OP, to a user for his level on the channel, which
\* his first node has unless nobody has set it.
LEMMA ModeSource ==
    ASSUME TypeOK, TypeOK', Next, NEW s \in sent', s.line \in Modes
    PROVE  \E u \in User, c \in Channel, l \in Levels \cup Junk :
              /\ s \in ModeFor(c, u, l)
              /\ c \in On(u)' /\ (InForce(u, c)' = Wild \/ l = InForce(u, c)')
<1>1. ASSUME NEW u \in User, NEW c \in Channel, sm_join(u, c)
      PROVE  /\ s \in ModeFor(c, u, InForce(u, c)')
             /\ c \in On(u)' /\ InForce(u, c)' \in Levels
  <2>1. s \in ModeFor(c, u, InForce(u, c)')
    BY <1>1 DEF sm_join
  <2>2. level[u][c] \in Row /\ Level(u, c, NoPassword) \in Levels
    BY LevelType DEF TypeOK, Row
  <2>3. level'[u][c] = Linked(level[u][c], Level(u, c, NoPassword))
    BY <1>1 DEF sm_join, TypeOK
  <2> QED
    BY <2>1, <2>2, <2>3, NodeLinked DEF On, InForce
<1>2. ASSUME NEW u \in User, NEW c \in Channel, NEW pw \in Given, msg_op(u, c, pw)
      PROVE  \E l \in Levels \cup Junk :
                /\ s \in ModeFor(c, u, l)
                /\ c \in On(u)' /\ (InForce(u, c)' = Wild \/ l = InForce(u, c)')
  <2>1. PICK l \in GetChannelAccess(u, c)' : sent' = IF l < 0 THEN {} ELSE ModeFor(c, u, l)
    BY <1>2 DEF msg_op
  <2>2. ~(l < 0) /\ s \in ModeFor(c, u, l)
    BY <2>1
  <2>3. c \in On(u)'
    BY <2>1, <2>2 DEF GetChannelAccess
  <2>4. CASE InForce(u, c)' = Wild
    BY <2>1, <2>2, <2>3, <2>4 DEF GetChannelAccess
  <2>5. CASE InForce(u, c)' # Wild
    <3>1. l = InForce(u, c)'
      BY <2>1, <2>3, <2>5 DEF GetChannelAccess
    <3>2. level'[u][c] \in Row /\ level'[u][c] # << >>
      BY <2>3 DEF TypeOK, Row, On
    <3>3. InForce(u, c)' \in Levels
      BY <2>5, <3>2 DEF Row, InForce
    <3> QED
      BY <2>2, <2>3, <3>1, <3>3
  <2> QED
    BY <2>4, <2>5
<1>3. ASSUME NEW u \in User, Command(u), ~\E c \in Channel, pw \in Given : msg_op(u, c, pw)
      PROVE  FALSE
  BY <1>3 DEF Command, access_too_low, msg_identify, msg_access, msg_reload, msg_opuser,
     msg_topic, msg_say, OnChannel, msg_autoop, msg_deop, msg_kick, Against, kick_myself, Modes
<1>4. \/ \E u \in User, c \in Channel : sm_join(u, c)
      \/ \E u \in User : Command(u)
  BY DEF Next, handle_hup, get_users_from_chan, sm_part, sm_quit, ReapUserList, Drop, Connect,
     sm_nick, numeric_userhost, Message, Cool
<1> QED
  BY <1>1, <1>2, <1>3, <1>4

\* What OpsEarned asks of a mode that is sent.
Earned(s) ==
    \/ InForce(s.user, s.chan)' = Wild
    \/ \E i \in DOMAIN userdata' :
          /\ userdata'[i].status <= Needed(s.line)
          /\ Grants(userdata[i], s.user, s.chan, userdata[i].status)'

\* So a mode sent is one that an entry in force earns.
LEMMA NextEarned ==
    ASSUME Settled, Demanding, CurrentInv, Next, NEW s \in sent', s.line \in Modes
    PROVE  Earned(s)
<1>1. TypeOK /\ TypeOK' /\ LevelsCurrent'
  BY NextOK, NextCurrent DEF LevelsCurrent, CurrentInv, StepOK
<1>2. PICK u \in User, c \in Channel, l \in Levels \cup Junk :
              /\ s \in ModeFor(c, u, l)
              /\ c \in On(u)' /\ (InForce(u, c)' = Wild \/ l = InForce(u, c)')
  BY <1>1, ModeSource
<1>3. l \in Int
  BY LevelsAreLevels, AccessAssumption
<1>4. s.user = u /\ s.chan = c /\ l <= Needed(s.line) /\ l # Unlisted
  BY <1>2, <1>3, ModeEarned
<1>5. CASE InForce(u, c)' # Wild
  <2>1. PICK i \in DOMAIN userdata' : Grants(userdata[i], u, c, InForce(u, c))'
    BY <1>1, <1>2, <1>4, <1>5 DEF LevelsCurrent, Granted
  <2>2. userdata'[i].status = InForce(u, c)'
    BY <2>1 DEF Grants
  <2> QED
    BY <1>2, <1>4, <1>5, <2>1, <2>2 DEF Earned
<1> QED
  BY <1>4, <1>5 DEF Earned

\* Where the configuration asks for a level below that of unlisted users, who is
\* given a mode on JOIN or OP has an entry that gives a good enough level, or the
\* level was read where nobody has set one.
THEOREM ModesEarned ==
    ASSUME Settled, Demanding
    PROVE  Spec => OpsEarned
<1>1. CurrentInv /\ [Next]_vars => [\A s \in sent' : s.line \in Modes => Earned(s)]_vars
  BY NextEarned
<1>2. CurrentInv /\ [Next]_vars =>
        [\A s \in sent' : s.line \in Modes =>
           \/ InForce(s.user, s.chan)' = Wild
           \/ \E i \in DOMAIN userdata' :
                 /\ userdata'[i].status <= Needed(s.line)
                 /\ Grants(userdata[i], s.user, s.chan, userdata[i].status)']_vars
  BY <1>1 DEF Earned
<1> QED
  BY <1>2, AlwaysCurrent, PTL DEF Spec, OpsEarned

=============================================================================
