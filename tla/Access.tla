------------------------------- MODULE Access -------------------------------
(***************************************************************************)
(* Access levels: the user file (src/src/users.c, src/src/list.c), the     *)
(* levels the bot keeps from it in the records of the users it tracks, the *)
(* commands that are run or refused by them (handle_command in             *)
(* src/src/usrcommands.c, src/dmodules/chanop/chanop.c), and the order in  *)
(* which a user's address becomes known: a JOIN or a message carries it, a *)
(* 353 listing does not, and USERHOST asks for it.                         *)
(*                                                                         *)
(* A level is looked up once and kept.  The properties relate what is kept *)
(* to what the list says.                                                  *)
(*                                                                         *)
(* Tracking shows that a nick leads to the one record of its bearer and    *)
(* that both lists of a membership agree, so a record here is its client,  *)
(* and level[u][c] has the levels in u's nodes of channel c, in the order  *)
(* of the channel's list.  It is always the first that is found, to be set,*)
(* read or unlinked.  A mask of the user file is the set of what it        *)
(* matches.  What replies say is left out.                                 *)
(***************************************************************************)
EXTENDS Integers, FiniteSets, FiniteSetsExt, Sequences, SequencesExt

CONSTANTS
    User,       \* clients
    Nick,       \* nicks
    FirstNick,  \* the nick each client starts with
    Host,       \* the address of each client
    Channel,
    All,        \* the word "all" in the place of an entry's channels
    Password,   \* what a user may give as password
    NoPassword, \* a null pointer instead
    Wild,       \* in the place of a level: the node's access was never set
    Junk,       \* what the code may read there
    Files,      \* the user files an operator of the bot may write
    ReqPass,    \* botinfo->reqpass == 1
    OpLevel, HopLevel, VoiceLevel, FloodExempt,     \* botinfo
    Allowed,    \* what may happen: "reload", "unreadable", "rename", "absent", "hasty",
                \* and "again", that a user is listed who has a node of the channel
    MaxNodes,   \* bound: nodes of users in the lists of channels
    MaxAsked    \* bound: USERHOST queries under way about one nick

\* A line of the user file: nick and address masks, channels, password, level.
Entry == [nicks : SUBSET Nick, hosts : SUBSET {Host[u] : u \in User},
          chans : {{All}} \cup SUBSET Channel, pass : Password \cup {NoPassword},
          status : Int]

ASSUME AccessAssumption ==
    /\ FirstNick \in [User -> Nick]
    /\ \A u, v \in User : FirstNick[u] = FirstNick[v] => u = v
    /\ All \notin Channel
    /\ NoPassword \notin Password
    /\ Wild \notin Int
    /\ Junk \subseteq Int
    /\ Files \subseteq Seq(Entry)
    /\ ReqPass \in BOOLEAN
    /\ OpLevel \in Int /\ HopLevel \in Int /\ VoiceLevel \in Int /\ FloodExempt \in Int
    /\ Allowed \subseteq {"reload", "unreadable", "rename", "absent", "hasty", "again"}
    /\ MaxNodes \in Nat
    /\ MaxAsked \in Nat

VARIABLES
    userdata,   \* conf_userdata, the entries read from the user file
    autoop,     \* botinfo->autoop == 1
    nick,       \* the nick of each client
    online,     \* clients on the server
    known,      \* clients the bot has a record of
    learnt,     \* known clients whose ident and address are recorded
    access,     \* user->access of each record
    level,      \* access in the user's nodes of each channel
    warm,       \* users whose lastcmd is at most CMDDELAY seconds old
    asked,      \* USERHOST queries not answered yet, by nick
    told,       \* the passwords each client has given (history)
    sent,       \* the MODE or KICK line the step wrote to the server
    alive       \* no null pointer was followed

Unlisted == 99          \* the level of users that no entry grants one
Fresh == -1             \* the level of a record nobody has looked up

settings  == <<userdata, autoop>>
client    == <<nick, online>>
record    == <<known, learnt, access, level>>
vars == <<userdata, autoop, nick, online, known, learnt, access, level,
          warm, asked, told, sent, alive>>

-----------------------------------------------------------------------------
(* Looking a level up *)

Covers(e, c) == c \in e.chans \/ All \in e.chans

\* Wrong on purpose: any entry of the nick will do, wherever the user is.
LevelByNick(u, c, pw) ==
    LET hits == {i \in DOMAIN userdata : nick[u] \in userdata[i].nicks}
        e    == userdata[Min(hits)]
    IN  IF hits # {} /\ Covers(e, c) /\ (e.pass = NoPassword \/ ~ReqPass \/ pw = e.pass)
        THEN e.status ELSE Unlisted

\* SetAccess (c = All) and SetChanAccess, for a user whose address is known:
\* the first entry that names nick and address decides, also when it is for
\* other channels or the password is missing.
Level(u, c, pw) ==
    LET hits == {i \in DOMAIN userdata : /\ nick[u] \in userdata[i].nicks
                                         /\ Host[u] \in userdata[i].hosts}
        e    == userdata[Min(hits)]
    IN  IF hits # {} /\ Covers(e, c) /\ (e.pass = NoPassword \/ ~ReqPass \/ pw = e.pass)
        THEN e.status ELSE Unlisted

\* With the address unknown they stop at the first entry that names the nick
\* and ask the server.
MustAsk(u) == \E i \in DOMAIN userdata : nick[u] \in userdata[i].nicks

\* The channels that list u.
On(u) == {c \in Channel : level[u][c] # << >>}

\* The level of the node GetFromChannel and GetChannelAccess find.
InForce(u, c) == Head(level[u][c])

\* SetChanAccess sets that node, whichever it was called for.
SetFirst(s, l) == [s EXCEPT ![1] = l]

\* LinkUserToChannel puts a node to the end, whether there is one or not.
Linked(s, l) == SetFirst(Append(s, Wild), l)

Nodes == MapThenSumSet(LAMBDA p : Len(level[p[1]][p[2]]), User \X Channel)

\* A user is listed who has no node of the channel, or after a kick of the bot,
\* a reconnect, or a PART or JOIN of the bot that crossed messages.
MayList(u, c) ==
    /\ c \notin On(u) \/ "again" \in Allowed
    /\ Nodes < MaxNodes

UpdateAccess(u, pw) ==
    /\ access' = [access EXCEPT ![u] = Level(u, All, pw)]
    /\ level' = [level EXCEPT ![u] =
                    [c \in Channel |-> IF c \in On(u)
                                      THEN SetFirst(level[u][c], Level(u, c, pw))
                                      ELSE << >>]]

\* user->access after UpdateUser has been told ident and address.
Introduced(u) ==
    IF u \in known /\ (u \in learnt \/ access[u] >= 0) THEN access[u]
    ELSE Level(u, All, NoPassword)

\* UpdateUser on a line that carries them.
UpdateUser(u) ==
    /\ known' = known \cup {u}
    /\ learnt' = learnt \cup {u}

\* allocuserlist leaves lastcmd of a new record as malloc found it.
Uninitialised(u) == IF u \in known THEN {warm} ELSE {warm, warm \cup {u}}

\* What the read may give.
GetChannelAccess(u, c) ==
    IF c \notin On(u) THEN {-1}
    ELSE IF InForce(u, c) = Wild THEN Junk ELSE {InForce(u, c)}

\* The mode that user_join and msg_op give to a level.
ModeFor(c, u, l) ==
    LET mode == IF l <= OpLevel THEN {"+o"}
                ELSE IF l <= HopLevel THEN {"+h"}
                ELSE IF l <= VoiceLevel THEN {"+v"} ELSE {}
    IN  {[line |-> m, chan |-> c, user |-> u] : m \in mode}

-----------------------------------------------------------------------------
(* The user file *)

\* read_user_data frees the list before it tries to open the file, and its
\* callers ignore what it returns.
read_user_data ==
    \/ userdata' \in Files
    \/ "unreadable" \in Allowed /\ userdata' = << >>

\* SIGHUP, when it arrives between two handlers.
handle_hup ==
    /\ alive
    /\ "reload" \in Allowed
    /\ read_user_data
    /\ sent' = {}
    /\ UNCHANGED <<autoop, client, record, warm, asked, told, alive>>

-----------------------------------------------------------------------------
(* What clients do *)

\* Wrong on purpose: the channel's operator status goes by the level kept
\* from before, and so does the node.
JoinByKept(u, c) ==
    /\ alive
    /\ u \in online
    /\ MayList(u, c)
    /\ UpdateUser(u)
    /\ access' = [access EXCEPT ![u] = Introduced(u)]
    /\ level' = [level EXCEPT ![u][c] = Linked(@, Introduced(u))]
    /\ warm' \in Uninitialised(u)
    /\ sent' = IF autoop THEN ModeFor(c, u, InForce(u, c)') ELSE {}
    /\ UNCHANGED <<settings, client, asked, told, alive>>

\* Wrong on purpose: user_join goes by the level from before the JOIN.
JoinTriggerFirst(u, c) ==
    /\ alive
    /\ u \in online
    /\ MayList(u, c)
    /\ UpdateUser(u)
    /\ access' = [access EXCEPT ![u] = Introduced(u)]
    /\ level' = [level EXCEPT ![u][c] = Linked(@, Level(u, c, NoPassword))]
    /\ warm' \in Uninitialised(u)
    /\ \E l \in GetChannelAccess(u, c) : sent' = IF autoop THEN ModeFor(c, u, l) ELSE {}
    /\ UNCHANGED <<settings, client, asked, told, alive>>

\* JOIN: the node is linked with the address known, and user_join of the
\* chanop module follows in the same handler.
sm_join(u, c) ==
    /\ alive
    /\ u \in online
    /\ MayList(u, c)
    /\ UpdateUser(u)
    /\ access' = [access EXCEPT ![u] = Introduced(u)]
    /\ level' = [level EXCEPT ![u][c] = Linked(@, Level(u, c, NoPassword))]
    /\ warm' \in Uninitialised(u)
    /\ sent' = IF autoop THEN ModeFor(c, u, InForce(u, c)') ELSE {}
    /\ UNCHANGED <<settings, client, asked, told, alive>>

\* 353: no address, so that a user the list may name has to be asked about.
get_users_from_chan(u, c) ==
    /\ alive
    /\ u \in online
    /\ MayList(u, c)
    /\ known' = known \cup {u}
    /\ access' = [access EXCEPT ![u] = IF u \in known THEN @ ELSE Fresh]
    /\ level' = [level EXCEPT ![u][c] =
                    Linked(@, IF u \in learnt THEN Level(u, c, NoPassword) ELSE Unlisted)]
    /\ warm' \in Uninitialised(u)
    /\ asked' = [asked EXCEPT ![nick[u]] =
                    IF u \notin learnt /\ MustAsk(u) /\ @ < MaxAsked THEN @ + 1 ELSE @]
    /\ sent' = {}
    /\ UNCHANGED <<settings, client, learnt, told, alive>>

\* PART and KICK of another client: DelUserFromChannel unlinks the first node,
\* and one that is left comes to be the first.  DelChannel does this for each.
sm_part(u, c) ==
    /\ alive
    /\ c \in On(u)
    /\ level' = [level EXCEPT ![u][c] = Tail(@)]
    /\ sent' = {}
    /\ UNCHANGED <<settings, client, known, learnt, access, warm, asked, told, alive>>

\* DelUser, called by QuitUser and by ReapUserList.
Drop(u) ==
    /\ known' = known \ {u}
    /\ learnt' = learnt \ {u}
    /\ access' = [access EXCEPT ![u] = Fresh]
    /\ level' = [level EXCEPT ![u] = [c \in Channel |-> << >>]]
    /\ warm' = warm \ {u}
    /\ sent' = {}

\* Unless "hasty", nobody leaves while the bot waits to hear about him.
sm_quit(u) ==
    /\ alive
    /\ u \in online
    /\ "hasty" \in Allowed \/ asked[nick[u]] = 0
    /\ online' = online \ {u}
    /\ Drop(u)
    /\ UNCHANGED <<settings, nick, asked, told, alive>>

ReapUserList(u) ==
    /\ alive
    /\ u \in known
    /\ On(u) = {}
    /\ Drop(u)
    /\ UNCHANGED <<settings, client, asked, told, alive>>

\* Somebody connects to the server.
Connect(u) ==
    /\ alive
    /\ u \notin online
    /\ \A v \in online : nick[v] # nick[u]
    /\ online' = online \cup {u}
    /\ sent' = {}
    /\ UNCHANGED <<settings, nick, record, warm, asked, told, alive>>

\* RenameUser: the levels stay what they are.
sm_nick(u, new) ==
    /\ alive
    /\ "rename" \in Allowed
    /\ u \in online
    /\ \A v \in User : nick[v] # new
    /\ nick' = [nick EXCEPT ![u] = new]
    /\ sent' = {}
    /\ UNCHANGED <<settings, online, record, warm, asked, told, alive>>

\* Wrong on purpose: the reply introduces the user and nothing else.
UserhostNoted(n) ==
    /\ alive
    /\ asked[n] > 0
    /\ asked' = [asked EXCEPT ![n] = @ - 1]
    /\ \E u \in online :
          /\ nick[u] = n
          /\ UpdateUser(u)
          /\ access' = [access EXCEPT ![u] = Introduced(u)]
          /\ warm' \in Uninitialised(u)
    /\ sent' = {}
    /\ UNCHANGED <<settings, client, level, told, alive>>

\* 302.  The reply about a nick nobody has any more is empty; strtok finds no
\* ident in it, and strip_char_from_end reads what the null pointer leads to.
numeric_userhost(n) ==
    /\ alive
    /\ asked[n] > 0
    /\ asked' = [asked EXCEPT ![n] = @ - 1]
    /\ \/ \E u \in online :
             /\ nick[u] = n
             /\ UpdateUser(u)
             /\ UpdateAccess(u, NoPassword)
             /\ warm' \in Uninitialised(u)
             /\ UNCHANGED alive
       \/ /\ \A u \in online : nick[u] # n
          /\ alive' = FALSE
          /\ UNCHANGED <<record, warm>>
    /\ sent' = {}
    /\ UNCHANGED <<settings, client, told>>

-----------------------------------------------------------------------------
(* Commands: sm_privmsg, which introduces the user, handle_command and the   *)
(* function of the command, in one handler                                   *)

\* A message that is no command, or one handle_command drops.
Message(u) ==
    /\ alive
    /\ u \in online
    /\ UpdateUser(u)
    /\ access' = [access EXCEPT ![u] = Introduced(u)]
    /\ warm' \in Uninitialised(u)
    /\ sent' = {}
    /\ UNCHANGED <<settings, client, level, asked, told, alive>>

\* handle_command comes to run a command: a negative level gets nothing, and
\* above FLOODEXEMPT one command has to be CMDDELAY away from the last.
handle_command(u) ==
    /\ alive
    /\ u \in online
    /\ Introduced(u) >= 0
    /\ Introduced(u) <= FloodExempt \/ u \notin warm
    /\ UpdateUser(u)
    /\ warm' = warm \cup {u}
    /\ UNCHANGED <<client, asked>>

\* ... for which `need' is the level asked in addcommand.
Run(u, need) == handle_command(u) /\ Introduced(u) <= need

KeepLevels(u) ==
    /\ access' = [access EXCEPT ![u] = Introduced(u)]
    /\ UNCHANGED level

access_too_low(u, need) ==
    /\ handle_command(u)
    /\ Introduced(u) > need
    /\ KeepLevels(u)
    /\ sent' = {}
    /\ UNCHANGED <<userdata, autoop, told, alive>>

msg_identify(u, pw) ==
    /\ Run(u, 99)
    /\ UpdateAccess(u, pw)
    /\ told' = [told EXCEPT ![u] = @ \cup ({pw} \ {NoPassword})]
    /\ sent' = {}
    /\ UNCHANGED <<userdata, autoop, alive>>

\* Asking for one's level looks it up again, without a password.
msg_access(u) ==
    /\ Run(u, 99)
    /\ UpdateAccess(u, NoPassword)
    /\ sent' = {}
    /\ UNCHANGED <<userdata, autoop, told, alive>>

msg_reload(u) ==
    /\ "reload" \in Allowed
    /\ Run(u, 0)
    /\ read_user_data
    /\ KeepLevels(u)
    /\ sent' = {}
    /\ UNCHANGED <<autoop, told, alive>>

\* OP looks the levels up again only when it was given a password.
msg_op(u, c, pw) ==
    /\ Run(u, 99)
    /\ IF pw = NoPassword THEN KeepLevels(u) ELSE UpdateAccess(u, pw)
    /\ told' = [told EXCEPT ![u] = @ \cup ({pw} \ {NoPassword})]
    /\ \E mine \in GetChannelAccess(u, c)' :
          sent' = IF mine < 0 THEN {} ELSE ModeFor(c, u, mine)
    /\ UNCHANGED <<userdata, autoop, alive>>

msg_opuser(u, c, v) ==
    /\ Run(u, 0)
    /\ KeepLevels(u)
    /\ \E mine \in GetChannelAccess(u, c) :
          sent' = IF mine < 0 THEN {} ELSE {[line |-> "opuser", chan |-> c, user |-> v]}
    /\ UNCHANGED <<userdata, autoop, told, alive>>

\* Done for whoever has a level on the channel that is not negative.
OnChannel(u, c, need, line) ==
    /\ Run(u, need)
    /\ KeepLevels(u)
    /\ \E mine \in GetChannelAccess(u, c) :
          sent' = IF mine < 0 THEN {} ELSE {[line |-> line, chan |-> c, user |-> u]}
    /\ UNCHANGED <<userdata, autoop, told, alive>>

msg_topic(u, c) == OnChannel(u, c, 99, "topic")     \* MODE likewise
msg_say(u, c) == OnChannel(u, c, 20, "text")      \* ACTION likewise, with 99

msg_autoop(u, to) ==
    /\ Run(u, 0)
    /\ KeepLevels(u)
    /\ autoop' = to
    /\ sent' = {}
    /\ UNCHANGED <<userdata, told, alive>>

\* DEOP and KICK of v.  msg_deop reads the target's nick before it tests
\* whether there is a target; msg_kick makes the test and goes on.
Against(u, c, v, line) ==
    /\ Run(u, 99)
    /\ KeepLevels(u)
    /\ \E mine \in GetChannelAccess(u, c), theirs \in GetChannelAccess(v, c) :
          /\ u = v => mine = theirs
          /\ \/ /\ mine < 0
                /\ sent' = {}
                /\ UNCHANGED alive
             \/ /\ mine >= 0
                /\ c \notin On(v)
                /\ "absent" \in Allowed
                /\ sent' = {}
                /\ alive' = FALSE
             \/ /\ mine >= 0
                /\ c \in On(v)
                /\ sent' = IF theirs >= 0 /\ mine > theirs THEN {}
                           ELSE {[line |-> line, chan |-> c, user |-> v]}
                /\ UNCHANGED alive
    /\ UNCHANGED <<userdata, autoop, told>>

msg_deop(u, c, v) == Against(u, c, v, "-o")
msg_kick(u, c, v) == Against(u, c, v, "kick")

\* KICK of the bot itself turns on whoever asked for it.
kick_myself(u, c) ==
    /\ Run(u, 99)
    /\ KeepLevels(u)
    /\ sent' = {[line |-> "kick", chan |-> c, user |-> u]}
    /\ UNCHANGED <<userdata, autoop, told, alive>>

\* CMDDELAY seconds go by.
Cool(u) ==
    /\ alive
    /\ warm' = warm \ {u}
    /\ sent' = {}
    /\ UNCHANGED <<settings, client, record, asked, told, alive>>

-----------------------------------------------------------------------------
Init ==
    /\ userdata \in Files
    /\ autoop \in BOOLEAN
    /\ nick = FirstNick
    /\ online = User
    /\ known = {}
    /\ learnt = {}
    /\ access = [u \in User |-> Fresh]
    /\ level = [u \in User |-> [c \in Channel |-> << >>]]
    /\ warm = {}
    /\ asked = [n \in Nick |-> 0]
    /\ told = [u \in User |-> {}]
    /\ sent = {}
    /\ alive = TRUE

Given == Password \cup {NoPassword}

Command(u) ==
    \/ \E need \in {0, 20} : access_too_low(u, need)
    \/ \E pw \in Given : msg_identify(u, pw)
    \/ msg_access(u)
    \/ msg_reload(u)
    \/ \E c \in Channel, pw \in Given : msg_op(u, c, pw)
    \/ \E c \in Channel, v \in User : msg_opuser(u, c, v)
    \/ \E c \in Channel : msg_topic(u, c)
    \/ \E c \in Channel : msg_say(u, c)
    \/ \E to \in BOOLEAN : msg_autoop(u, to)
    \/ \E c \in Channel, v \in User : msg_deop(u, c, v)
    \/ \E c \in Channel, v \in User : msg_kick(u, c, v)
    \/ \E c \in Channel : kick_myself(u, c)

Next ==
    \/ handle_hup
    \/ \E u \in User, c \in Channel : sm_join(u, c)
    \/ \E u \in User, c \in Channel : get_users_from_chan(u, c)
    \/ \E u \in User, c \in Channel : sm_part(u, c)
    \/ \E u \in User : sm_quit(u)
    \/ \E u \in User : ReapUserList(u)
    \/ \E u \in User : Connect(u)
    \/ \E u \in User, n \in Nick : sm_nick(u, n)
    \/ \E n \in Nick : numeric_userhost(n)
    \/ \E u \in User : Message(u)
    \/ \E u \in User : Command(u)
    \/ \E u \in User : Cool(u)

Spec == Init /\ [][Next]_vars

\* The server answers every USERHOST.
LiveSpec == Spec /\ \A n \in Nick : WF_vars(numeric_userhost(n))

-----------------------------------------------------------------------------
(* Properties *)

\* The levels a user file can give, and the one of users it does not list.
Levels == {Unlisted} \cup UNION {{f[i].status : i \in DOMAIN f} : f \in Files}

\* Every variable has the values its declaration says.
TypeOK ==
    /\ userdata \in Files \cup {<< >>}
    /\ nick \in [User -> Nick] /\ online \subseteq User
    /\ known \subseteq User /\ learnt \subseteq known
    /\ access \in [User -> Levels \cup {Fresh}]
    /\ level \in [User -> [Channel -> Seq(Levels \cup {Wild})]]
    /\ asked \in [Nick -> 0 .. MaxAsked]
    /\ told \in [User -> SUBSET Password]
    /\ \A u \in User \ known : On(u) = {} /\ u \notin warm

\* An entry of the list in force gives u the level l on c, by the nick u has,
\* the address u has and a password u has given.
Grants(e, u, c, l) ==
    /\ nick[u] \in e.nicks
    /\ Host[u] \in e.hosts
    /\ Covers(e, c)
    /\ e.pass = NoPassword \/ ~ReqPass \/ e.pass \in told[u]
    /\ e.status = l

\* ... and it is the level u has there.
Granted(u, c) == \E i \in DOMAIN userdata : Grants(userdata[i], u, c, InForce(u, c))

\* Nobody has a level that no entry of the user file gives: neither by what
\* the levels are kept from, nor by the order in which listing, address,
\* password and commands arrive.  A level nobody has set is read only where
\* somebody may have been listed twice.
LevelsCurrent ==
    /\ TypeOK
    /\ \A u \in User : \A c \in On(u) :
          \/ InForce(u, c) = Unlisted
          \/ InForce(u, c) = Wild /\ "again" \in Allowed
          \/ Granted(u, c)

Modes == {"+o", "+h", "+v"}

\* The level OPLEVEL, HOPLEVEL or VOICELEVEL asks for each mode.
Needed(line) ==
    CASE line = "+o" -> OpLevel [] line = "+h" -> HopLevel [] line = "+v" -> VoiceLevel

\* Whoever the bot gives a channel mode for his own sake, on JOIN or on the
\* command OP, has an entry that gives a level good enough for that mode
\* (user_join, msg_op), or the level was read from a node nobody has set.
OpsEarned ==
    [][\A s \in sent' : s.line \in Modes =>
         \/ InForce(s.user, s.chan)' = Wild
         \/ \E i \in DOMAIN userdata' :
               /\ userdata'[i].status <= Needed(s.line)
               /\ Grants(userdata[i], s.user, s.chan, userdata[i].status)']_vars

\* Through reloads, NICKs and doubled listings: the level in force is what an
\* entry of the list gives to the nick and the address the user has, but for
\* three cases.  It is that of unlisted users; it was in the node behind the one
\* that a PART unlinks; or it was in force before, and then it had its entry
\* until this very reload or NICK, or was without one already.
GrantsByList ==
    [][\A u \in User : \A c \in On(u)' :
         \/ InForce(u, c)' = Unlisted
         \/ Granted(u, c)'
         \/ c \in On(u) /\ level'[u][c] = Tail(level[u][c])
         \/ /\ c \in On(u) /\ InForce(u, c)' = InForce(u, c)
            /\ userdata' # userdata \/ nick'[u] # nick[u] \/ ~Granted(u, c)]_vars

\* A user on a channel whom the list gives a level without a password comes
\* to have it there or leaves, whether JOIN, 353 or a message came first.  If
\* he was listed twice, who leaves stays listed, by a node nobody has set.
Recognised ==
    \A u \in User, c \in Channel :
        (c \in On(u) /\ Level(u, c, NoPassword) # Unlisted)
            ~> (c \notin On(u) \/ InForce(u, c) \in {Wild, Level(u, c, NoPassword)})

\* A level that is read has been set: "uclist->access" of GetChannelAccess.
LevelsSet == \A u \in User : \A c \in On(u) : InForce(u, c) # Wild

\* "With REQPASS on you need to identify yourself to the bot before it will
\* recognize you" (README:144): a user who has done so stays recognised as
\* long as he stays on the channel and the list stays what it is.
RecognitionLasts ==
    [][\A u \in User : \A c \in On(u) \cap On(u)' :
         (userdata' = userdata /\ InForce(u, c) # Unlisted)
            => InForce(u, c)' = InForce(u, c)]_vars

\* "banned users get nothing" (usrcommands.c:458).
BannedGetNothing ==
    [][\A s \in sent' : s.line \in Modes => InForce(s.user, s.chan)' >= 0]_vars

\* "topic <channel> <text> - access level required 0" (docs/Commands).
TopicByMasters ==
    [][\A s \in sent' : s.line = "topic" => InForce(s.user, s.chan)' = 0]_vars

\* "I don't see that user in the channel" (chanop.c:197, 375): DEOP and KICK
\* of somebody who is not there end with an answer.
AbsentAnswered == alive

=============================================================================
