------------------------------ MODULE Tracking ------------------------------
(***************************************************************************)
(* Who is on which channel, as one struct server_list entry of the bot     *)
(* keeps it (src/src/tracking.c), and every handler that changes it: the   *)
(* server commands of src/src/srvcommands.c, the numerics 302, 353 and 433 *)
(* of src/src/numeric.c, the user commands join, part and nick of          *)
(* src/src/usrcommands.c, and the ReapUserList call of the main loop.      *)
(*                                                                         *)
(* The bot is single threaded, so a handler runs to its end before the     *)
(* next one starts.  Straight-line handlers are one action.  The loops of  *)
(* QuitUser, DelChannel, ReapUserList and get_users_from_chan take one     *)
(* step per iteration; `frame' says which loop is running, so that a loop  *)
(* that never ends, or one that follows a null pointer, is a behaviour of  *)
(* the model.                                                              *)
(*                                                                         *)
(* User and channel access levels, topics, and the text of replies and log *)
(* lines are left out: no decision of these handlers depends on them.      *)
(***************************************************************************)
EXTENDS Naturals, Sequences, FiniteSets, SequencesExt

CONSTANTS
    UserId,     \* allocations of struct userlist with its struct auser
    Nick,       \* nick names, equal up to case
    NoNick,     \* stands for the nick of memory that is not allocated
    Channel,    \* channel names, equal up to case
    FirstNick,  \* botinfo->nick, what AddServer gives the entry
    AltNick,    \* botinfo->altnick
    Configured, \* the CHANNELS line of the configuration file
    MaxLinks,   \* bound: nodes on one channel's user list
    MaxConf,    \* bound: entries of one channel in conf_channels, then counted no further
    MaxNames    \* bound: nicks in one 353 reply

ASSUME ConstantsAssumption ==
    /\ NoNick \notin Nick
    /\ FirstNick \in Nick
    /\ AltNick \in Nick
    /\ Configured \subseteq Channel
    /\ MaxLinks \in Nat
    /\ MaxConf \in Nat \ {0}
    /\ MaxNames \in Nat

VARIABLES
    me,         \* server->nick, the nick the bot believes it has
    conf,       \* how often conf_channels lists each channel
    ulist,      \* server->ulist, in list order
    nick,       \* userinfo->nick of each allocation
    recent,     \* users whose lastmsg is at most 30 seconds old
    clist,      \* names on server->clist
    members,    \* channel->users, in list order
    chans,      \* userinfo->channels, in list order
    frame,      \* the loop that is running, or what became of the process
    sent        \* what the step wrote to the server socket

vars == <<me, conf, ulist, nick, recent, clist, members, chans, frame, sent>>

users   == <<ulist, nick, recent>>
links   == <<clist, members, chans>>

-----------------------------------------------------------------------------
(* Control *)

Idle    == [op |-> "idle"]      \* back in the select loop
Crashed == [op |-> "crashed"]   \* a null pointer was followed

Frame ==
    {Idle, Crashed}
    \cup [op : {"command"}, user : UserId]
    \cup [op : {"quit"},    user : UserId]
    \cup [op : {"delchan"}, user : UserId, chan : Channel]
    \cup [op : {"names"},   chan : Channel, left : 0 .. MaxNames]
    \cup [op : {"reap"}]

Message ==
    [cmd : {"JOIN", "PART"}, chan : Channel] \cup [cmd : {"NICK"}, nick : Nick]

Silent == sent' = << >>

-----------------------------------------------------------------------------
(* Lookups *)

Live == {ulist[i] : i \in DOMAIN ulist}

\* GetUser and GetFromChannel return the first node with the nick.
FirstNamed(s, i, n) ==
    /\ i \in DOMAIN s
    /\ nick[s[i]] = n
    /\ \A j \in DOMAIN s : j < i => nick[s[j]] # n

NoneNamed(s, n) == \A i \in DOMAIN s : nick[s[i]] # n

FirstAt(s, i, x) ==
    /\ i \in DOMAIN s
    /\ s[i] = x
    /\ \A j \in DOMAIN s : j < i => s[j] # x

Absent(s, x) == \A i \in DOMAIN s : s[i] # x

\* GetChannel(name, server) == NULL is c \notin clist: AddChannel only runs
\* when the lookup fails, so the names on the list are distinct.
NodesOf(c) == IF c \in clist THEN members[c] ELSE << >>

-----------------------------------------------------------------------------
(* conf_channels, the list of list.c *)

insert_channels(c) == conf' = [conf EXCEPT ![c] = IF @ < MaxConf THEN @ + 1 ELSE @]

\* The first entry of the name goes, others stay.
delete_channel(c) == conf' = [conf EXCEPT ![c] = IF @ > 0 THEN @ - 1 ELSE @]

-----------------------------------------------------------------------------
(* Operations of tracking.c *)

\* Wrong on purpose: the user's own list is forgotten.
LinkOneWay(u, own, c) ==
    /\ Len(NodesOf(c)) < MaxLinks
    /\ clist' = clist \cup {c}
    /\ members' = [members EXCEPT ![c] = Append(NodesOf(c), u)]
    /\ UNCHANGED chans

\* LinkUserToChannel: no test whether u is already linked to c.
LinkUserToChannel(u, own, c) ==
    /\ Len(NodesOf(c)) < MaxLinks
    /\ clist' = clist \cup {c}
    /\ members' = [members EXCEPT ![c] = Append(NodesOf(c), u)]
    /\ chans' = [chans EXCEPT ![u] = Append(own, c)]

\* The creation branch of UpdateUser.
CreateUser(u, n) ==
    /\ u \in UserId \ Live
    /\ ulist' = Append(ulist, u)
    /\ nick' = [nick EXCEPT ![u] = n]
    /\ recent' = recent \cup {u}

\* Wrong on purpose: GetUser is not asked first.
AddUnseen(n, c) ==
    \/ /\ n = me
       /\ UNCHANGED <<users, links>>
    \/ \E u \in UserId :
          /\ n # me
          /\ CreateUser(u, n)
          /\ LinkUserToChannel(u, << >>, c)

AddUserToChannel(n, c) ==
    \/ /\ n = me
       /\ UNCHANGED <<users, links>>
    \/ \E i \in DOMAIN ulist :
          /\ n # me
          /\ FirstNamed(ulist, i, n)
          /\ LinkUserToChannel(ulist[i], chans[ulist[i]], c)
          /\ UNCHANGED users
    \/ \E u \in UserId :
          /\ n # me
          /\ NoneNamed(ulist, n)
          /\ CreateUser(u, n)
          /\ LinkUserToChannel(u, << >>, c)

\* Wrong on purpose: nothing is unlinked.
DelNothing(n, c, next) ==
    /\ UNCHANGED <<members, chans>>
    /\ frame' = next

\* DelUserFromChannel, then control goes on at `next'.  It unlinks the node
\* of the channel's first member called n and then looks n up again in the
\* server's list; the user found there may lack the channel, and then the
\* second UnlinkListItem follows the null pointer its search loop ended on.
DelUserFromChannel(n, c, next) ==
    \/ /\ n = me \/ c \notin clist \/ NoneNamed(members[c], n)
       /\ UNCHANGED <<members, chans>>
       /\ frame' = next
    \/ \E i \in DOMAIN members[c], k \in DOMAIN ulist :
          /\ n # me
          /\ c \in clist
          /\ FirstNamed(members[c], i, n)
          /\ FirstNamed(ulist, k, n)
          /\ members' = [members EXCEPT ![c] = RemoveAt(members[c], i)]
          /\ \/ \E j \in DOMAIN chans[ulist[k]] :
                   /\ FirstAt(chans[ulist[k]], j, c)
                   /\ chans' = [chans EXCEPT
                                   ![ulist[k]] = RemoveAt(chans[ulist[k]], j)]
                   /\ frame' = next
             \/ /\ Absent(chans[ulist[k]], c)
                /\ UNCHANGED chans
                /\ frame' = Crashed
    \/ \E i \in DOMAIN members[c] :
          /\ n # me
          /\ c \in clist
          /\ FirstNamed(members[c], i, n)
          /\ NoneNamed(ulist, n)
          /\ members' = [members EXCEPT ![c] = RemoveAt(members[c], i)]
          /\ UNCHANGED chans
          /\ frame' = Crashed

\* RenameUser neither follows a change of the bot's own nick nor looks whether
\* the new nick is already on the list.
RenameUser(n, new) ==
    \/ /\ new = me \/ NoneNamed(ulist, n)
       /\ UNCHANGED nick
    \/ \E i \in DOMAIN ulist :
          /\ new # me
          /\ FirstNamed(ulist, i, n)
          /\ nick' = [nick EXCEPT ![ulist[i]] = new]

DelUser(u) ==
    /\ \E i \in DOMAIN ulist :
          /\ FirstAt(ulist, i, u)
          /\ ulist' = RemoveAt(ulist, i)
    /\ nick' = [nick EXCEPT ![u] = NoNick]
    /\ recent' = recent \ {u}

-----------------------------------------------------------------------------
(* Server messages *)

\* Wrong on purpose: only channels that are tracked already gain users.
JoinTrackedOnly(n, c) ==
    /\ frame = Idle
    /\ IF c \in clist THEN AddUserToChannel(n, c) ELSE UNCHANGED <<users, links>>
    /\ Silent
    /\ UNCHANGED <<me, conf, frame>>

\* JOIN, from a server that has put n on c.
sm_join(n, c) ==
    /\ frame = Idle
    /\ AddUserToChannel(n, c)
    /\ Silent
    /\ UNCHANGED <<me, conf, frame>>

\* Wrong on purpose: a PART is not followed.
PartUnheard(n, c) ==
    /\ frame = Idle
    /\ Silent
    /\ UNCHANGED <<me, conf, users, links, frame>>

\* PART: the bot's own is ignored, any other is taken off the channel.
sm_part(n, c) ==
    /\ frame = Idle
    /\ DelUserFromChannel(n, c, Idle)
    /\ Silent
    /\ UNCHANGED <<me, conf, users, clist>>

\* Wrong on purpose: a kicked bot stays away.
KickAccepted(n, c) ==
    /\ frame = Idle
    /\ DelUserFromChannel(n, c, Idle)
    /\ Silent
    /\ UNCHANGED <<me, conf, users, clist>>

\* KICK: a kicked bot asks to be let back in and keeps its lists.
sm_kick(n, c) ==
    /\ frame = Idle
    /\ DelUserFromChannel(n, c, Idle)
    /\ sent' = IF n = me THEN <<[cmd |-> "JOIN", chan |-> c]>> ELSE << >>
    /\ UNCHANGED <<me, conf, users, clist>>

\* QUIT: QuitUser finds the user; QuitStep is one turn of its loop.
sm_quit(n) ==
    /\ frame = Idle
    /\ \/ NoneNamed(ulist, n) /\ UNCHANGED frame
       \/ \E i \in DOMAIN ulist :
             /\ FirstNamed(ulist, i, n)
             /\ frame' = [op |-> "quit", user |-> ulist[i]]
    /\ Silent
    /\ UNCHANGED <<me, conf, users, links>>

\* Wrong on purpose: the user goes and leaves its nodes on the channels.
QuitAtOnce ==
    /\ frame.op = "quit"
    /\ DelUser(frame.user)
    /\ frame' = Idle
    /\ Silent
    /\ UNCHANGED <<me, conf, links>>

QuitStep ==
    /\ frame.op = "quit"
    /\ LET u == frame.user IN
       \/ /\ chans[u] # << >>
          /\ DelUserFromChannel(nick[u], Head(chans[u]), frame)
          /\ UNCHANGED <<users, clist>>
       \/ /\ chans[u] = << >>
          /\ DelUser(u)
          /\ frame' = Idle
          /\ UNCHANGED links
    /\ Silent
    /\ UNCHANGED <<me, conf>>

\* NICK: what changes is RenameUser's affair.
sm_nick(n, new) ==
    /\ frame = Idle
    /\ RenameUser(n, new)
    /\ Silent
    /\ UNCHANGED <<me, conf, ulist, recent, links, frame>>

\* PRIVMSG and NOTICE.  A message that is no command ends in Idle; one that
\* handle_command runs for its sender goes on in the "command" frame.
sm_privmsg(n) ==
    /\ frame = Idle
    /\ \/ /\ n = me
          /\ UNCHANGED <<users, frame>>
       \/ \E i \in DOMAIN ulist :
             /\ n # me
             /\ FirstNamed(ulist, i, n)
             /\ recent' = recent \cup {ulist[i]}
             /\ frame' \in {Idle, [op |-> "command", user |-> ulist[i]]}
             /\ UNCHANGED <<ulist, nick>>
       \/ \E u \in UserId :
             /\ n # me
             /\ NoneNamed(ulist, n)
             /\ CreateUser(u, n)
             /\ frame' \in {Idle, [op |-> "command", user |-> u]}
    /\ Silent
    /\ UNCHANGED <<me, conf, links>>

-----------------------------------------------------------------------------
(* Numerics *)

\* 353 lists who is on c; each turn of the do loop adds one of the nicks.
get_users_from_chan(c) ==
    /\ frame = Idle
    /\ frame' = [op |-> "names", chan |-> c, left |-> MaxNames]
    /\ Silent
    /\ UNCHANGED <<me, conf, users, links>>

NamesStep(n) ==
    /\ frame.op = "names"
    /\ frame.left > 0
    /\ AddUserToChannel(n, frame.chan)
    /\ frame' = [frame EXCEPT !.left = @ - 1]
    /\ Silent
    /\ UNCHANGED <<me, conf>>

NamesEnd ==
    /\ frame.op = "names"
    /\ frame.left < MaxNames
    /\ frame' = Idle
    /\ Silent
    /\ UNCHANGED <<me, conf, users, links>>

\* 302 answers the USERHOST that SetAccess sent.  UpdateUser returns NULL for
\* the bot's own nick and UpdateAccess dereferences what it is given.  (The
\* empty reply about a nick nobody bears any more is in Access.)
numeric_userhost(n) ==
    /\ frame = Idle
    /\ \/ /\ n = me
          /\ frame' = Crashed
          /\ UNCHANGED users
       \/ /\ n # me
          /\ \E i \in DOMAIN ulist : FirstNamed(ulist, i, n)
          /\ UNCHANGED <<users, frame>>
       \/ \E u \in UserId :
             /\ n # me
             /\ NoneNamed(ulist, n)
             /\ CreateUser(u, n)
             /\ UNCHANGED frame
    /\ Silent
    /\ UNCHANGED <<me, conf, links>>

\* Wrong on purpose: the server is told, the bot's own record is not.
NickinuseUnnoted ==
    /\ frame = Idle
    /\ sent' = IF me = AltNick THEN << >>
                               ELSE <<[cmd |-> "NICK", nick |-> AltNick]>>
    /\ UNCHANGED <<me, conf, users, links, frame>>

\* 433.  With the alternate nick refused too the bot drops the connection;
\* this entry and its lists stay, and GetServerBySocket finds them again
\* after the next connect.
numeric_nickinuse ==
    /\ frame = Idle
    /\ me' = AltNick
    /\ sent' = IF me = AltNick THEN << >>
                               ELSE <<[cmd |-> "NICK", nick |-> AltNick]>>
    /\ UNCHANGED <<conf, users, links, frame>>

-----------------------------------------------------------------------------
(* User commands, run from inside sm_privmsg *)

\* EnterChannel notes the channel in conf_channels without looking whether it
\* is there, and asks the server; the JOIN that answers tracks nothing, the
\* 353 that follows it does.
msg_join(c) ==
    /\ frame.op = "command"
    /\ frame' = Idle
    /\ \/ c \in clist /\ Silent /\ UNCHANGED conf
       \/ /\ c \notin clist
          /\ insert_channels(c)
          /\ sent' = <<[cmd |-> "JOIN", chan |-> c]>>
    /\ UNCHANGED <<me, users, links>>

\* Wrong on purpose: the server is not told.
PartUnsaid(c) ==
    /\ frame.op = "command"
    /\ \/ c \notin clist /\ frame' = Idle /\ UNCHANGED conf
       \/ /\ c \in clist
          /\ delete_channel(c)
          /\ frame' = [op |-> "delchan", user |-> frame.user, chan |-> c]
    /\ Silent
    /\ UNCHANGED <<me, users, links>>

\* ExitChannel sends PART, strikes one entry off conf_channels and drops the
\* channel without waiting for the server; DelChannelStep is one turn of the
\* loop in DelChannel.  The sender's record is needed after it, to reply.
msg_part(c) ==
    /\ frame.op = "command"
    /\ \/ /\ c \notin clist
          /\ frame' = Idle
          /\ Silent
          /\ UNCHANGED conf
       \/ /\ c \in clist
          /\ delete_channel(c)
          /\ frame' = [op |-> "delchan", user |-> frame.user, chan |-> c]
          /\ sent' = <<[cmd |-> "PART", chan |-> c]>>
    /\ UNCHANGED <<me, users, links>>

DelChannelStep ==
    /\ frame.op = "delchan"
    /\ LET c == frame.chan IN
       \/ /\ members[c] # << >>
          /\ DelUserFromChannel(nick[Head(members[c])], c, frame)
          /\ UNCHANGED clist
       \/ /\ members[c] = << >>
          /\ clist' = clist \ {c}
          /\ frame' = Idle
          /\ UNCHANGED <<members, chans>>
    /\ Silent
    /\ UNCHANGED <<me, conf, users>>

\* The bot takes the new nick for its own before the server has agreed.
msg_nick(n) ==
    /\ frame.op = "command"
    /\ frame' = Idle
    /\ me' = n
    /\ sent' = <<[cmd |-> "NICK", nick |-> n]>>
    /\ UNCHANGED <<conf, users, links>>

-----------------------------------------------------------------------------
(* The main loop *)

\* A known user (access >= 0) is tested for 300 idle seconds and, that test
\* failing, for 30 like any other: 30 seconds decide for everybody.
Reapable(u) == chans[u] = << >> /\ u \notin recent

ReapUserList ==
    /\ frame = Idle
    /\ \E u \in Live : Reapable(u)
    /\ frame' = [op |-> "reap"]
    /\ Silent
    /\ UNCHANGED <<me, conf, users, links>>

ReapStep ==
    /\ frame.op = "reap"
    /\ \/ \E u \in Live : Reapable(u) /\ DelUser(u) /\ UNCHANGED frame
       \/ /\ \A u \in Live : ~Reapable(u)
          /\ frame' = Idle
          /\ UNCHANGED users
    /\ Silent
    /\ UNCHANGED <<me, conf, links>>

\* Thirty seconds have passed since u's last message.
GrowOld(u) ==
    /\ frame = Idle
    /\ recent' = recent \ {u}
    /\ Silent
    /\ UNCHANGED <<me, conf, ulist, nick, links, frame>>

-----------------------------------------------------------------------------
Init ==
    /\ me = FirstNick
    /\ conf = [c \in Channel |-> IF c \in Configured THEN 1 ELSE 0]
    /\ ulist = << >>
    /\ nick = [u \in UserId |-> NoNick]
    /\ recent = {}
    /\ clist = {}
    /\ members = [c \in Channel |-> << >>]
    /\ chans = [u \in UserId |-> << >>]
    /\ frame = Idle
    /\ sent = << >>

\* The select loop starts a handler.
Dispatch ==
    \/ \E n \in Nick, c \in Channel : sm_join(n, c)
    \/ \E n \in Nick, c \in Channel : sm_part(n, c)
    \/ \E n \in Nick, c \in Channel : sm_kick(n, c)
    \/ \E n \in Nick : sm_quit(n)
    \/ \E n \in Nick : sm_privmsg(n)
    \/ \E c \in Channel : get_users_from_chan(c)
    \/ ReapUserList
    \/ \E u \in UserId : GrowOld(u)

\* A handler that has begun goes on: nothing else can run until it is done.
Continue ==
    \/ \E c \in Channel : msg_join(c)
    \/ \E c \in Channel : msg_part(c)
    \/ QuitStep
    \/ DelChannelStep
    \/ ReapStep
    \/ \E n \in Nick : NamesStep(n)
    \/ NamesEnd

Next ==
    \/ Dispatch
    \/ Continue
    \/ \E n, new \in Nick : sm_nick(n, new)
    \/ \E n \in Nick : numeric_userhost(n)
    \/ \E n \in Nick : msg_nick(n)
    \/ numeric_nickinuse

\* No tracked user bears the nick n.
Unclaimed(n) == NoneNamed(ulist, n)

\* Next where nicks never collide: nobody, the bot included, takes a nick
\* that the bot still has on its list, and no USERHOST reply is about the
\* bot itself.  Servers do not guarantee it (see the README).
CalmNext ==
    \/ Dispatch
    \/ Continue
    \/ \E n, new \in Nick : Unclaimed(new) /\ sm_nick(n, new)
    \/ \E n \in Nick : n # me /\ numeric_userhost(n)
    \/ \E n \in Nick : Unclaimed(n) /\ msg_nick(n)
    \/ Unclaimed(AltNick) /\ numeric_nickinuse

Spec == Init /\ [][Next]_vars
CalmSpec == Init /\ [][CalmNext]_vars

\* The process is single threaded and runs the handler it is in.
CalmLiveSpec == CalmSpec /\ WF_vars(Continue)

-----------------------------------------------------------------------------
(* Properties *)

\* Type correctness of the lists, the frame and what is sent: msg_nick and
\* numeric_nickinuse always leave the entry a nick.
TypeOK ==
    /\ me \in Nick
    /\ conf \in [Channel -> Nat]
    /\ ulist \in Seq(UserId)
    /\ nick \in [UserId -> Nick \cup {NoNick}]
    /\ recent \subseteq UserId
    /\ clist \subseteq Channel
    /\ members \in [Channel -> Seq(UserId)]
    /\ chans \in [UserId -> Seq(Channel)]
    /\ frame \in Frame
    /\ sent \in Seq(Message)

\* How often x occurs in s.
Count(s, x) == Cardinality({i \in DOMAIN s : s[i] = x})

\* GetUser finds the one record a nick has: two records with one nick would
\* let the handlers unlink one user's node and free the other's.
NickUnique ==
    \A i, j \in DOMAIN ulist : nick[ulist[i]] = nick[ulist[j]] => i = j

\* Each membership is kept twice, as a node of channel->users and as a node
\* of user->channels; DelUserFromChannel relies on finding both.
LinksAgree ==
    \A u \in UserId, c \in Channel : Count(members[c], u) = Count(chans[u], c)

\* No list leads to memory that FreeUser or FreeChannel has released.
NoDangling ==
    /\ \A c \in clist : ToSet(members[c]) \subseteq Live
    /\ \A u \in Live : ToSet(chans[u]) \subseteq clist

\* The record a handler found before a loop is still on the list while the
\* loop runs and when it has ended: QuitUser and msg_part keep a pointer to
\* it over their calls of DelUserFromChannel.
HeldUserLive == frame.op \in {"command", "quit", "delchan"} => frame.user \in Live

\* No handler follows a null pointer.
NoCrash == frame # Crashed

\* "we don't want to track ourself"
SelfUntracked == \A u \in Live : nick[u] # me

\* What has been taken off a list is empty: the lists are only shortened when
\* nothing hangs from the node any more.
Released ==
    /\ \A c \in Channel \ clist : members[c] = << >>
    /\ \A u \in UserId \ Live : chans[u] = << >>

\* The channel whose members DelChannel removes stays on the list meanwhile.
HeldChannelTracked == frame.op = "delchan" => frame.chan \in clist

\* The inductive invariant of CalmSpec.
IInv ==
    /\ TypeOK
    /\ NickUnique
    /\ LinksAgree
    /\ Released
    /\ SelfUntracked
    /\ HeldUserLive
    /\ HeldChannelTracked
    /\ NoCrash

\* Whom QuitUser is taking off his channels, and which channel DelChannel is
\* emptying: to whoever asks later, they are gone from the loop's first turn on.
Leaving == IF frame.op = "quit" THEN {nick[frame.user]} ELSE {}
Closing == IF frame.op = "delchan" THEN {frame.chan} ELSE {}

Names == {nick[u] : u \in Live}

\* How often c lists somebody called n.
Often(c, n) == Cardinality({i \in DOMAIN members[c] : nick[members[c][i]] = n})

Listings ==
    [c \in Channel |-> [n \in Nick |->
        IF c \in Closing \/ n \in Leaving THEN 0 ELSE Often(c, n)]]

\* While nicks do not collide, the lists, walked and cut by their loops, behave
\* like one table of who is how often where: every handler changes the entries of
\* one user or of one channel, as the message says, and no others.
M == INSTANCE Membership WITH
        known <- Names \ Leaving,
        open <- clist \ Closing,
        who <- Listings

MembershipSpec == M!Spec

\* What a message does to the table when it says something new, else nothing.
Makes(new, event) == IF new THEN event ELSE UNCHANGED M!vars

\* Each handler does with the table what its message says of whom it names, no
\* less and no more; the loops are done with it on their first turn.
AsTold ==
    /\ \A n \in Nick, c \in Channel :
         /\ sm_join(n, c) => Makes(n # me, M!Come(n, c))
         /\ sm_part(n, c) \/ sm_kick(n, c) => Makes(Listings[c][n] > 0, M!Leave(n, c))
    /\ \A n \in Nick :
         /\ sm_quit(n) => Makes(n \in Names, M!Quit(n))
         /\ sm_privmsg(n) \/ numeric_userhost(n) => Makes(n # me /\ n \notin Names, M!Meet(n))
         /\ NamesStep(n) => Makes(n # me, M!Come(n, frame.chan))
    /\ \A n, new \in Nick :
         Unclaimed(new) /\ sm_nick(n, new) => Makes(n \in Names /\ new # me, M!Rename(n, new))
    /\ \A c \in Channel : msg_part(c) => Makes(c \in clist, M!Close(c))
    /\ QuitStep \/ DelChannelStep => UNCHANGED M!vars
    /\ ReapStep => UNCHANGED M!vars \/ \E n \in Nick : M!Forget(n)

HandlersAsTold == [][AsTold]_vars

\* Every handler returns to the select loop.
HandlersReturn == frame # Idle ~> frame = Idle

=============================================================================
