------------------------------ MODULE Session -------------------------------
(***************************************************************************)
(* One connection between the bot and an IRC server: the handlers of       *)
(* Tracking driven by the messages a server really sends, in the order in  *)
(* which it sends them, against who really is on which channel.            *)
(*                                                                         *)
(* The server is not part of this repository.  It is modelled from what    *)
(* the handlers of src/src/srvcommands.c and src/src/numeric.c expect of   *)
(* it: it tells the bot what happens on the channels the bot is on, it     *)
(* answers JOIN with the bot's own JOIN and a 353 listing, and it answers  *)
(* NICK with the change or with 433.  Both directions are ordered byte     *)
(* streams, and what is under way in one crosses what is under way in the  *)
(* other.                                                                  *)
(***************************************************************************)
EXTENDS Tracking

CONSTANTS
    Settings,   \* what may happen: one of them is chosen at the start
    UnseenReuse,\* may clients take the bot's alternate nick, or a nick by which
                \* the bot still knows someone else?
    MaxQueue    \* bound: messages under way in one direction

\* people: nicks of clients other than the bot at the start; asks: what users may
\* ask of the bot; kicks: may an operator kick the bot?  breaks: may the
\* connection break and be made again?  events: how much may happen, a bound.
Setting ==
    [people : SUBSET (Nick \ {FirstNick}), asks : SUBSET {"join", "part", "nick"},
     kicks : BOOLEAN, breaks : BOOLEAN, events : Nat]

ASSUME SessionAssumption ==
    /\ \A s \in Settings : s \in Setting
    /\ UnseenReuse \in BOOLEAN
    /\ MaxQueue \in Nat
    /\ IsFiniteSet(Nick) /\ IsFiniteSet(Channel)
    /\ MaxNames > Cardinality(Nick)

VARIABLES
    setting,    \* what may happen in this session
    online,     \* nicks in use on the server
    srvnick,    \* the bot's nick on the server
    on,         \* who is on each channel, on the server
    toBot,      \* messages under way to the bot
    toServer,   \* messages under way to the server
    msg,        \* the message the bot is handling
    up,         \* IsConnected
    events      \* how many events clients have caused

NoMsg == [cmd |-> "none"]

server == <<setting, online, srvnick, on>>
svars == <<vars, server, toBot, toServer, msg, up, events>>

BotOn(c) == srvnick \in on[c]

\* The bot hears of what n does exactly when they share a channel.
Seen(n) == \E c \in Channel : BotOn(c) /\ n \in on[c]

Room == Len(toBot) < MaxQueue /\ Len(toServer) < MaxQueue

-----------------------------------------------------------------------------
(* The other clients *)

Event ==
    /\ Room
    /\ events < setting.events
    /\ events' = events + 1
    /\ UNCHANGED <<vars, setting, srvnick, toServer, msg, up>>

Tell(heard, m) == toBot' = IF heard THEN Append(toBot, m) ELSE toBot

UserJoin(n, c) ==
    /\ Event
    /\ n \in online \ (on[c] \cup {srvnick})
    /\ on' = [on EXCEPT ![c] = @ \cup {n}]
    /\ Tell(BotOn(c), [cmd |-> "JOIN", nick |-> n, chan |-> c])
    /\ UNCHANGED online

UserPart(n, c) ==
    /\ Event
    /\ n \in on[c] \ {srvnick}
    /\ on' = [on EXCEPT ![c] = @ \ {n}]
    /\ Tell(BotOn(c), [cmd |-> "PART", nick |-> n, chan |-> c])
    /\ UNCHANGED online

UserQuit(n) ==
    /\ Event
    /\ n \in online \ {srvnick}
    /\ online' = online \ {n}
    /\ on' = [c \in Channel |-> on[c] \ {n}]
    /\ Tell(Seen(n), [cmd |-> "QUIT", nick |-> n])

Kick(n, c) ==
    /\ Event
    /\ n \in on[c]
    /\ setting.kicks \/ n # srvnick
    /\ on' = [on EXCEPT ![c] = @ \ {n}]
    /\ Tell(BotOn(c), [cmd |-> "KICK", nick |-> n, chan |-> c])
    /\ UNCHANGED online

\* The bot's list and the messages it has yet to read do not hold the nick.
Forgotten(n) ==
    /\ Unclaimed(n)
    /\ n # me
    /\ \A i \in DOMAIN toBot :
          /\ toBot[i].cmd # "353" => toBot[i].nick # n
          /\ toBot[i].cmd = "353" => n \notin toBot[i].names
          /\ toBot[i].cmd = "NICK" => toBot[i].new # n
    /\ msg.cmd = "353" => n \notin msg.names

UserNick(n, new) ==
    /\ Event
    /\ n \in online \ {srvnick}
    /\ new \notin online
    /\ UnseenReuse \/ (Forgotten(new) /\ new # AltNick)
    /\ online' = (online \ {n}) \cup {new}
    /\ on' = [c \in Channel |-> IF n \in on[c] THEN (on[c] \ {n}) \cup {new} ELSE on[c]]
    /\ Tell(Seen(n), [cmd |-> "NICK", nick |-> n, new |-> new])

\* A user the bot takes commands from asks for something.
Ask(n, what) ==
    /\ Event
    /\ n \in online \ {srvnick}
    /\ what.ask \in setting.asks
    /\ what.ask = "nick" /\ ~UnseenReuse => what.nick \notin online /\ Forgotten(what.nick)
    /\ toBot' = Append(toBot, [cmd |-> "PRIVMSG", nick |-> n, what |-> what])
    /\ UNCHANGED <<online, on>>

Request ==
    [ask : {"join", "part"}, chan : Channel] \cup [ask : {"nick"}, nick : Nick]

Clients ==
    \/ \E n \in Nick, c \in Channel : UserJoin(n, c)
    \/ \E n \in Nick, c \in Channel : UserPart(n, c)
    \/ \E n \in Nick : UserQuit(n)
    \/ \E n \in Nick, c \in Channel : Kick(n, c)
    \/ \E n, new \in Nick : UserNick(n, new)
    \/ \E n \in Nick, what \in Request : Ask(n, what)

-----------------------------------------------------------------------------
(* The server acts on what the bot has sent *)

Serve ==
    /\ toServer # << >>
    /\ Len(toBot) < MaxQueue
    /\ toServer' = Tail(toServer)
    /\ UNCHANGED <<vars, setting, msg, up, events>>

ServeJoin ==
    /\ Serve
    /\ Head(toServer).cmd = "JOIN"
    /\ LET c == Head(toServer).chan IN
       /\ on' = [on EXCEPT ![c] = @ \cup {srvnick}]
       /\ toBot' = IF BotOn(c) THEN toBot
                   ELSE toBot \o <<[cmd |-> "JOIN", nick |-> srvnick, chan |-> c],
                                   [cmd |-> "353", chan |-> c, names |-> on'[c]]>>
    /\ UNCHANGED <<online, srvnick>>

ServePart ==
    /\ Serve
    /\ Head(toServer).cmd = "PART"
    /\ LET c == Head(toServer).chan IN
       /\ on' = [on EXCEPT ![c] = @ \ {srvnick}]
       /\ Tell(BotOn(c), [cmd |-> "PART", nick |-> srvnick, chan |-> c])
    /\ UNCHANGED <<online, srvnick>>

ServeNick ==
    /\ Serve
    /\ Head(toServer).cmd = "NICK"
    /\ LET new == Head(toServer).nick IN
       IF new \in online \ {srvnick}
         THEN /\ toBot' = Append(toBot, [cmd |-> "433", nick |-> new])
              /\ UNCHANGED <<online, srvnick, on>>
         ELSE /\ srvnick' = new
              /\ online' = (online \ {srvnick}) \cup {new}
              /\ on' = [c \in Channel |-> IF BotOn(c)
                                            THEN (on[c] \ {srvnick}) \cup {new}
                                            ELSE on[c]]
              /\ Tell(new # srvnick, [cmd |-> "NICK", nick |-> srvnick, new |-> new])

-----------------------------------------------------------------------------
(* The connection *)

join_channels ==
    SetToSeq({[cmd |-> "JOIN", chan |-> c] : c \in {d \in Channel : conf[d] > 0}})

\* Wrong on purpose: the channels of the old connection are dropped, the users
\* that are on them keep theirs.
ReconnectHalfCleared ==
    /\ setting.breaks
    /\ frame = Idle
    /\ me \notin online \ {srvnick}
    /\ events < setting.events
    /\ events' = events + 1
    /\ srvnick' = me
    /\ online' = (online \ {srvnick}) \cup {me}
    /\ on' = [c \in Channel |-> on[c] \ {srvnick}]
    /\ toBot' = << >>
    /\ toServer' = << >>
    /\ up' = TRUE
    /\ clist' = {}
    /\ members' = [c \in Channel |-> << >>]
    /\ UNCHANGED <<me, conf, users, chans, frame, sent, setting, msg>>

\* The connection breaks, losing what is under way, and CheckMissing makes a
\* new one on the same socket slot.  The bot registers with server->nick and
\* complete_connect joins conf_channels.  The lists stay: GetServerBySocket
\* returns the first entry with the socket, the one of the old connection.
\* The case that the nick is refused on the way in is left out.
Reconnect ==
    /\ setting.breaks
    /\ frame = Idle
    /\ me \notin online \ {srvnick}
    /\ events < setting.events
    /\ events' = events + 1
    /\ srvnick' = me
    /\ online' = (online \ {srvnick}) \cup {me}
    /\ on' = [c \in Channel |-> on[c] \ {srvnick}]
    /\ toBot' = << >>
    /\ toServer' = join_channels
    /\ up' = TRUE
    /\ UNCHANGED <<vars, setting, msg>>

-----------------------------------------------------------------------------
(* The bot *)

\* The select loop has read a line: handle_server_command and handle_numeric
\* pick the handler, which keeps the line as long as it runs.  When both its
\* nicks are refused the bot drops the connection.
Receive ==
    /\ up
    /\ toBot # << >>
    /\ toBot' = Tail(toBot)
    /\ LET m == Head(toBot) IN
       /\ \/ m.cmd = "JOIN"    /\ sm_join(m.nick, m.chan)
          \/ m.cmd = "PART"    /\ sm_part(m.nick, m.chan)
          \/ m.cmd = "KICK"    /\ sm_kick(m.nick, m.chan)
          \/ m.cmd = "QUIT"    /\ sm_quit(m.nick)
          \/ m.cmd = "NICK"    /\ sm_nick(m.nick, m.new)
          \/ m.cmd = "PRIVMSG" /\ sm_privmsg(m.nick)
          \/ m.cmd = "353"     /\ get_users_from_chan(m.chan)
          \/ m.cmd = "433"     /\ numeric_nickinuse
       /\ msg' = IF frame' = Idle THEN NoMsg ELSE m
       /\ up' = ~(m.cmd = "433" /\ me = AltNick)

\* The handler goes on with the words of the line it was called for.
Handle ==
    /\ UNCHANGED <<toBot, up>>
    /\ \/ msg.cmd = "PRIVMSG" /\ msg.what.ask = "join" /\ msg_join(msg.what.chan)
       \/ msg.cmd = "PRIVMSG" /\ msg.what.ask = "part" /\ msg_part(msg.what.chan)
       \/ msg.cmd = "PRIVMSG" /\ msg.what.ask = "nick" /\ msg_nick(msg.what.nick)
       \/ msg.cmd = "353" /\ msg.names = {} /\ NamesEnd
       \/ QuitStep
       \/ DelChannelStep
    /\ msg' = IF frame' = Idle THEN NoMsg ELSE msg

\* get_users_from_chan takes the next nick of the list.
HandleName(n) ==
    /\ msg.cmd = "353"
    /\ n \in msg.names
    /\ NamesStep(n)
    /\ msg' = [msg EXCEPT !.names = @ \ {n}]
    /\ UNCHANGED <<toBot, up>>

Housekeeping ==
    /\ UNCHANGED <<toBot, msg, up>>
    /\ \/ ReapUserList
       \/ ReapStep
       \/ \E u \in UserId : GrowOld(u)

Bot ==
    /\ \/ Receive
       \/ Handle
       \/ \E n \in Nick : HandleName(n)
       \/ Housekeeping
    /\ toServer' = toServer \o sent'
    /\ UNCHANGED <<server, events>>

-----------------------------------------------------------------------------
\* The bot has registered and asked for the channels of its configuration.
SessionInit ==
    /\ Init
    /\ setting \in Settings
    /\ online = setting.people \cup {FirstNick}
    /\ srvnick = FirstNick
    /\ on \in [Channel -> SUBSET setting.people]
    /\ toBot = << >>
    /\ toServer = SetToSeq({[cmd |-> "JOIN", chan |-> c] : c \in Configured})
    /\ msg = NoMsg
    /\ up = TRUE
    /\ events = 0

SessionNext ==
    \/ Clients
    \/ ServeJoin
    \/ ServePart
    \/ ServeNick
    \/ Reconnect
    \/ Bot

SessionSpec == SessionInit /\ [][SessionNext]_svars

-----------------------------------------------------------------------------
(* Properties *)

\* Nothing is under way, and the bot is back in the select loop.
Quiet == up /\ toBot = << >> /\ toServer = << >> /\ frame = Idle

Listed(c) == {nick[u] : u \in ToSet(members[c])}

\* Nothing but joins is asked of the bot.
JoinsOnly == setting.asks \subseteq {"join"}

\* Once the bot has heard everything, its list of a channel it is on shows
\* exactly the others there, each once, unless it has been kicked, has been away
\* or was told to part or to change its nick.
ListsAccurate ==
    Quiet /\ JoinsOnly /\ ~setting.kicks /\ ~setting.breaks =>
        \A c \in Channel : BotOn(c) =>
            /\ Listed(c) = on[c] \ {srvnick}
            /\ Len(members[c]) = Cardinality(on[c] \ {srvnick})

\* Once the bot has heard everything, nobody who shares a channel with it is
\* missing from its list, kicks, rejoins and reconnects notwithstanding.
NobodyMissing ==
    Quiet /\ JoinsOnly =>
        \A c \in Channel : BotOn(c) => on[c] \ {srvnick} \subseteq Listed(c)

\* "I'm in that channel already" is true when the bot says so: a tracked
\* channel is one the bot is on, as long as nobody tells it to part, and unless
\* it is kicked by a nick it no longer takes for its own.
ListedMeansOn ==
    Quiet /\ "part" \notin setting.asks /\ (setting.kicks => "nick" \notin setting.asks) =>
        \A c \in clist : BotOn(c)

\* The same where it may be: "did they kick me?" is asked with the nick of its list.
KicksNoticed ==
    Quiet /\ "part" \notin setting.asks => \A c \in clist : BotOn(c)

\* The same for a bot that may be told to part.
PartedMeansOff == Quiet => \A c \in clist : BotOn(c)

\* "I can't part a channel that I'm not in" is true when the bot says so: a
\* channel the bot is on is tracked.
OnMeansListed == Quiet => \A c \in Channel : BotOn(c) => c \in clist

\* A bot told to part a channel is not on it: it is only on channels of its
\* conf_channels list, unless it is kicked from one it was told to part, or
\* takes somebody else's KICK for its own.
OnlyWhereMeant ==
    Quiet /\ ("part" \in setting.asks => ~setting.kicks /\ "nick" \notin setting.asks) =>
        \A c \in Channel : BotOn(c) => conf[c] > 0

\* The same for a bot that may be kicked, or mistaken about its nick.
OnlyWhereTold == Quiet => \A c \in Channel : BotOn(c) => conf[c] > 0

\* Once everything is answered the bot knows what it is called.
KnowsOwnNick == Quiet => me = srvnick

\* As long as nobody asks for another nick, what the session does to the lists
\* is a behaviour of CalmSpec, which the proofs are about.
ListsAsProved == Init /\ [][ "nick" \in setting.asks \/ CalmNext ]_vars

\* "we don't want to track ourself": nobody on the bot's list bears the nick
\* under which the server knows the bot.
SelfUnlisted == \A u \in Live : nick[u] # srvnick

=============================================================================
