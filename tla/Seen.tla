-------------------------------- MODULE Seen --------------------------------
(***************************************************************************)
(* The seen module, src/dmodules/seen/seen.c: who is here, and where       *)
(* somebody was seen last.                                                 *)
(*                                                                         *)
(* The module keeps a list of its own, of nicks on channels, and a file    *)
(* for each nick that has gone.  It hears of the network by the events the *)
(* bot raises (src/src/srvcommands.c, src/src/numeric.c): JOIN and HERE    *)
(* add to the list, PART, QUIT and NICK write the file and take away.  A   *)
(* KICK is an event it has no trigger for, since the event does not carry  *)
(* who was kicked; and that the bot has left a channel, or lost its        *)
(* connection, is no event about the others there.                         *)
(*                                                                         *)
(* The server is external: it tells the bot of what happens on the         *)
(* channels the bot is on, in order, and the bot handles one message at a  *)
(* time.  The loops over the list are taken a turn a step.                 *)
(***************************************************************************)
EXTENDS Naturals, Sequences, FiniteSets, SequencesExt

CONSTANTS
    Nick,       \* nicks as people write them
    Lower,      \* their lower-case forms
    Fold,       \* the lower-case form of each
    Bot,        \* the bot's own nick
    Channel,
    Nothing,    \* no file; no channel, in the event of a QUIT
    MaxEvents   \* bound: things that happen on the network

ASSUME SeenAssumption ==
    /\ Fold \in [Nick -> Lower]
    /\ Bot \in Nick
    /\ Nothing \notin Channel
    /\ MaxEvents \in Nat

VARIABLES
    loaded,     \* the module is
    chusers,    \* seen_chusers: the nicks it takes for present, each with a channel
    file,       \* per lower-case nick: the channel its file names
    frame,      \* the loop that runs
    on,         \* who is on each channel, the bot included
    heard,      \* the channels whose names the bot was told while the module was there
    blind,      \* somebody has gone without an event about him
    gone,       \* per lower-case nick: where it was when the bot last saw it go
    events      \* how much has happened

vars == <<loaded, chusers, file, frame, on, heard, blind, gone, events>>
world == <<on, heard, blind, gone, events>>

Idle == [at |-> "idle"]

strcaseeq(a, b) == Fold[a] = Fold[b]

Entry == [nick : Nick, channel : Channel]

-----------------------------------------------------------------------------
(* The module *)

\* Wrong on purpose: the channel is not looked at.
FitsAnywhere(e, n, c) == strcaseeq(e.nick, n)

\* seen_find_inchannel: the first entry of the nick on the channel, or on any.
Fits(e, n, c) == strcaseeq(e.nick, n) /\ c \in {Nothing, e.channel}

Found(n, c) == {i \in DOMAIN chusers : Fits(chusers[i], n, c)}

FirstFound(n, c) == CHOOSE i \in Found(n, c) : \A j \in Found(n, c) : i <= j

\* seen_user_arrive: at the end of the list, unless it is there.
seen_user_arrive(n, c) ==
    IF Found(n, c) # {}
      THEN UNCHANGED chusers
      ELSE chusers' = Append(chusers, [nick |-> n, channel |-> c])

\* logseen: the file is written anew.
logseen(n, c) == file' = [file EXCEPT ![Fold[n]] = c]

\* seen_join, for a JOIN and for each nick of a 353.
seen_join(n, c) ==
    IF loaded THEN seen_user_arrive(n, c) ELSE UNCHANGED chusers

\* seen_leave, for a PART and, without a channel, for a QUIT.
seen_leave(n, c) ==
    frame' = IF loaded THEN [at |-> "leave", nick |-> n, channel |-> c] ELSE Idle

\* Wrong on purpose: one entry goes, and nobody looks for another.
LeaveOnce ==
    /\ frame.at = "leave"
    /\ IF Found(frame.nick, frame.channel) = {}
         THEN UNCHANGED <<chusers, file>>
         ELSE LET i == FirstFound(frame.nick, frame.channel) IN
              /\ logseen(frame.nick, chusers[i].channel)
              /\ chusers' = RemoveAt(chusers, i)
    /\ frame' = Idle
    /\ UNCHANGED <<loaded, world>>

\* Wrong on purpose: the entry goes and no file is written.
LeaveUnwritten ==
    /\ frame.at = "leave"
    /\ IF Found(frame.nick, frame.channel) = {}
         THEN frame' = Idle /\ UNCHANGED chusers
         ELSE LET i == FirstFound(frame.nick, frame.channel) IN
              /\ chusers' = RemoveAt(chusers, i)
              /\ UNCHANGED frame
    /\ UNCHANGED <<file, loaded, world>>

\* seen_user_leave: as long as there is an entry, its channel goes to the file
\* and the entry is unlinked and freed.
LeaveStep ==
    /\ frame.at = "leave"
    /\ IF Found(frame.nick, frame.channel) = {}
         THEN frame' = Idle /\ UNCHANGED <<chusers, file>>
         ELSE LET i == FirstFound(frame.nick, frame.channel) IN
              /\ logseen(frame.nick, chusers[i].channel)
              /\ chusers' = RemoveAt(chusers, i)
              /\ UNCHANGED frame
    /\ UNCHANGED <<loaded, world>>

\* Wrong on purpose: a change of case is a change.
seen_nick_any(n, new) ==
    frame' = IF loaded THEN [at |-> "rename", nick |-> n, new |-> new] ELSE Idle

\* seen_nick: "abort if the user only switched case".
seen_nick(n, new) ==
    frame' = IF loaded /\ ~strcaseeq(n, new)
               THEN [at |-> "rename", nick |-> n, new |-> new]
               ELSE Idle

\* seen_user_rename: as long as there is an entry of the old nick, its channel
\* goes to the old nick's file and the entry becomes the new nick's.
RenameStep ==
    /\ frame.at = "rename"
    /\ IF Found(frame.nick, Nothing) = {}
         THEN frame' = Idle /\ UNCHANGED <<chusers, file>>
         ELSE LET i == FirstFound(frame.nick, Nothing) IN
              /\ logseen(chusers[i].nick, chusers[i].channel)
              /\ chusers' = [chusers EXCEPT ![i].nick = frame.new]
              /\ UNCHANGED frame
    /\ UNCHANGED <<loaded, world>>

\* seen_cmd: what the bot answers on channel c to somebody who asks for n.
seen_cmd(n, c) ==
    CASE Found(n, c) # {} -> "is here"
      [] Found(n, c) = {} /\ file[Fold[n]] = Nothing -> "never met"
      [] Found(n, c) = {} /\ file[Fold[n]] # Nothing -> "last seen"

\* module_init registers the triggers; the files are still there.
module_init ==
    /\ frame = Idle
    /\ ~loaded
    /\ loaded' = TRUE
    /\ UNCHANGED <<chusers, file, frame, world>>

\* module_shutdown drops them, and clearmem the list.
module_shutdown ==
    /\ frame = Idle
    /\ loaded
    /\ loaded' = FALSE
    /\ chusers' = << >>
    /\ heard' = {}
    /\ blind' = FALSE
    /\ gone' = [l \in Lower |-> {}]
    /\ UNCHANGED <<file, frame, on, events>>

-----------------------------------------------------------------------------
(* The network, as the bot hears of it *)

Happens ==
    /\ frame = Idle
    /\ events < MaxEvents
    /\ events' = events + 1

BotOn(c) == Bot \in on[c]

\* What the others may be called: as long as the program runs nobody else gets
\* the bot's nick.
Free == {n \in Nick : ~strcaseeq(n, Bot)}

\* Channels the bot shares with n.
Shared(n) == {c \in Channel : n \in on[c] /\ BotOn(c)}

Unused(n) == \A c \in Channel : \A m \in on[c] : ~strcaseeq(n, m)

\* What the bot knows of n's going, if it watches all channels n goes from.
SeenGo(n, from) ==
    gone' = [gone EXCEPT ![Fold[n]] = IF from \subseteq heard THEN from ELSE {}]

\* Somebody joins.
Join(n, c) ==
    /\ Happens
    /\ n \in Free
    /\ \A m \in on[c] : ~strcaseeq(n, m)
    /\ \A d \in Channel : \A m \in on[d] : strcaseeq(n, m) => n = m
    /\ on' = [on EXCEPT ![c] = @ \cup {n}]
    /\ IF BotOn(c) THEN seen_join(n, c) ELSE UNCHANGED chusers
    /\ UNCHANGED <<loaded, file, frame, heard, blind, gone>>

\* The bot joins, and 353 lists who is there, the bot included.
BotJoin(c) ==
    /\ Happens
    /\ ~BotOn(c)
    /\ on' = [on EXCEPT ![c] = @ \cup {Bot}]
    /\ heard' = IF loaded THEN heard \cup {c} ELSE heard
    /\ frame' = [at |-> "names", names |-> on'[c], channel |-> c]
    /\ UNCHANGED <<loaded, chusers, file, blind, gone>>

\* get_users_from_chan raises HERE for the next name.
HereStep(n) ==
    /\ frame.at = "names"
    /\ n \in frame.names
    /\ seen_join(n, frame.channel)
    /\ frame' = IF frame.names = {n} THEN Idle ELSE [frame EXCEPT !.names = @ \ {n}]
    /\ UNCHANGED <<loaded, file, world>>

\* sm_part raises PART for the bot as for others.  Where the bot is not any
\* more, others go unseen.
Part(n, c) ==
    /\ Happens
    /\ n \in on[c]
    /\ on' = [on EXCEPT ![c] = @ \ {n}]
    /\ IF BotOn(c)
         THEN seen_leave(n, c) /\ SeenGo(n, {c})
         ELSE UNCHANGED <<frame, gone>>
    /\ blind' = (blind \/ n = Bot)
    /\ heard' = IF n = Bot THEN heard \ {c} ELSE heard
    /\ UNCHANGED <<loaded, chusers, file>>

\* sm_kick raises KICK, for which there is no trigger.
Kick(n, c) ==
    /\ Happens
    /\ n \in on[c] \ {Bot}
    /\ BotOn(c)
    /\ on' = [on EXCEPT ![c] = @ \ {n}]
    /\ blind' = TRUE
    /\ UNCHANGED <<loaded, chusers, file, frame, heard, gone>>

\* sm_quit raises QUIT, without a channel.
Quit(n) ==
    /\ Happens
    /\ n \in Free
    /\ \E c \in Channel : n \in on[c]
    /\ on' = [c \in Channel |-> on[c] \ {n}]
    /\ IF Shared(n) # {}
         THEN seen_leave(n, Nothing) /\ SeenGo(n, Shared(n))
         ELSE UNCHANGED <<frame, gone>>
    /\ UNCHANGED <<loaded, chusers, file, heard, blind>>

\* sm_nick raises NICK with the old and the new one.
NewNick(n, new) ==
    /\ Happens
    /\ n \in Free /\ new \in Free \ {n}
    /\ \E c \in Channel : n \in on[c]
    /\ Unused(new) \/ strcaseeq(n, new)
    /\ on' = [c \in Channel |-> IF n \in on[c] THEN (on[c] \ {n}) \cup {new} ELSE on[c]]
    /\ IF Shared(n) # {}
         THEN /\ seen_nick(n, new)
              /\ IF strcaseeq(n, new) THEN UNCHANGED gone ELSE SeenGo(n, Shared(n))
         ELSE UNCHANGED <<frame, gone>>
    /\ UNCHANGED <<loaded, chusers, file, heard, blind>>

\* The connection is lost: the bot is nowhere, and no event says so.
Lost ==
    /\ Happens
    /\ \E c \in Channel : BotOn(c)
    /\ on' = [c \in Channel |-> on[c] \ {Bot}]
    /\ heard' = {}
    /\ blind' = TRUE
    /\ UNCHANGED <<loaded, chusers, file, frame, gone>>

-----------------------------------------------------------------------------
Init ==
    /\ loaded = TRUE
    /\ chusers = << >>
    /\ file = [l \in Lower |-> Nothing]
    /\ frame = Idle
    /\ on = [c \in Channel |-> {}]
    /\ heard = {}
    /\ blind = FALSE
    /\ gone = [l \in Lower |-> {}]
    /\ events = 0

Network ==
    \/ \E n \in Nick, c \in Channel : Join(n, c) \/ Part(n, c) \/ Kick(n, c)
    \/ \E c \in Channel : BotJoin(c)
    \/ \E n \in Nick : Quit(n)
    \/ \E n, new \in Nick : NewNick(n, new)
    \/ Lost

Continue ==
    \/ LeaveStep
    \/ RenameStep
    \/ \E n \in Nick : HereStep(n)

Next == Network \/ Continue \/ module_init \/ module_shutdown

Spec == Init /\ [][Next]_vars

\* A trigger that has been called runs on in the bot's only thread.
LiveSpec == Spec /\ WF_vars(Continue)

-----------------------------------------------------------------------------
(* Properties *)

\* Type correctness of the module's state.
TypeOK ==
    /\ loaded \in BOOLEAN
    /\ chusers \in Seq(Entry)
    /\ file \in [Lower -> Channel \cup {Nothing}]
    /\ frame.at \in {"idle", "leave", "rename", "names"}
    /\ ~loaded => chusers = << >> /\ frame.at \in {"idle", "names"}

\* Nobody present is overlooked: on a channel whose names the module was told,
\* "is here" is answered for everybody who is there, whatever has been missed
\* and whoever has borne which nick.
PresentAreHere ==
    loaded /\ frame = Idle =>
        \A c \in heard : \A n \in on[c] : seen_cmd(n, c) = "is here"

\* "is here" is true: as long as nobody has gone without an event, and the bot
\* has not been away, whoever is listed on a channel is there, and listed there
\* once.
HereIsPresent ==
    /\ TypeOK
    /\ loaded /\ frame = Idle /\ ~blind =>
          /\ \A i \in DOMAIN chusers : \E n \in on[chusers[i].channel] :
                strcaseeq(n, chusers[i].nick)
          /\ \A i, j \in DOMAIN chusers :
                /\ chusers[i].channel = chusers[j].channel
                /\ strcaseeq(chusers[i].nick, chusers[j].nick)
                => i = j

\* "was last seen in" is true: whoever the module saw go is not "never met", and
\* his file names a channel from which he went then.
FileNamesLast ==
    loaded /\ frame = Idle /\ ~blind =>
        \A l \in Lower : gone[l] # {} => file[l] \in gone[l]

\* The loops end, although they look for an entry again and again.
LoopsEnd == frame # Idle ~> frame = Idle

\* "is here" is true, kicks included.
KickedAreGone ==
    loaded /\ frame = Idle =>
        \A c \in heard : \A n \in Nick :
            seen_cmd(n, c) = "is here" => \E m \in on[c] : strcaseeq(n, m)

=============================================================================
