# acidblood in TLA+

acidblood is an IRC bot: one process, one thread, a `select` loop over the
connections to its configured servers, and handlers that keep lists of who is
on which channel and who may ask for what. These modules state what the
handlers must keep true, check it with TLC on small instances, and prove most of
its safety with TLAPS for every instance.

Paths below are relative to the repository; `tracking.c` is
`src/tracking.c` of it, and so on.

## 1. The system

### 1.1 Components

| component | state | operations | model |
|---|---|---|---|
| tracking (`tracking.c`) | per server: the bot's nick, the list of users, the list of channels, and every membership twice, as a node of the channel's list and as a node of the user's | `UpdateUser`, `AddUserToChannel`, `DelUserFromChannel`, `RenameUser`, `QuitUser`, `DelChannel`/`ExitChannel`, `ReapUserList` | `Tracking` |
| server commands (`srvcommands.c`) | none of its own | JOIN, PART, KICK, QUIT, NICK, PRIVMSG, NOTICE, PING, PONG, ERROR, KILL | `Tracking`, `Session`, `Access`, `Connection` |
| numerics (`numeric.c`) | the table of numeric handlers | 001, 302, 353, 433 | `Tracking`, `Session`, `Access`, `Connection` |
| user commands (`usrcommands.c`) | the table of commands, the flood test | JOIN, PART, NICK, IDENTIFY, ACCESS, RELOAD, SAY, ACTION, … | `Tracking`, `Session`, `Access` |
| connection management (`server.c`) | per configured server: `conatt`, `nexttry` | `CheckConfServers`, `CheckMissing`, `CalcConDelay`, `complete_connect` | `Connection` |
| networking (`network.c`) | the socket slots, their flags and times | `connect_to_host`, `disconnected`, `send_packet`, `check_connections`, `getline_server` | `Connection`, `LineReader` |
| timers (`timer.c`) | the sorted list of timers | `addtimer`, `deltimer`, `deltimermodule`, `CheckTimers` | `Timers` |
| access lists (`users.c`, `list.c`) | the user file in memory, `conf_channels` | `read_user_data`, `SetAccess`, `SetChanAccess`, `UpdateAccess` | `Access` (`conf_channels`: `Tracking`) |
| channel operators (`chanop.c`) | `autoop` | OP, OPUSER, DEOP, KICK, TOPIC, MODE, AUTOOP, the JOIN trigger `user_join` | `Access` |
| main loop, signals | `currtime` | the order of the passes, SIGHUP | `Connection`, `Timers`, `Access` |
| registries (`events.c`, `list.c`, `numeric.c`, `list.h`) | linked lists of handlers, each with the module that owns it | add, find, delete one, delete a module's | `LinkedList`, `Registry`, `Modules` |
| loader (`modules.c`) | the list of loaded modules; `dlopen`'s count per file | `autoloadmods`, `loadmodule`, `removemodule`, `unlinkmod` | `Modules` |
| seen (`seen.c`) | who is on which channel, once more; a file per nick | triggers for JOIN, HERE, PART, QUIT, NICK; the command SEEN; load, shutdown | `Seen` |
| masks (`match.c`, `check_chan`) | none | `match`, `check_chan` | `Match` |
| configuration (`readconf.c`, `conf.c`, `parse_channels`) | `botinfo`, `conf_channels`, `serverclist` | `read_config`, one function per option | `Config` |
| sending (`sendmsg.c`) | static buffers | `irc_sprintf`, `send_notice`, `privmsg`, `msguser`, `msgreply` | `Sending` |
| dice, ctcp, log | nothing; a delay; nothing | | section 7 |

### 1.2 How they interact

The main loop (`main.c:55-67`) calls, in turn, `CheckConfServers` (make the
connections that are missing), `check_connections` (select, read, write, idle
tests), `CheckTimers` and, now and then, `ReapUserList`. `getline_server` turns
bytes into lines; a line goes to `handle_server_command` or to a numeric
handler; a PRIVMSG goes on to `handle_command` and from there to the core's
commands or to a loaded module's. Each of these steps is the walk of a list of
handlers (`handle_server_command`, the numerics, the user commands, `botevent`)
into which loaded modules hook themselves. All of them call into tracking, which calls
into the access list when a user or a membership is made. Handlers send by
`send_packet` at once, so that what they send crosses what the server has
already sent.

### 1.3 What is hard

There are no threads. What makes the code hard is
- **loops over lists that the calls in their bodies change**: `QuitUser`,
  `DelChannel`, `ReapUserList`, `CheckTimers` hold pointers while nodes go;
- **redundant state**: each membership is two nodes, each level is kept in up to
  three places, and a socket's stage is a set of flags;
- **crossing messages**: the bot changes its own lists when it asks (PART, NICK),
  not when the server agrees;
- **answers that come late**: USERHOST, 433, a `connect()` under way;
- **connections that end in the middle of anything**, after which the pass goes on
  with the slot, and the same lists are used for the next connection;
- **state nothing resets**: `conatt` and `net_registered`, `lastrcvpacket`, `buffpos`;
- **code that goes away**: a module is unmapped while the registries still lead to
  it, and the walks that then clear them read nodes they have freed;
- **copies of what others keep**: seen has its own list of who is where, and hears
  of only some of the events that change it;
- **text taken apart in place**: a loop over masks with a way back, a limit on its
  turns, and buffers shorter than what goes through them.

`PROJECT.json` lists each hazard at its line with the property that watches it.

### 1.4 What makes each component correct

- *tracking*: both halves of a membership exist equally often; nothing on a list
  is freed; no two records have one nick; every loop ends; the bot is not on its
  own list.
- *tracking against a server*: once everything is heard, the lists show who is
  there, the bot knows its own nick and is only where it was told to be.
- *connections*: a slot's flags describe one stage of its own connection;
  attempts are spaced; the bot does not stop trying.
- *line reader*: lines in are lines out, wherever the stream is cut.
- *timers*: ordered, pointers held over a call stay in the list, every timer goes.
- *access*: no level that no entry gives, whatever arrives first; and a user who
  has an entry comes to have his level. Both hold but for a user who is listed twice.
- *registries and loader*: the lists of pointers behave like sequences; between two
  commands the handlers are those of the listed modules, all of them and no others.
- *seen*: "is here" and "was last seen in" are true.
- *masks, configuration, sending*: the answer is that of the mask's meaning and is
  reached within the limit; the file means what its lines say; what is said
  arrives whole and in lines of its own.

## 2. Modules

    Membership
       ┊ refinement
    Tracking ──── TrackingProofs     Timers ── TimersProofs    Connection ── ConnectionProofs
       │   └───── MCTracking            └───── MCTimers           └───────── MCConnection
    Session ──┴── MCSession          (TrackingProofs: of Tracking and of Session)
                                     Access ── AccessProofs    Seen ── SeenProofs
    LinkedList    Registry              └───── MCAccess          └──── MCSeen
       │             ┊ refinement
    Modules ─────────┘               LineReader   Match   Config   Sending
       │ └─────── MCModules            │     └──────┼── RoutinesProofs │
       └───────── ModulesProofs        └────────────┴───────┴──────────┴──── MCRoutines

`Lemmas` has what several of the proof modules rest on: the least element of a set of
numbers, and what linking and unlinking make of a sequence. `RoutinesProofs` is about
`LineReader` and `Match`, which share no state.

`Tracking` implements `Membership`; `Session` composes its handlers with an IRC server; `Modules` is
built on the lists of `LinkedList` and implements `Registry`; the others stand
alone. In every module an operator has the name of the C function it
models, and `PROJECT.json` ("map") gives its lines. `MC` modules only add model
values, symmetry sets and examples (user files, lines of a configuration file,
what modules register); `MCRoutines` also puts four modules side by side. Definitions whose
comment begins "Wrong on purpose" are variants of their neighbour with a
plausible mistake; they are used nowhere in the specifications and show that a
property can fail. A module's `TypeOK` is a conjunct of one of its invariants.

### 2.1 Tracking

One `struct server_list` entry. `ulist`, `members[c]` and `chans[u]` are the
linked lists, in order, as sequences of allocations (`UserId`); `nick[u]` is
`NoNick` once the record is freed. Allocations come back: `CreateUser` takes any
that is not live. Straight-line handlers are one action. `QuitUser`,
`DelChannel`, `ReapUserList` and `get_users_from_chan` take one step per turn of
their loop, and `frame` says which loop runs with which pointers, so that a loop
that never ends or a pointer into a freed node is a behaviour. `DelUserFromChannel`
searches the two lists as the code does, by nick on one and by pointer on
the other, and steps to `Crashed` where the code follows the null pointer of a
search that fails (`tracking.c:405`). Pure reads and the contents of replies are
left out; `sent` is what a step writes to the socket.

`Membership` is what those who ask `GetUser`, `GetChannel` and `GetFromChannel` may rely on:
whom the bot knows, which channels it keeps, and one table of how often each user is
listed on each channel (a 353 may list somebody twice). An event, such as a PART or a QUIT,
is one step there. In `Tracking` a QUIT takes a step per channel; the mapping has the user
gone (`Leaving`), or the channel (`Closing`), from the first of them on, which is
what the rest of the program sees, as nothing else runs before the loop ends.

`Spec` lets any message arrive at any time: it is the handlers alone.
`CalmSpec` excludes one thing, **nicks that collide**: nobody, the bot included,
takes a nick that the bot still has on its list, and no USERHOST reply is about
the bot. A server keeps the nicks of *present* users distinct, but the bot
forgets a user it no longer shares a channel with only after thirty seconds, so
servers do not guarantee it. Without the condition `NickUnique`, `LinksAgree` and
`NoCrash` do fail: `RenameUser` (`tracking.c:312`) does not look whether the nick is
taken, and `DelUserFromChannel` then unlinks one user's node and the other's
membership. `CalmLiveSpec` adds weak fairness of `Continue`: a handler that has
been entered runs on, which a single thread guarantees.

### 2.2 Session

`Tracking`'s handlers driven by a server: who is online and on which channel
(`online`, `on`), the bot's nick there (`srvnick`), and two ordered streams.
Other clients join, part, quit, kick, change nicks and ask things of the bot;
the server takes JOIN, PART and NICK from the bot's stream and answers. The
bot's actions are those of `Tracking`, each for the message at the head of the
stream; `Reconnect` is what a new connection does to the same lists
(`complete_connect`, `register_to_server`, `join_channels`). The server is not part of
the repository: it is modelled from what the handlers expect and marked
external. A behaviour begins by choosing one of `Settings`: which people there are,
what they ask of the bot, whether it is kicked, whether its connection breaks, and
how much happens; so that one run covers combinations no single setting could
with the same bounds. `UnseenReuse = FALSE` is the session's form of the calm
condition: nobody takes a nick that the bot still lists, or has yet to hear of
(`Forgotten`), or asks the bot to; and `ListsAsProved` says that every step is then one of
`CalmSpec`.

### 2.3 Connection

The slots (`flags`, `fd`, the age of `lastrcvpacket`, `lastsndpacket` and the PING),
`conatt` and `nexttry` per server, and the kernel's descriptor table: which number is
open, pending, failed, silent, and which server it was connected to. `turn` is
where the main loop is; a pass visits the slots as the code does: conf, select,
then for each slot read, write, idle test, keepalive. `Disconnected` is called
from within these and the rest of the visit goes on with what it left.
Times are ages, cut just past the limit they are compared with. `stuck` is the
loop of `getline_server` at the end of a stream.

### 2.4 LineReader

One call of `getline_server` per `reading`, one byte per step; the stream is cut
wherever the environment likes. What the lines of a stream are is said of them, not
computed: `AreLines(ls, s)` holds if there are as many as newlines in `s` and each, to
its own newline, is what stands behind the one before; `Rest(s)` stands behind the
last. The buffer is a function from 0 to `Size + 1`,
the last index the code writes to. The connection may be lost between two calls,
with what the server had sent but the bot had not read, and made again: `disconnected`
and `connect_to_host` leave the buffer and `buffpos` alone, and `left` remembers what
they held.

### 2.5 Timers

The list in order, each timer used once. A call of a timer's function is a
frame: `running` and `next` are the pointers `CheckTimers` holds, and any number of
`addtimer` steps may come before the function returns. `schedulein` reads the clock into
`currtime`, the global that `CheckTimers` compares deadlines with (`timer.c:64`, `timer.c:105`),
so that a pass goes on with a later time than it began with: `passtime` remembers
when it began, and is only read by `DueWaitsForHead`.

### 2.6 Access

A record is its client: `Tracking` shows that a nick leads to the one record of
its bearer. `level[u][c]` has the levels in `u`'s nodes of the list of `c`, in the
order of the list, and `access[u]` is the level of the record. There is one node as a
rule. But a JOIN or a 353 links whoever it names without asking whether he is linked (`LinkUserToChannel`,
`tracking.c:315`), so that after a kick of the bot, or a reconnect, a user has a second
node. `allocuserlist` leaves the access in it as `malloc` found it (`Wild`);
`SetChanAccess` sets the node it finds, which is the first (`list.c:188`), and the first
is what `GetChannelAccess` reads (`InForce`) and `DelUserFromChannel` unlinks. After a
PART the node that was never set is read: what comes of that is any of `Junk`, until
some `UpdateAccess` sets it. `"again"` allows such listings, at any time; in which sessions
they occur is the matter of `Session`.

An entry's masks are the sets of what they match. JOIN
and PRIVMSG carry an address, a 353 listing does not, and `numeric_userhost`
brings it later, for whoever has the nick by then. `handle_command` applies the
flood test, `access_too_low` and then the command. `Allowed` says which of six
complications an instance has: users listed again, reloads, unreadable user files, nick changes,
commands about somebody who is absent, and clients who leave before USERHOST is
answered. CTCPDELAY and CMDDELAY are taken as not zero, and SIGHUP runs between
handlers only. Users who come to be listed twice and are quit or reaped lose all nodes, as
`QuitUser` goes through them.

### 2.7 LinkedList, Registry, Modules

`LinkedList` has the macros of `list.h` over a memory of nodes with `next` and
`prev`. A list is read off the memory by a walk of as many steps as there are nodes
(`Walk`, a recursive function, since TLAPS reasons about no RECURSIVE operator); at its end
a step of `next` stays at `NULL`. The bot's own handlers are there from the beginning,
each in a block of its own (`Block`). `Registry` is what the registries promise: per kind
a sequence of handlers, to the end of which one is added, and from which any but the
bot's own may be taken. `Modules` is the loader: a name, the file it is a path of, `dlopen`'s count per
file, and, a turn a step, `module_init` registering (or failing before it has registered anything, as
that of seen may, `seen.c:49`), `module_shutdown` dropping, and
the walks of `unlinkmod` over the lists. A walk reads the `next` of the node it has
freed: one disjunct of `ClearStep` takes the old pointer, as allocators that leave
freed blocks alone give it, the other ends in `Crashed`. `autoloadmods` may skip any
file, since it tests a buffer `stat` has not filled. LOADMODULE and REMOVEMODULE come
from the walk of the user commands, which returns once it has called a
function, so that no other walk is under way.

### 2.8 Seen

`chusers` is the list of entries, `file` the channel in each nick's file. Nicks have a
case (`Fold`), files have not. Nobody else bears the bot's nick (`Free`). The network is modelled as the bot hears of it; `loaded`
says whether the module's triggers are in place, and `heard`, `blind` and `gone` are
what it has been told: on which channels it has had a listing, whether somebody
has gone without an event it hears, and from which channels a nick it watched
has gone. The loops of `seen_user_leave` and `seen_user_rename` take a turn a step.

### 2.9 Match, Config, Sending

`Match` is the loop of `match()`, one turn a step, with the variables of the code; the
pointers are positions from 1, and 0 is the place before the mask, to which the step back of
`match.c:119` leads when the mask is empty. Its reference is `Meant`: the positions of the name
reachable with each prefix of the mask. `check_chan` is an operator against a
reference of its own. `Config` reads a file line by line: `cleanup` on what stands
behind the '=', one action per kind of option, `parse_channels` as a fold over the
characters. Each line carries what its writer meant. `Sending` has texts whose
characters are numbered, so that a lost or doubled one shows, and a server that
reads up to each newline. These three and `LineReader` share no state: `MCRoutines`
checks them in one run, where in a behaviour one is at work.

## 3. Runs

| run | what TLC finds | bounds |
|---|---|---|
| `tracking` | `IInv`, `NoDangling`, `HandlersReturn` hold, and `MembershipSpec`, the refinement | 2 allocations, 3 nicks, 2 channels, 2 nodes per channel |
| `session` | `ListsAccurate`, `NobodyMissing`, `ListedMeansOn`, `OnlyWhereMeant`, `KnowsOwnNick` hold, and `ListsAsProved` | 3 allocations, 1 channel, 2 people (1 where parts and nicks are asked), 3 or 4 events, 3 messages per direction; joins asked; the same with kicks of the bot and reconnects; joins and parts asked, and everything asked, with reconnects |
| `session_ghost` | `PartedMeansOff` is **violated** once the bot may be told to part | 2 people, 4 events |
| `timers` | `TailSorted`, `LoopPointersListed`, `DueWaitsForHead`, `EveryTimerGoes` hold | 3 timers, 2 modules, clock to 2 |
| `connection` | `WatchesOwn`, `OneStage`, `AttemptsApart`, `KeepsTrying` hold | 1 server, 3 descriptors, passes of 0 or 5 s, TIMEOUT 10 s, KEEPALIVE 5 s |
| `connection_two` | `WatchesOwn` holds | 2 servers that resolve and whose `connect()` is under way for a while, 3 descriptors |
| `connection_backoff` | `BacksOff` is **violated** | as `connection`, polite servers |
| `access` | `LevelsCurrent`, `OpsEarned`, `Recognised` hold | 2 users, 2 channels, a user file of 4 lines with a password; users listed again, 2 nodes in all |
| `access_rough` | `GrantsByList` holds | 2 users, 3 nicks, 1 channel, a user file of 2 lines and the unreadable one, all complications; 2 nodes in all |
| `modules` | `WellLinked`, `WalkOnList`, `HandlersOfListed`, `LoaderReturns` hold, and `RegistrySpec`, the refinement | 2 modules of 2 and 3 handlers, 3 registries of which 2 hold handlers of the bot, 9 nodes |
| `seen` | `PresentAreHere`, `HereIsPresent`, `FileNamesLast`, `LoopsEnd` hold | 4 nicks, two of them equal but for case, 2 channels, 7 events |
| `routines` | `LinesFaithful`, `BufferIsRest`, `MatchTypeOK`, `MasksAsMeant`, `LimitFits`, `ConfigAsWritten`, `SaidAsMeant` hold | 7 bytes, a buffer of 2, 1 lost connection; masks and names of 4 characters, 8 turns; files of 3 out of some 30 lines; 3 messages of 8 characters, lines of 6, prefixes of 2 |

### Why the bounds are enough

- `tracking`: every hazard of the lists is about two records (one held, one looked
  up), two channels of one user (the loop of `QuitUser` needs two turns to be a
  loop) and a node in front of another. Two nodes per channel and two records
  have all of these; and the proofs have no bound.
- `session`: the crossings are between one stream's head and the other's tail.
  Three messages each way let a request, its answer and a third event overlap;
  events of other people are independent beyond that. `MaxNames` exceeds the number
  of nicks, so no listing is cut. One channel, since handlers touch one
  channel or, for QUIT and NICK, all of them alike; the loop over channels is in `tracking`.
- `timers`: a head, a timer before and one after an insertion.
- `connection`: TIMEOUT and KEEPALIVE are multiples of the pass's length, so all
  comparisons come out both ways; `conatt` is counted to 5, past the bend of
  `CalcConDelay` at 3 and past MAXTRIES; three descriptors let a failed, a lost and a
  new one exist together.
- `routines`: two places in the buffer are one more than a line needs to be split over calls,
  to end in CR LF, and to overflow.
- `access`: an entry for the wrong address before the right one, one with a
  password on one channel that hides one without, a second user the list does
  not know by that address. Two nodes are a user on two channels, two users on one, or
  one user listed twice, whose second node comes to be read after a PART. `Junk` has
  the level of a master and that of nobody. In
  `access_rough` the view leaves out `sent`, which no action reads and the property
  does not mention.
- `session`: a setting with everything at once would need more events than TLC
  reaches; each property says in its antecedent for which settings it is meant, and
  the antecedent is met by at least one setting that disturbs it.
- `modules`: one module drops its handlers itself and one leaves most to the loader;
  one registers a key twice, and both a key the bot has too; a node is cleared at the
  head, in the middle and at the end of a list. Nine nodes are as many as the
  instance can use, so no `malloc` fails for the bound.
- `seen`: seven events let a user come to two channels, change his nick, go and
  another take it, with the bot away in between.
- Also there: four characters have room for two stars with something between and
  behind them; eight turns are fewer than some of the pairs need, so both sides
  of `LimitFits` occur; a speech of eight takes three pieces.

Symmetry is used only in the safety runs of `Session`, on allocations and on the
nicks of other people, which no definition tells apart. Deadlock is
checked in every run but `access_rough` and `modules`, where the process may end at a
null or wild pointer, `seen`, where the events are used up, and `routines`, where
each call comes to its end and the bytes are used up.

### Fairness

- `CalmLiveSpec`: WF of `Continue`. One thread runs the handler it is in.
- `Timers!LiveSpec`: the clock goes on, passes of the main loop happen, and a timer's
  function returns.
- `Connection!LiveSpec`: WF of the main loop; passes that take time happen again and
  again (`select` waits up to five seconds, `network.c:184`); a `connect()` under way ends. Nothing is assumed
  of servers. `KeepsTrying` therefore has the exception it needs: a server that
  closes without ERROR leaves the bot in `getline_server` for ever.
- `Modules!LiveSpec`, `Seen!LiveSpec`: WF of `Continue`, as in `CalmLiveSpec`.
- `Access!LiveSpec`: WF of `numeric_userhost`: the server answers USERHOST.

## 4. What is proved

Every theorem is proved for all values of the constants, from the named assumption of the
component's module (`ConstantsAssumption`, `ConnectionAssumption`, …), which says of
which type the constants are. Where a theorem needs more, it is the theorem's own
hypothesis and is discussed here; TLC has runs on both sides of each.

| module | theorem | of | hypothesis |
|---|---|---|---|
| `TrackingProofs` | `TypeCorrect` | `Spec` | |
| | `Invariance`, `LinksAlwaysAgree`, `NeverDangling`, `NeverCrashes`, `HeldUserStaysLive`, `NicksStayUnique`, `NeverTracksSelf`, `TracksMembership`, `EachMessageIsItsEvent` | `CalmSpec` | nicks do not collide |
| | `BotKnowsOwnNick`, `ListedIsOn`, `OnlyOnMeantChannels` | `SessionSpec` | |
| | `SessionIsCalm`, `NobodyIsMissing`, `ListsAreAccurate` | `SessionSpec` | `UnseenReuse = FALSE` |
| `ConnectionProofs` | `TypeCorrect`, `AttemptsTenSecondsApart` | `Spec` | |
| | `StagesAreStages`, `SelectWatchesOwn` | `Spec` | `Servers = 1` or `Steady` |
| `TimersProofs` | `Invariance`, `AlwaysSorted`, `PointersStayListed`, `PassOverlooksNone` | `Spec` | |
| `AccessProofs` | `TypeCorrect`, `GrantedByList` | `Spec` | |
| | `LevelsStayCurrent` | `Spec` | `Settled` |
| | `ModesEarned` | `Spec` | `Settled`, `Demanding` |
| `ModulesProofs` | `Invariance`, `ListsStayLinked`, `WalksStayOnTheirList`, `HandlersStayMapped`, `RegistriesAreSequences` | `Spec` | |
| | `HandlersAreOfListed` | `Spec` | `OnePathEach` |
| `SeenProofs` | `Invariance`, `PresentAreListed`, `ListedArePresent`, `FilesNameLast` | `Spec` | |
| `RoutinesProofs` | `LinesInvariance`, `LinesAreFaithful`, `BufferHoldsRest` | `Spec` of `LineReader` | |
| | `MatchInvariance`, `PointersStay`, `LimitSuffices` | `MatchSpec` | |

### Tracking

`TypeCorrect` holds for every order of messages, colliding nicks included; the rest for
`CalmSpec`.

None of the other properties is inductive alone. That nothing dangles needs that a
record is freed only when it hangs from no channel; the code frees a user
when his *own* list is empty, so one needs that the channel's lists agree with
it (`LinksAgree`), and that a channel or record off its list has left no node behind,
or the next allocation would inherit it (`Released`). `LinksAgree` is kept by
`DelUserFromChannel` only if its search by nick finds the same record as its
search by pointer (`NickUnique`). `DelUserFromChannel` does nothing for a record with
the bot's own nick, so that the loops rely on `SelfUntracked`. And the loops hold a
record and a channel over calls that free (`HeldUserLive`, `HeldChannelTracked`).
`IInv` is their conjunction. `LinksAgree` counts occurrences, since a 353 can link a
user twice: the lemmas `CountAppend` and `CountRemove` say what `LinkToList` and
`UnlinkListItem` do to the count; `AddUserInv`, `DelUserFromChannelInv` and `DelUserInv`
lift this to the three operations all handlers are made of; `NextIInv` goes through
the handlers.

The run `tracking` checks `IInv`, which has `LinksAgree`, `NickUnique`, `SelfUntracked` and
`HeldUserLive` as conjuncts.

*The refinement.* Every step is an event of `Membership` or none (`TracksMembership`), and
which event it is depends on the message (`EachMessageIsItsEvent`: a PART takes one entry
of the user it names from the channel it names, if there is one, and changes no
other; a QUIT clears that user's column; and so on). The table has the entries of nicks, the
lists have pointers to records: as one record has a nick, how often a channel lists
the nick is how often it lists the record (`OftenIsCount`), and `CountAppend`
and `CountRemove` apply. For a record that is freed one needs `LinksAgree` once more: his own
list is empty, so no channel lists him (`DelUserOften`). `Names` holds nicks only, which
`IInv` does not say and the proof carries along. `HandlersAsTold`, of which
`EachMessageIsItsEvent` is the proof, is too slow for TLC at the bounds of `tracking`; it
holds there with `MaxLinks = 1`, or with one channel.

### Session

All properties of the run `session` are proved, for any number of people, channels and
events, any length of the queues, and every setting their antecedents admit. They speak
of the moments when nothing is under way; the invariants say what must be under way at
all others.

*The nick* (`NickInv`): while the connection stands, the bot is called what it believes,
or it has asked for that nick and for no other since (`LastNickSaid`), or a 433 is on its
way, upon which it asks for `AltNick`. No setting is excluded.

*The channels* (`PlacesInv`). A channel the bot is on, or on its way to, or will hear of
(`InPlay`) is on `conf_channels` unless the bot may be told to part (`MeantInv`); one of the list it is on,
or has asked to join, or it is going to hear of a KICK that it will know for its own
(`HeldInv`). Where it is told to part, a channel off the list has a PART under way that
no JOIN follows (`LeftInv`). The last two say "its own" of a KICK: they need that the bot
keeps the nick under which it is kicked, and the properties do fail where kicks meet
changes of nick (section 6).

*Calm* (`FreshInv`). A nick someone is about to be known by, in a NICK under way, is on
none of the bot's lists and in none of the messages before it, so that when
the message is handled the conditions of `CalmNext` hold. From there on `IInv` holds in
the session as well (`CalmInv`), and with it that a handler finds the one record of a nick.

*Who is there* (`ViewInv`). `Heard(v, m)` is what a list that shows `v` shows after the
message `m`. A view is the sequence of what the bot is going to list after each
message under way; there is one that begins with what the bot lists now and ends with
who is there now. A message that is taken is cut off a view's beginning, and one that the server
sends is put to its end, so that the handlers and the server are compared one message at a
time (`BotHears`, `ServesShown`). In the middle of a 353 or a QUIT, "now" counts
what the loop has yet to do (`Now`). Where kicks or reconnects disturb the lists, a view
begins with *at most* what is listed, and ends with *at least* who is there, which is what
`NobodyMissing` needs. Where nothing does, both are equal, nobody is said to come who is
listed (`Proper`), no list has anybody twice (`Once`), and `ListsAccurate` follows, the
lengths by a bijection.

`UnseenReuse = FALSE` is necessary: without it `NobodyMissing` and `ListsAccurate` fail (section 6).

### Connection

*Attempts are ten seconds apart* whatever the servers do: what is left of the wait and
what has passed since the last attempt add up to ten (`Spaced`), and `CalcConDelay` is
never less than ten (`DelayAtLeastTen`).

*Stages and numbers* are mixed up when two slots have one descriptor number, of which
one is not that slot's own (section 6). The theorems have the two ways in which this
cannot be: there is one server, or each slot gets a number of its own before the first
`select` and, as a lost connection keeps its descriptor, has it until the next attempt.
`Steady` says so in terms of the constants: every name resolves, no `connect()` fails at
once, and whatever `malloc` left in `conatt` allows a first attempt. The inductive
invariant says, besides the types and the stages (`StageOK`), that a polled slot owns its
number (`PolledOwned`), that with more servers than one any number a slot has is its own,
or the first attempt is yet to come (`FdsOwn`), that `select` does not find a number
readable and writeable at once, as the slot asks for one of them (`SetsOK`), and that a
number found writeable belongs to a slot still connecting when the loop comes to it
(`OutOK`). An action is first shown to leave each slot at its stage or to give it
up (`QuietStep`); only an attempt and the end of a `connect()` do more.

### Timers

`TailSorted` is inductive but for the pointers: the list has no node twice (`OnceEach`),
and the node unlinked after a call is one that was called (`CalledOrListed`).
`DueWaitsForHead` needs to know, in the middle of a pass, which timers the loop has dealt
with: those the pass began with, up to the node it goes on with (`LoopAt`). What
functions schedule meanwhile goes behind or between these and is not among them, so
`LoopOK` is kept although `next` was read before the call.

### Access

`LevelShape` says of `SetAccess` that a level other than the default is that of an entry
with the user's mask, for that channel, without a password or with the one given.
Whatever sets a node sets the first (`FirstSet`), so that after a step the level in force is
the one it was, one that was just looked up, or that of the node behind one unlinked
(`InForceAfter`). `GrantedByList` follows for each step, reloads and renames included.

That a level goes on being what an entry gives takes that list and nicks stay (`Settled`:
no reloads, no renames; with reloads it fails, section 6). `LevelsCurrent` is not
inductive: a PART brings the next node to the front. `CurrentInv` adds what the nodes behind the first
are: never set (`RestWild`), and not there at all unless `"again"` is allowed
(`ListedOnce`). So the level in force is an entry's, or that of unlisted users, or, for users who
were listed twice, nobody's, and the theorems say so: `LevelsStayCurrent` and
`ModesEarned` have it as an alternative, and that it does occur is `LevelsSet` in section 6.
`ModesEarned` also needs that a level of an
unlisted user does not suffice (`Demanding`: the levels for op, half-op and voice are
below 99); otherwise everybody is opped, as the configuration then asks.

### Lists, registries and loader

*Lists.* `Represents(m, l, s)` says that the sequence `s` is the list `l` of the memory `m`,
in both directions. `LinkShape` and `UnlinkShape` show that the macros of `list.h` turn a list
that represents `s` into one that represents `Append(s, x)`, or `s` without one place, and
`OtherList` that they leave every list alone that has none of the nodes they touch. A walk
finds that very sequence (`ChainIs`), as no list is longer than memory is large: its
nodes differ. That what follows the rule of a walk is that walk (`WalkIs`) would be an
induction; it is shown from a least counterexample.

*The invariant.* `WellLinked` is inductive once it is known what the loader calls the macros
with. `IInv` adds that nodes of the list of modules are modules and all others handlers
(`EntriesOK`), that `dlopen` counts the listed copies of a file (`RefsOK`), and that the
pointers held from turn to turn are to nodes of the lists they are for (`FrameOK`):
the walks unlink the node they stand on, and its `next`, read after `free`, is the
next node of the same list, or the walk has crashed. `Mapped` relates the handlers to the
modules: each one's module is listed, or the walk under way is of that file and has
yet to come to the handler, further on in this list or on a later one. At the end of
the last list nothing is yet to come, which is `EveryHandlerMapped`, whatever
`module_shutdown` has left and however many names a file has.

*The refinement.* Each step appends one handler to one registry, takes out one, or leaves
all as they are. That the bot's own stay follows from the walks and `DeleteFirst`
taking only nodes of a module, and from `NULL` being no module.

*The handlers of listed modules.* `ListedIsComplete` needs that removing one module takes
nothing of another, and that a module is not loaded on top of itself. `CInv` has it:
a name is listed once and not while it is still to be loaded (`NamesOK`, `ThenOK`), the file
being cleared is not listed (`FileGone`), and what is listed has its handlers so far in
order (`RegisteredOK`, which gives a monotone function from the places in `module_init` to
those in the list). `FileGone` is where the hypothesis comes in: `OnePathEach`, no file has
two names. Without it the property fails, in `MCModules_alias` (section 6); the run
`modules` satisfies it.

### LineReader

`LinesFaithful` is not inductive: while a line is read the buffer holds `Rest` of what has
been received (`Holding`), no zero stands before `buffpos` (`Clean`), and over a lost
connection both hold of `left` and what has come since. The lemmas say what one more byte
makes of the lines of a stream (`RestOfOther`, `LinesOfOther`, and the same for a newline)
and that the text in the buffer is `Rest` without its carriage return (`TextOfRest`). They count newlines by `Cardinality`, so
that none needs an induction. The theorems hold for any `Size`: also where the code
writes behind its buffer, the model has room for the two characters.

### Seen

In the middle of a loop neither "is here" nor the files are true. The invariant says what
is missing: entries of who leaves or is renamed are on their way out (`Going`), and the
file names a channel he went from or one of these entries does (`Filed`); who is there has
an entry, or is about to be named by the 353 in hand, or has the entry of the nick he is
about to lose (`Hearing`); each entry is for somebody who is there, or on its way out
(`Exact`). `NetOK` has what the loops rely on: a nick, in whatever case, has one bearer. A
change of case alone starts no loop, and the lemmas compare nicks by `Fold` throughout.

### Match

This holds for any two strings and any limit on the turns.

`Further(at)` is the place of the pair (where a retry starts in the name,
where match() is in the mask) in lexicographic order. Every turn that does not
return raises it: a character that fits, an escape or a star leads on in the mask,
a retry on in the name (`TurnGoesOn`). Since the position in the mask may be anything
after a retry, it must be shown that the retry does not run behind the name: `Along`
says that match() is past the star in the mask only if it is past it in the name,
or stands behind an escape. So `calls <= Further(at)`, which is less than the product
(`NeverAll`), is inductive together with the types (`MatchStep`).

When it returns at the end of the mask, match() has walked back in it. The walk ends in
the mask unless that is empty (`WalkEnds`); if it is empty and the name is not, the pointer is left
before it and what stands there has been read, though the answer does not depend on it.
`PointersStay` says exactly that; the claim without the exception is `NeverBefore` in section 6.

## 5. Only model-checked

- Everything temporal (`HandlersReturn`, `EveryTimerGoes`, `KeepsTrying`, `Recognised`,
  `LoaderReturns`, `LoopsEnd`): TLAPS does not do liveness under fairness.
- `MasksAsMeant`, `ConfigAsWritten`: their references are recursive functions or folds, and
  what such a function computes is shown by an induction the installed provers cannot
  instantiate. A set of numbers has a least element (`LeastNumber`), by which some facts
  are shown as by induction, from a least counterexample.
- `SaidAsMeant`: the pieces of a text, also made by a fold.
- That no walk crashes (`NoCrash` in `Modules`) is not so, see section 6.

## 6. Where the code and its documents disagree

Two disagreements are runs:

- **`session_ghost`**, `tracking.c:490`. `ExitChannel` drops the channel when the PART
  is sent. A JOIN or a 353 that was already under way makes `AddChannel` track it
  again, and nothing ends that: JOIN is answered "I'm in that channel already".
- **`connection_backoff`**, `server.c:195`. "exponentially increase the delay to avoid
  flooding servers": once a server has welcomed the bot, `net_registered` stays set
  and resets `conatt` in every pass, so the delay stays at its first value.

Others were met on the way. Each has its statement in the module and a
configuration kept beside the runs; TLC refutes it.

| statement | configuration | what the code does |
|---|---|---|
| `Session!OnMeansListed` | `MCSession_alone` | a channel where the bot is alone is not tracked and cannot be parted (`tracking.c:318`) |
| `Session!OnlyWhereTold` | `MCSession_rejoin` | a kick that crosses the bot's PART makes it rejoin (`srvcommands.c:348`) |
| | the same with `Settings <- PartsAndNicks` and `CHECK_DEADLOCK FALSE` | a bot that has asked for somebody's nick takes his KICK for its own, and rejoins a channel it was told to part (`srvcommands.c:348`) |
| `Session!NobodyMissing` | `MCSession_ghost` with this invariant, `Settings <- JoinsAsked`, `UnseenReuse = TRUE` and `CHECK_DEADLOCK FALSE` | somebody takes a nick that the bot still lists for another record; when he changes it again, the other record is renamed and his keeps the old nick (`tracking.c:312`) |
| `Session!KicksNoticed` | `MCSession_ghost` with this invariant and `Settings <- NicksAndKicks` | "did they kick me?" (`srvcommands.c:345`) compares with the nick `msg_nick` has changed before the server agrees; after a KICK that crosses the NICK the bot does not rejoin, and answers JOIN "I'm in that channel already" |
| `Session!SelfUnlisted` | `MCSession_self` | the nick is changed before the server agrees (`usrcommands.c:301`), so the bot lists itself under the old one |
| `Timers!SecondsLate` | `MCTimers_late` | a timer behind a later head waits for it, however long (`timer.c:47`) |
| `Connection!QuitsOwn` | `MCConnection_quit` | `CheckMissing` sends QUIT on the slot's old descriptor number (`server.c:156`) |
| `Connection!GivesUp` | `MCConnection_tries` | MAXTRIES is never reached after a welcome (`server.c:195`) |
| `Connection!SilenceNoticed` | `MCConnection_silent` | `lastrcvpacket` is set before `select` has found anything (`network.c:196`) |
| `Connection!ComesBack` | `MCConnection_leak` | `disconnected` leaves the descriptor open (`network.c:441`) |
| `LineReader!LinesOwn` | `MCRoutines` with this invariant | the rest of a line of the old connection is put before the first of the new one (`network.c:441`) |
| `LineReader!InBuffer` | `MCRoutines` with this invariant | indices 1500 and 1501 of a buffer of 1500 (`network.c:279`) |
| `LineReader!Returns` | `LineReader_return` | `recv` returning 0 is taken for a byte (`network.c:260`) |
| `Access!LevelsCurrent` | `MCAccess_reload` | a reload leaves the levels already kept (`system.c:24`) |
| `Access!LevelsSet` | `MCAccess` with this invariant and `SPECIFICATION Spec` | who is listed twice has a node whose access nobody sets (`tracking.c:49`, `list.c:188`); after a PART of his, `GetChannelAccess` reads it |
| `Access!RecognitionLasts` | `MCAccess_identify` | a 302 reply, or ACCESS, looks the level up again without the password and takes away what IDENTIFY gave (`numeric.c:162`, `usrcommands.c:134`) |
| `Access!BannedGetNothing` | `MCAccess_reload` with this property | `user_join` compares levels from above only (`chanop.c:33`) |
| `Access!TopicByMasters` | `MCAccess_identify` with this property | TOPIC is done for level 99 (`chanop.c:400`) |
| `Access!AbsentAnswered` | `MCAccess_rough` with this invariant | no return behind "I don't see that user in the channel" (`chanop.c:375`) |
| `Modules!ListedIsComplete` | `MCModules_alias` | of two names of one file, removing one takes the handlers of both: "any old copies" are looked for by name, and `dlopen` counts files (`modules.c:130`) |
| `Modules!NoCrash` | `MCModules_junk` | the walks that clear a list read the `next` of a node they have freed (`events.c:63`, `numeric.c:68`, `list.c:435`) |
| `Modules!LoadedMeansListed` | `MCModules_junk` with this invariant | `module_init` returns 0 when it succeeds, and LOADMODULE answers "Unable to load module", or, for -1, "Module loaded." (`usrcommands.c:346`) |
| `Seen!KickedAreGone` | `MCSeen_kick` | no trigger hears of a KICK: SEEN says "is here" of who was kicked (`seen.c:55-59`) |
| `Match!EscapesKept` | `MCRoutines_escape` | an escape behind a star has lost its effect after the first retry, where `quote` is not set again (`match.c:142`), although "I re-enabled escaping" |
| `Match!NeverBefore` | `MCRoutines` with this invariant | with an empty mask and a name that is not empty, the pointer steps to before the mask and is read there (`match.c:119`) |
| `Match!NeverGivesUp` | `MCRoutines` with this invariant | the limit on the turns (`match.c:68`) turns a match into a mismatch |
| `Config!CtcpCanBeOff` | `MCRoutines` with this invariant | "Set CTCP ON/OFF" (`dist/conf.dist`): no value turns it off again (`conf.c:107`) |
| `Config!LastLineCounts` | `MCRoutines` with this invariant and `Lines <- ShortLines` | a value of one character keeps its line end (`readconf.c:92`) |
| `Config!NullHarmless` | `MCRoutines` with this invariant | a line without a value hands on a null pointer (`conf.c:61`) |
| `Sending!CommandsArrive` | `MCRoutines_long` | a command longer than the buffer loses its newline, and the next one is lost with it (`sendmsg.c:45`) |

With two servers of which one has no connection, `WatchesOwn` fails as well: that
slot's `fd` is 0, as `socket_pool` starts, or the number it last had, `FD_ISSET` finds the
other server's descriptor there, and the slot is handled as if it were its own.
`connection_two` therefore keeps to servers whose `connect()` does not fail at once.

## 7. What is not modelled

- `DelServer`, `FreeServer`: unreachable, since `servercstruct.server` is never set.
  `ReapConfServers` likewise: `NotConnectable` clears the flag it should set.
- The entry `AddServer` appends at every connect: `GetServerBySocket` finds the first
  of the slot.
- Pointers `malloc` leaves wild (`reap`, `server`, `password` of a `serverclist`): taken as null. The number
  `conatt` starts with any value of `Unset`.
- Timer functions that delete timers: no module of the repository has one. SIGHUP in
  the middle of a handler: what the walk it interrupts holds is freed and
  perhaps filled again, without enumerable outcomes.
- Exceptional conditions of `select` (urgent data) and sockets of loaded modules.
- `SplitInput`, `convert_clientinfo`, `strip_char_from_end`: they cut a line in place, and the
  modules begin with its parts. In `Access` masks are the sets of what they match,
  and outside `Config` the configuration is constants.
- In `Config`: USER, which is cut at a colon, COMMANDCHAR, which takes one character,
  parentheses in CHANNELS that are not closed (the key then has no end), and
  lines of more than 999 characters.
- In `Sending`: texts that `vsprintf` writes past its static buffer.
- In `Modules`: what else `unlinkmod` clears. The list of CTCP commands goes by the same
  `delcommandmodule` as two of the others; `deltimermodule` reads `next` before it frees the
  node (`timer.c:92`), so that its walk has no such read; and sockets are slots of an array
  (`network.c:245`). Also a handler that changes the list it is called from,
  which only LOADMODULE and REMOVEMODULE do, and their walk ends there.
- In `Match`: the buffer of 100 bytes in which `check_chan` collects a field of an entry's
  channels (`list.c:243`); a longer field of the user file is written behind it
  (`list.c:268`), while `Fields` has fields of any length.
- In `Seen`: `chdir`, `mkdir` and `fopen` that fail, and nicks that begin like paths.
- dice and ctcp replies: stateless but for the delay of ctcp, which is the flood test
  of `Access` once more. The log: output.

## 8. Plan

Done, in this order: `Tracking` (the core state, and the hardest), `TrackingProofs`,
`Session`, `Connection`, `LineReader`, `Timers`, `Access`; then `LinkedList`, `Registry` and
`Modules` with the refinement, `Seen`, reconnects in `LineReader`, `Match`, `Config`,
`Sending`, and the proofs about `Match`; then those about `Connection`, `Timers`, `Access`,
`LineReader`, `Seen`, and the lists, the registries and the loader, and at last those about
`Session`, for which the run `session` had first to say where they hold: it was the proofs
that met the two ways in which kicks and changes of nick confuse the bot. `Membership`,
and that `Tracking` implements it, came last.

To come: ctcp's delay and the flood test as one component; two servers in `connection`.
