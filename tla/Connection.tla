----------------------------- MODULE Connection -----------------------------
(***************************************************************************)
(* Making, losing and remaking the connections to the configured servers:  *)
(* src/src/server.c, and the part of src/src/network.c that keeps the      *)
(* socket slots (connect_to_host, disconnected, send_packet, the idle and  *)
(* keepalive tests and the select loop check_connections).                 *)
(*                                                                         *)
(* A server of the configuration is its slot number; CheckConfServers and  *)
(* check_connections both go through the slots in that order.  The kernel  *)
(* is modelled from the calls made: descriptors are handed out lowest      *)
(* first, and each belongs to the server it was connected to until it is   *)
(* closed.                                                                 *)
(*                                                                         *)
(* Times are kept relative to currtime: `wait' is how long until nexttry,  *)
(* `rcvage', `sndage' and `pingage' how long ago lastrcvpacket,            *)
(* lastsndpacket and the PING behind pingtimeout were, each counted just   *)
(* past the limit it is compared with.  Exceptional conditions of select   *)
(* (TCP urgent data) are left out, and so is the entry AddServer appends,  *)
(* which no lookup finds behind the first one of the slot.                 *)
(***************************************************************************)
EXTENDS Integers, FiniteSets

CONSTANTS
    Servers,    \* number of SERVER lines in the configuration
    Fds,        \* size of the process's descriptor table
    MaxTries,   \* botinfo->maxtries, 0 for no limit
    Timeout,    \* sinfo->timeout, in seconds
    KeepAlive,  \* botinfo->keepalive, in seconds, 0 for off
    Delays,     \* how many seconds a pass of the main loop may take
    MaxAtt,     \* bound: attempts are not counted further
    Unset,      \* what malloc leaves in slist->conatt, which nothing sets
    Resolvable, \* servers whose names resolve
    AtOnce,     \* what connect() may report: "open", "pending", "error"
    Polite      \* does a server say ERROR before it closes?

ASSUME ConnectionAssumption ==
    /\ Servers \in Nat \ {0}
    /\ Fds \in Nat \ {0}
    /\ MaxTries \in Nat
    /\ Timeout \in Nat
    /\ KeepAlive \in Nat
    /\ Delays \subseteq Nat
    /\ MaxAtt \in Nat /\ MaxTries < MaxAtt
    /\ Unset \subseteq 0 .. MaxAtt
    /\ Resolvable \subseteq 1 .. Servers
    /\ AtOnce \subseteq {"open", "pending", "error"}
    /\ Polite \in BOOLEAN

Server == 1 .. Servers
Fd == 0 .. Fds - 1
None == -1      \* no descriptor, and no PING out

VARIABLES
    turn,       \* where the main loop is: which of its loops, at which slot
    slot,       \* the struct socket_info of each server
    conatt,     \* slist->conatt
    wait,       \* slist->nexttry - currtime, 0 once it has passed
    sock,       \* what the kernel has behind each descriptor
    peer,       \* the server each descriptor was connected to
    infd,       \* descriptors select has found readable
    outfd,      \* descriptors select has found writeable
    told,       \* pairs <<s, p>>: the step gave up on s and sent its QUIT to p
    tries,      \* attempts on each server since it last welcomed the bot
    since       \* time since the last attempt on each server, up to 10 seconds

loop    == <<turn, infd, outfd>>
clocks  == <<conatt, wait, tries, since>>
kernel  == <<sock, peer>>
vars    == <<loop, slot, clocks, kernel, told>>

Flag == {"connected", "connecting", "readable", "writeable", "registered"}

Slot == [flags : SUBSET Flag, fd : Fd \cup {None}, hooked : BOOLEAN,
         rcvage : 0 .. Timeout + 1, sndage : 0 .. KeepAlive + 1,
         pingage : {None} \cup 0 .. Timeout + 1]

\* "free" is a number not in use; "refused" one that never came up; "last" one
\* with the line ERROR still to be read before its end; "ended" one at its
\* end; "silent" one whose server has vanished without the kernel noticing.
SockState == {"free", "pending", "refused", "open", "last", "ended", "silent"}

Is(s, flag) == flag \in slot[s].flags
Least(a, b) == IF a < b THEN a ELSE b

-----------------------------------------------------------------------------
(* Operations on a slot *)

\* Wrong on purpose: the slot stays in the set select looks at.
DisconnectedReadable(x) ==
    [x EXCEPT !.flags = @ \ {"connected", "connecting", "writeable"}, !.pingage = None]

\* Wrong on purpose: the attempt is not over.
DisconnectedConnecting(x) ==
    [x EXCEPT !.flags = @ \ {"connected", "readable", "writeable"}, !.pingage = None]

Disconnected(x) ==
    [x EXCEPT !.flags = @ \ {"connected", "connecting", "readable", "writeable"},
              !.pingage = None]

\* May send() succeed?  The first one after the other side has gone does.
Accepts(f) ==
    CASE f = None \/ f \notin Fd -> {FALSE}
      [] OTHER -> CASE sock[f] \in {"open", "last", "silent"} -> {TRUE}
                    [] sock[f] = "ended" -> BOOLEAN
                    [] OTHER -> {FALSE}

send_packet(x, ok) ==
    LET y == [x EXCEPT !.sndage = 0] IN IF ok THEN y ELSE Disconnected(y)

\* disconnect(): QUIT goes out on whatever the slot's number stands for now.
disconnect(x, ok) == Disconnected(send_packet(x, ok))
QuitSent(s, f, ok) == IF ok THEN {<<s, peer[f]>>} ELSE {}

\* Wrong on purpose: the slot goes on looking as if it was connecting.
NetWriteConnecting(x, ok) ==
    IF "connecting" \in x.flags
      THEN send_packet([x EXCEPT !.flags = (@ \ {"writeable"}) \cup {"connected"}], ok)
      ELSE x

\* server_action on NET_WRITE, with register_to_server.
NetWrite(x, ok) ==
    IF "connecting" \in x.flags
      THEN send_packet([x EXCEPT !.flags = (@ \ {"connecting", "writeable"}) \cup {"connected"}],
                       ok)
      ELSE x

Free == {f \in Fd : sock[f] = "free"}
LowestFree == CHOOSE f \in Free : \A g \in Free : f <= g

-----------------------------------------------------------------------------
(* CheckConfServers *)

\* Wrong on purpose: the square from the first attempt on.
CalcSquare(attempt) == attempt * attempt

CalcConDelay(attempt) == IF attempt <= 3 THEN 10 ELSE attempt * attempt

\* Wrong on purpose: the slot's old number is closed before a new one is made,
\* whosever it is.
ConnectClosing(s, x) ==
    /\ s \in Resolvable
    /\ LET left == Free \cup ({x.fd} \cap Fd)
           f == CHOOSE g \in left : \A h \in left : g <= h
       IN /\ left # {}
          /\ slot' = [slot EXCEPT ![s] =
                        [x EXCEPT !.fd = f, !.sndage = 0, !.rcvage = 0,
                                  !.flags = @ \cup {"writeable"}]]
          /\ sock' = [sock EXCEPT ![f] = "pending"]
          /\ peer' = [peer EXCEPT ![f] = s]

\* connect_to_host from the slot x, which it enters as "connecting".
connect_to_host(s, x) ==
    \/ /\ s \notin Resolvable \/ Free = {}
       /\ slot' = [slot EXCEPT ![s] = Disconnected(
                     IF s \in Resolvable THEN [x EXCEPT !.fd = None] ELSE x)]
       /\ UNCHANGED kernel
    \/ /\ s \in Resolvable /\ Free # {}
       /\ LET f == LowestFree
              y == [x EXCEPT !.fd = f, !.sndage = 0, !.rcvage = 0]
          IN \/ /\ "pending" \in AtOnce
                /\ slot' = [slot EXCEPT ![s] = [y EXCEPT !.flags = @ \cup {"writeable"}]]
                /\ sock' = [sock EXCEPT ![f] = "pending"]
                /\ peer' = [peer EXCEPT ![f] = s]
             \/ /\ "open" \in AtOnce
                /\ slot' = [slot EXCEPT ![s] =
                              NetWrite([y EXCEPT !.flags = @ \cup {"readable"}], TRUE)]
                /\ sock' = [sock EXCEPT ![f] = "open"]
                /\ peer' = [peer EXCEPT ![f] = s]
             \/ /\ "error" \in AtOnce       \* and close(sinfo->fd)
                /\ slot' = [slot EXCEPT ![s] = Disconnected(y)]
                /\ UNCHANGED kernel

\* A registered server has its attempts forgotten, connected or not:
\* disconnected() leaves "registered" set, and nothing else clears it.
Forget(s, n) == IF Is(s, "registered") THEN 0 ELSE n

GivenUp(s) == MaxTries # 0 /\ conatt[s] >= MaxTries

\* CheckMissing of a slot that is neither connected nor trying to be.  It
\* calls disconnectonidle where it could have set it as the slot's idle
\* function.
Attempt(s) ==
    /\ ~Is(s, "connected") /\ ~Is(s, "connecting")
    /\ wait[s] = 0
    /\ ~GivenUp(s)
    /\ LET n == Least(conatt[s] + 1, MaxAtt) IN
       /\ conatt' = [conatt EXCEPT ![s] = Forget(s, n)]
       /\ wait' = [wait EXCEPT ![s] = CalcConDelay(n)]
    /\ tries' = [tries EXCEPT ![s] = Least(@ + 1, MaxAtt)]
    /\ since' = [since EXCEPT ![s] = 0]
    /\ \E ok \in Accepts(slot[s].fd) :
          /\ told' = QuitSent(s, slot[s].fd, ok)
          /\ connect_to_host(s, [disconnect(slot[s], ok) EXCEPT
                                   !.flags = @ \cup {"connecting"}])

\* The same pass over a slot that needs no attempt.
LeaveBe(s) ==
    /\ Is(s, "connected") \/ Is(s, "connecting") \/ wait[s] > 0 \/ GivenUp(s)
    /\ conatt' = [conatt EXCEPT ![s] = Forget(s, @)]
    /\ told' = {}
    /\ UNCHANGED <<slot, wait, tries, since, kernel>>

CheckConfServers(s) ==
    /\ turn = <<"conf", s>>
    /\ turn' = IF s < Servers THEN <<"conf", s + 1>> ELSE <<"select", 1>>
    /\ Attempt(s) \/ LeaveBe(s)
    /\ UNCHANGED <<infd, outfd>>

-----------------------------------------------------------------------------
(* check_connections *)

Polled(flag) == {slot[s].fd : s \in {t \in Server : Is(t, flag)}}

\* select.  Open descriptors are readable when their servers have sent a line.
Select ==
    /\ turn[1] = "select"
    /\ turn' = <<"read", 1>>
    /\ slot' = [s \in Server |->
                  IF Is(s, "readable") THEN [slot[s] EXCEPT !.rcvage = 0] ELSE slot[s]]
    /\ \E lines \in SUBSET {f \in Polled("readable") \cap Fd : sock[f] = "open"} :
          infd' = lines \cup {f \in Polled("readable") \cap Fd :
                                 sock[f] \in {"refused", "last", "ended"}}
    /\ outfd' = {f \in Polled("writeable") \cap Fd : sock[f] \notin {"free", "pending"}}
    /\ told' = {}
    /\ UNCHANGED <<clocks, kernel>>

Welcome(s, x) ==
    \E ok \in Accepts(x.fd) :
        /\ slot' = [slot EXCEPT ![s] = send_packet(
                      [x EXCEPT !.flags = @ \cup {"registered"}, !.hooked = TRUE], ok)]
        /\ tries' = [tries EXCEPT ![s] = 0]
        /\ UNCHANGED sock

\* What the handlers of other lines do to the slot: nothing, answer (PING and
\* commands), take a PONG, or give the connection up (KILL, 433 twice).
Handled(x) ==
    {x, [x EXCEPT !.pingage = None], Disconnected(x)}
        \cup {send_packet(x, ok) : ok \in Accepts(x.fd)}

\* server_action on NET_READ: getline_server and the handler of the line.
\* At the end of the stream recv() returns 0 and getline_server takes that for
\* a byte: its loop has no way out.
NetRead(s) ==
    /\ turn = <<"read", s>>
    /\ LET f == slot[s].fd
           x == [slot[s] EXCEPT !.rcvage = 0]
       IN \/ /\ f \notin infd
             /\ turn' = <<"write", s>>
             /\ UNCHANGED <<slot, sock, tries>>
          \/ /\ f \in infd
             /\ sock[f] \in {"open", "silent"}
             /\ turn' = <<"write", s>>
             /\ \/ Welcome(s, x)
                \/ /\ \E y \in {slot[s]} \cup Handled(x) :    \* half a line, or one
                         slot' = [slot EXCEPT ![s] = y]
                   /\ UNCHANGED <<sock, tries>>
          \/ /\ f \in infd
             /\ sock[f] = "last"
             /\ turn' = <<"write", s>>
             /\ slot' = [slot EXCEPT ![s] = Disconnected(x)]
             /\ sock' = [sock EXCEPT ![f] = "ended"]
             /\ UNCHANGED tries
          \/ /\ f \in infd
             /\ sock[f] \in {"refused", "ended"}
             /\ turn' = <<"stuck", s>>
             /\ UNCHANGED <<slot, sock, tries>>
    /\ told' = {}
    /\ UNCHANGED <<infd, outfd, conatt, wait, since, peer>>

\* Every so many turns that loop takes the bytes for an overlong line and
\* disconnects, and goes on.
Spin(s) ==
    /\ turn = <<"stuck", s>>
    /\ slot' = [slot EXCEPT ![s] = Disconnected(@)]
    /\ told' = {}
    /\ UNCHANGED <<loop, clocks, kernel>>

NetWriteable(s) ==
    /\ turn = <<"write", s>>
    /\ turn' = <<"idle", s>>
    /\ \/ /\ slot[s].fd \notin outfd
          /\ UNCHANGED slot
       \/ /\ slot[s].fd \in outfd
          /\ \E ok \in Accepts(slot[s].fd) :
                slot' = [slot EXCEPT ![s] =
                           NetWrite([slot[s] EXCEPT !.flags = @ \cup {"readable"}], ok)]
    /\ told' = {}
    /\ UNCHANGED <<infd, outfd, clocks, kernel>>

\* The idle function of a slot is pingonidle once the server has welcomed us.
IdleTest(s) ==
    /\ turn = <<"idle", s>>
    /\ turn' = <<"keep", s>>
    /\ LET x == slot[s] IN
       \/ /\ ~x.hooked \/ x.rcvage <= Timeout \/ x.pingage \in 0 .. Timeout
          /\ told' = {}
          /\ UNCHANGED slot
       \/ /\ x.hooked /\ x.rcvage > Timeout
          /\ \E ok \in Accepts(x.fd) :
             \/ /\ x.pingage > Timeout
                /\ slot' = [slot EXCEPT ![s] = disconnect(x, ok)]
                /\ told' = QuitSent(s, x.fd, ok)
             \/ /\ x.pingage = None
                /\ slot' = [slot EXCEPT ![s] = send_packet([x EXCEPT !.pingage = 0], ok)]
                /\ told' = {}
    /\ UNCHANGED <<infd, outfd, clocks, kernel>>

\* The keepalive test, then on to the next slot or round the main loop again,
\* which reads the clock.
Older(x, d) ==
    [x EXCEPT !.rcvage = Least(@ + d, Timeout + 1),
              !.sndage = Least(@ + d, KeepAlive + 1),
              !.pingage = IF @ = None THEN None ELSE Least(@ + d, Timeout + 1)]

KeepAliveTest(s) ==
    LET x == slot[s] IN
    IF x.hooked /\ KeepAlive > 0 /\ x.sndage > KeepAlive
      THEN {send_packet(x, ok) : ok \in Accepts(x.fd)}
      ELSE {x}

NextSlot(s) ==
    /\ turn = <<"keep", s>>
    /\ s < Servers
    /\ turn' = <<"read", s + 1>>
    /\ \E x \in KeepAliveTest(s) : slot' = [slot EXCEPT ![s] = x]
    /\ told' = {}
    /\ UNCHANGED <<infd, outfd, clocks, kernel>>

NextPass(d) ==
    /\ turn = <<"keep", Servers>>
    /\ turn' = <<"conf", 1>>
    /\ infd' = {} /\ outfd' = {}
    /\ \E x \in KeepAliveTest(Servers) :
          slot' = [s \in Server |-> Older(IF s = Servers THEN x ELSE slot[s], d)]
    /\ wait' = [s \in Server |-> IF wait[s] > d THEN wait[s] - d ELSE 0]
    /\ since' = [s \in Server |-> Least(since[s] + d, 10)]
    /\ told' = {}
    /\ UNCHANGED <<conatt, tries, kernel>>

-----------------------------------------------------------------------------
(* The network, for the descriptors that slots still refer to *)

Network(f) ==
    /\ \E s \in Server : slot[s].fd = f
    /\ told' = {}
    /\ UNCHANGED <<loop, slot, clocks, peer>>

Settle(f) ==
    /\ Network(f)
    /\ sock[f] = "pending"
    /\ \E r \in {"open", "refused"} : sock' = [sock EXCEPT ![f] = r]

PeerCloses(f) ==
    /\ Network(f)
    /\ sock[f] = "open"
    /\ sock' = [sock EXCEPT ![f] = IF Polite THEN "last" ELSE "ended"]

PeerVanishes(f) ==
    /\ Network(f)
    /\ sock[f] = "open"
    /\ sock' = [sock EXCEPT ![f] = "silent"]

-----------------------------------------------------------------------------
Init ==
    /\ turn = <<"conf", 1>>
    /\ slot = [s \in Server |-> [flags |-> {}, fd |-> 0, hooked |-> FALSE, rcvage |-> 0,
                                 sndage |-> 0, pingage |-> None]]
    /\ conatt \in [Server -> Unset]
    /\ wait = [s \in Server |-> 0]
    /\ sock = [f \in Fd |-> "free"]
    /\ peer = [f \in Fd |-> 1]
    /\ infd = {} /\ outfd = {}
    /\ told = {}
    /\ tries = [s \in Server |-> 0]
    /\ since = [s \in Server |-> 10]

MainLoop ==
    \/ \E s \in Server :
          \/ CheckConfServers(s)
          \/ NetRead(s)
          \/ Spin(s)
          \/ NetWriteable(s)
          \/ IdleTest(s)
          \/ NextSlot(s)
    \/ Select
    \/ \E d \in Delays : NextPass(d)

Next ==
    \/ MainLoop
    \/ \E f \in Fd : Settle(f) \/ PeerCloses(f) \/ PeerVanishes(f)

Spec == Init /\ [][Next]_vars

\* The main loop never rests, time passes in it, and a connection attempt
\* comes to an end.
LiveSpec ==
    /\ Spec
    /\ WF_vars(MainLoop)
    /\ SF_vars(\E d \in Delays \ {0} : NextPass(d))
    /\ \A f \in Fd : WF_vars(Settle(f))

\* Where, moreover, servers can be reached again and again.
LuckySpec ==
    /\ LiveSpec
    /\ \A s \in Server :
          SF_vars(CheckConfServers(s) /\ Attempt(s) /\ "connecting" \in slot'[s].flags)
    /\ \A f \in Fd : SF_vars(Settle(f) /\ sock'[f] = "open")

-----------------------------------------------------------------------------
(* Properties *)

\* Type correctness of the slots, the server list and the kernel's tables.
TypeOK ==
    /\ turn \in {"conf", "select", "read", "write", "idle", "keep", "stuck"} \X Server
    /\ slot \in [Server -> Slot]
    /\ conatt \in [Server -> Nat]
    /\ wait \in [Server -> Nat]
    /\ sock \in [Fd -> SockState]
    /\ peer \in [Fd -> Server]
    /\ infd \subseteq Fd /\ outfd \subseteq Fd
    /\ told \subseteq Server \X Server
    /\ tries \in [Server -> Nat]
    /\ since \in [Server -> 0 .. 10]

\* What the select loop watches for a slot is that slot's own connection: not
\* a descriptor that has been closed, nor one the kernel has since given to
\* the connection of another server.
WatchesOwn ==
    \A s \in Server : Is(s, "readable") \/ Is(s, "writeable") =>
        /\ slot[s].fd \in Fd
        /\ sock[slot[s].fd] # "free"
        /\ peer[slot[s].fd] = s

\* The flags of a slot describe one stage of one connection: a slot that waits
\* for connect() is polled for writing only or not at all, a connected one for
\* reading, and one that has been given up for nothing.
OneStage ==
    /\ TypeOK
    /\ \A s \in Server :
          /\ ~(Is(s, "connected") /\ Is(s, "connecting"))
          /\ Is(s, "connected") => Is(s, "readable") /\ ~Is(s, "writeable")
          /\ Is(s, "writeable") <=> Is(s, "connecting")
          /\ Is(s, "readable") => Is(s, "connected")

\* "no connects less than 10 seconds appart"
AttemptsApart ==
    [][\A s \in Server : CheckConfServers(s) /\ Attempt(s) => since[s] >= 10]_vars

\* "exponentially increase the delay to avoid flooding servers": the delay that
\* follows an attempt is the one for the number of attempts made since the
\* server last welcomed the bot.
BacksOff ==
    [][\A s \in Server : CheckConfServers(s) /\ Attempt(s) =>
            wait[s]' = CalcConDelay(tries[s]')]_vars

\* "Maximum connection attempts to a server before the bot gives up"
GivesUp == MaxTries # 0 => \A s \in Server : tries[s] <= MaxTries

\* A server is told QUIT when its own connection is given up, not when another
\* server's is.
QuitsOwn == \A pair \in told : pair[1] = pair[2]

\* The bot is connected again and again or tries to be again and again, unless
\* a server has closed without a word and the bot reads the end of that stream
\* for ever (getline_server).
KeepsTrying ==
    \/ <>[](turn[1] = "stuck")
    \/ \A s \in Server :
          []<>Is(s, "connected") \/ []<><<CheckConfServers(s) /\ Attempt(s)>>_vars

\* "Auto Reconnect": a server that can be reached again and again is connected
\* to again and again.
ComesBack == \A s \in Server : []<>Is(s, "connected")

\* A server that has vanished is noticed: the connection times out.
SilenceNoticed ==
    \A s \in Server :
        Is(s, "connected") /\ sock[slot[s].fd] = "silent" ~> ~Is(s, "connected")

=============================================================================
