-------------------------- MODULE ConnectionProofs --------------------------
(***************************************************************************)
(* Proofs about Connection, for any number of servers and descriptors and  *)
(* any limits: attempts on a server are ten seconds apart, and, where no   *)
(* slot is left with a number that was never its own, the flags of a slot  *)
(* describe one stage of one connection and select watches that one.       *)
(***************************************************************************)
EXTENDS Connection, Lemmas

-----------------------------------------------------------------------------
(* Operations on a slot *)

\* The flags that say how far a connection is.
Stages == {"connected", "connecting", "readable", "writeable"}

\* What each operation does to the flags and the number of a slot.
LEMMA DisconnectedShape ==
    ASSUME NEW x \in Slot
    PROVE  /\ Disconnected(x) \in Slot
           /\ Disconnected(x).flags
                = x.flags \ Stages
           /\ Disconnected(x).fd = x.fd
BY DEF Disconnected, Slot, Flag, Stages

\* send_packet keeps the stage or, where send() fails, ends it.
LEMMA SendShape ==
    ASSUME NEW x \in Slot, NEW ok \in BOOLEAN
    PROVE  /\ send_packet(x, ok) \in Slot
           /\ send_packet(x, ok).flags
                \in {x.flags, x.flags \ Stages}
           /\ send_packet(x, ok).fd = x.fd
<1> DEFINE y == [x EXCEPT !.sndage = 0]
<1>1. y \in Slot /\ y.flags = x.flags /\ y.fd = x.fd
  BY ConnectionAssumption DEF Slot
<1> HIDE DEF y
<1>2. send_packet(x, ok) \in {y, Disconnected(y)}
  BY DEF send_packet, y
<1> QED
  BY <1>1, <1>2, DisconnectedShape

\* disconnect sends QUIT and ends the stage.
LEMMA DisconnectShape ==
    ASSUME NEW x \in Slot, NEW ok \in BOOLEAN
    PROVE  /\ disconnect(x, ok) \in Slot
           /\ disconnect(x, ok).flags
                = x.flags \ Stages
           /\ disconnect(x, ok).fd = x.fd
BY SendShape, DisconnectedShape DEF disconnect

\* The end of connect() makes "connected" of "connecting", or ends the stage.
LEMMA NetWriteShape ==
    ASSUME NEW x \in Slot, NEW ok \in BOOLEAN
    PROVE  /\ NetWrite(x, ok) \in Slot
           /\ NetWrite(x, ok).flags \in
                IF "connecting" \in x.flags
                  THEN {(x.flags \ {"connecting", "writeable"}) \cup {"connected"},
                        x.flags \ Stages}
                  ELSE {x.flags}
           /\ NetWrite(x, ok).fd = x.fd
<1> DEFINE y == [x EXCEPT !.flags = (@ \ {"connecting", "writeable"}) \cup {"connected"}]
<1>1. /\ y \in Slot /\ y.fd = x.fd
      /\ y.flags = (x.flags \ {"connecting", "writeable"}) \cup {"connected"}
  BY DEF Slot, Flag
<1>2. NetWrite(x, ok) = IF "connecting" \in x.flags THEN send_packet(y, ok) ELSE x
  BY DEF NetWrite
<1> HIDE DEF y
<1>3. y.flags \ Stages = x.flags \ Stages
  BY <1>1 DEF Stages
<1>4. /\ send_packet(y, ok) \in Slot
      /\ send_packet(y, ok).flags \in {y.flags, y.flags \ Stages}
      /\ send_packet(y, ok).fd = y.fd
  BY <1>1, SendShape
<1> QED
  BY <1>1, <1>2, <1>3, <1>4

\* Time goes by.
LEMMA OlderShape ==
    ASSUME NEW x \in Slot, NEW d \in Nat
    PROVE  /\ Older(x, d) \in Slot
           /\ Older(x, d).flags = x.flags
           /\ Older(x, d).fd = x.fd
<1>1. /\ Least(x.rcvage + d, Timeout + 1) \in 0 .. Timeout + 1
      /\ Least(x.sndage + d, KeepAlive + 1) \in 0 .. KeepAlive + 1
      /\ x.pingage # None => Least(x.pingage + d, Timeout + 1) \in 0 .. Timeout + 1
  BY ConnectionAssumption DEF Slot, Least, None
<1> QED
  BY <1>1 DEF Older, Slot

\* Whether send() succeeds is a matter of the descriptor, and on none it fails.
LEMMA AcceptsShape ==
    ASSUME NEW f
    PROVE  /\ Accepts(f) \subseteq BOOLEAN
           /\ TRUE \in Accepts(f) => f \in Fd
BY DEF Accepts

\* The descriptor the kernel hands out is one that is free.
LEMMA LowestIsFree == Free # {} => LowestFree \in Free
<1> SUFFICES ASSUME Free # {}
             PROVE  LowestFree \in Free
  OBVIOUS
<1>1. Free \subseteq Nat
  BY ConnectionAssumption DEF Free, Fd
<1>2. \E f \in Free : \A g \in Free : f <= g
  BY <1>1, LeastNumber
<1> QED
  BY <1>2 DEF LowestFree

\* connect_to_host gives a slot that is about to connect a new descriptor of
\* its own, or leaves it without a connection.
LEMMA ConnectShape ==
    ASSUME NEW s \in Server, NEW x \in Slot, x.flags \cap Stages = {"connecting"},
           connect_to_host(s, x)
    PROVE  \E y \in Slot :
              /\ slot' = [slot EXCEPT ![s] = y]
              /\ \/ /\ y.flags \cap Stages = {}
                    /\ \/ y.fd = None
                       \/ s \notin Resolvable /\ y.fd = x.fd
                       \/ "error" \in AtOnce /\ y.fd \in Fd
                    /\ UNCHANGED kernel
                 \/ /\ y.flags \cap Stages \in {{"connecting", "writeable"},
                                             {"connected", "readable"}}
                    /\ y.fd \in Free
                    /\ \E r \in {"pending", "open"} : sock' = [sock EXCEPT ![y.fd] = r]
                    /\ peer' = [peer EXCEPT ![y.fd] = s]
<1>1. CASE /\ s \notin Resolvable \/ Free = {}
           /\ slot' = [slot EXCEPT ![s] = Disconnected(
                         IF s \in Resolvable THEN [x EXCEPT !.fd = None] ELSE x)]
           /\ UNCHANGED kernel
  <2> DEFINE z == IF s \in Resolvable THEN [x EXCEPT !.fd = None] ELSE x
  <2>1. z \in Slot /\ z.flags = x.flags /\ z.fd \in {None, x.fd}
        /\ (s \in Resolvable => z.fd = None)
    BY DEF Slot
  <2>2. slot' = [slot EXCEPT ![s] = Disconnected(z)]
    BY <1>1
  <2> HIDE DEF z
  <2>3. (x.flags \ Stages) \cap Stages = {}
    OBVIOUS
  <2> QED
    <3> DEFINE d == Disconnected(z)
    <3>1. d \in Slot /\ d.flags \cap Stages = {} /\ d.fd = z.fd
      BY <2>1, <2>3, DisconnectedShape
    <3>2. slot' = [slot EXCEPT ![s] = d]
      BY <2>2
    <3> HIDE DEF d
    <3>3. /\ d.fd = None \/ (s \notin Resolvable /\ d.fd = x.fd)
                        \/ ("error" \in AtOnce /\ d.fd \in Fd)
          /\ UNCHANGED kernel
      BY <1>1, <2>1, <3>1
    <3> QED
      BY <3>1, <3>2, <3>3
<1>2. CASE s \in Resolvable /\ Free # {}
  <2> DEFINE f == LowestFree
             y == [x EXCEPT !.fd = f, !.sndage = 0, !.rcvage = 0]
  <2>1. f \in Free /\ f \in Fd
    BY <1>2, LowestIsFree DEF Free
  <2>2. y \in Slot /\ y.flags = x.flags /\ y.fd = f
    <3>1. 0 \in 0 .. KeepAlive + 1 /\ 0 \in 0 .. Timeout + 1
      BY ConnectionAssumption
    <3>2. \A g : g = f => [x EXCEPT !.fd = g, !.sndage = 0, !.rcvage = 0] \in Slot
      BY <2>1, <3>1 DEF Slot
    <3> QED
      BY <3>2 DEF Slot
  <2>3. CASE /\ slot' = [slot EXCEPT ![s] = [y EXCEPT !.flags = @ \cup {"writeable"}]]
             /\ sock' = [sock EXCEPT ![f] = "pending"]
             /\ peer' = [peer EXCEPT ![f] = s]
    <3> DEFINE w == [y EXCEPT !.flags = @ \cup {"writeable"}]
    <3>1. w \in Slot /\ w.flags = x.flags \cup {"writeable"} /\ w.fd = f
      BY <2>2 DEF Slot, Flag
    <3>2. w.flags \cap Stages = {"connecting", "writeable"}
      BY <3>1 DEF Stages
    <3> HIDE DEF w
    <3> QED
      BY <2>1, <2>3, <3>1, <3>2 DEF w
  <2>4. CASE /\ slot' = [slot EXCEPT ![s] =
                           NetWrite([y EXCEPT !.flags = @ \cup {"readable"}], TRUE)]
             /\ sock' = [sock EXCEPT ![f] = "open"]
             /\ peer' = [peer EXCEPT ![f] = s]
    <3> DEFINE w == [y EXCEPT !.flags = @ \cup {"readable"}]
               v == [w EXCEPT !.flags = (@ \ {"connecting", "writeable"}) \cup {"connected"}]
    <3>1. w \in Slot /\ w.flags = x.flags \cup {"readable"} /\ w.fd = f
      BY <2>2 DEF Slot, Flag
    <3>2. v \in Slot /\ v.fd = f
          /\ v.flags = (w.flags \ {"connecting", "writeable"}) \cup {"connected"}
      BY <3>1 DEF Slot, Flag
    <3>3. v.flags \cap Stages = {"connected", "readable"}
      BY <3>1, <3>2 DEF Stages
    <3>4. "connecting" \in w.flags
      BY <3>1
    <3>5. NetWrite(w, TRUE) = [v EXCEPT !.sndage = 0]
      BY <3>4 DEF NetWrite, send_packet
    <3>6. [v EXCEPT !.sndage = 0] \in Slot /\ [v EXCEPT !.sndage = 0].flags = v.flags
          /\ [v EXCEPT !.sndage = 0].fd = f
      BY <3>2, ConnectionAssumption DEF Slot
    <3> HIDE DEF w, v
    <3>7. slot' = [slot EXCEPT ![s] = [v EXCEPT !.sndage = 0]]
      BY <2>4, <3>5 DEF w
    <3> QED
      BY <2>1, <2>4, <3>3, <3>6, <3>7
  <2>5. CASE /\ "error" \in AtOnce
             /\ slot' = [slot EXCEPT ![s] = Disconnected(y)]
             /\ UNCHANGED kernel
    <3> DEFINE d == Disconnected(y)
    <3>1. d \in Slot /\ d.flags \cap Stages = {} /\ d.fd = f
      BY <2>2, DisconnectedShape
    <3>2. slot' = [slot EXCEPT ![s] = d]
      BY <2>5
    <3> HIDE DEF d
    <3>3. "error" \in AtOnce /\ UNCHANGED kernel /\ d.fd \in Fd
      BY <2>1, <2>5, <3>1
    <3> QED
      BY <3>1, <3>2, <3>3
  <2> QED
    BY <1>2, <2>3, <2>4, <2>5 DEF connect_to_host
<1> QED
  BY <1>1, <1>2 DEF connect_to_host

-----------------------------------------------------------------------------
(* Type correctness *)

\* y is the slot x with the same number, at the same stage or given up.
Kept(x, y) ==
    /\ y \in Slot
    /\ y.fd = x.fd
    /\ y.flags \cap Stages \in {x.flags \cap Stages, {}}

\* Sending and disconnecting keep a slot at its stage or give it up.
LEMMA KeptSent ==
    ASSUME NEW x \in Slot, NEW ok \in BOOLEAN
    PROVE  /\ Kept(x, x)
           /\ Kept(x, Disconnected(x))
           /\ Kept(x, send_packet(x, ok))
           /\ Kept(x, disconnect(x, ok))
<1>1. (x.flags \ Stages) \cap Stages = {}
  OBVIOUS
<1> QED
  BY <1>1, DisconnectedShape, SendShape, DisconnectShape DEF Kept

\* A handler of a line, the keepalive test and the reply to a welcome keep the
\* slot at its stage or give it up.
LEMMA HandledShape ==
    ASSUME NEW x \in Slot, NEW y \in Handled(x)
    PROVE  Kept(x, y)
<1> DEFINE z == [x EXCEPT !.pingage = None]
<1>1. z \in Slot /\ z.fd = x.fd /\ z.flags = x.flags
  BY DEF Slot
<1> HIDE DEF z
<1>2. Kept(x, z)
  BY <1>1 DEF Kept
<1>3. y = x \/ y = z \/ y = Disconnected(x)
        \/ \E ok \in BOOLEAN : y = send_packet(x, ok)
  BY AcceptsShape DEF Handled, z
<1> QED
  BY <1>2, <1>3, KeptSent

\* So does the keepalive, which sends a PING or nothing.
LEMMA KeepAliveShape ==
    ASSUME NEW s \in Server, slot[s] \in Slot, NEW y \in KeepAliveTest(s)
    PROVE  Kept(slot[s], y)
<1>1. y = slot[s] \/ \E ok \in BOOLEAN : y = send_packet(slot[s], ok)
  BY AcceptsShape DEF KeepAliveTest
<1> QED
  BY <1>1, KeptSent

\* So does a 001, which adds "registered" and sends the JOINs.
LEMMA WelcomeShape ==
    ASSUME NEW s \in Server, NEW x \in Slot, Welcome(s, x)
    PROVE  \E y : slot' = [slot EXCEPT ![s] = y] /\ Kept(x, y)
<1> DEFINE z == [x EXCEPT !.flags = @ \cup {"registered"}, !.hooked = TRUE]
<1>1. z \in Slot /\ z.fd = x.fd /\ z.flags = x.flags \cup {"registered"}
  BY DEF Slot, Flag
<1>2. z.flags \cap Stages = x.flags \cap Stages
  BY <1>1 DEF Stages
<1>3. \E ok \in BOOLEAN : slot' = [slot EXCEPT ![s] = send_packet(z, ok)]
  BY AcceptsShape DEF Welcome
<1> HIDE DEF z
<1>4. \A ok \in BOOLEAN : Kept(z, send_packet(z, ok))
  BY <1>1, KeptSent
<1> QED
  BY <1>1, <1>2, <1>3, <1>4 DEF Kept

\* The slot that connect_to_host is called with.
LEMMA AttemptShape ==
    ASSUME TypeOK, NEW s \in Server, Attempt(s)
    PROVE  \E x \in Slot : /\ x.flags \cap Stages = {"connecting"}
                           /\ x.fd = slot[s].fd
                           /\ connect_to_host(s, x)
<1>1. PICK ok \in BOOLEAN :
        connect_to_host(s, [disconnect(slot[s], ok) EXCEPT !.flags = @ \cup {"connecting"}])
  BY AcceptsShape DEF Attempt
<1> DEFINE y == disconnect(slot[s], ok)
           x == [y EXCEPT !.flags = @ \cup {"connecting"}]
<1>2. y \in Slot /\ y.flags = slot[s].flags \ Stages /\ y.fd = slot[s].fd
  BY DisconnectShape DEF TypeOK
<1>3. x \in Slot /\ x.flags = y.flags \cup {"connecting"} /\ x.fd = y.fd
  BY <1>2 DEF Slot, Flag
<1>4. x.flags \cap Stages = {"connecting"}
  BY <1>2, <1>3 DEF Stages
<1> HIDE DEF x
<1> QED
  BY <1>1, <1>2, <1>3, <1>4 DEF x

\* A step that works on one slot and connects nothing.
LEMMA OneSlot ==
    ASSUME slot \in [Server -> Slot], NEW s \in Server,
           NEW y, Kept(slot[s], y), slot' = [slot EXCEPT ![s] = y]
    PROVE  /\ slot' \in [Server -> Slot]
           /\ \A t \in Server : Kept(slot[t], slot'[t])
<1>1. \A t \in Server : slot'[t] = IF t = s THEN y ELSE slot[t]
  OBVIOUS
<1>2. \A t \in Server : Kept(slot[t], slot[t])
  BY DEF Kept
<1>3. \A t \in Server : Kept(slot[t], slot'[t])
  BY <1>1, <1>2
<1>4. y \in Slot
  BY DEF Kept
<1> QED
  BY <1>3, <1>4

\* So does reading, whatever lines come, and the end of the stream.
LEMMA NetReadShape ==
    ASSUME TypeOK, NEW s \in Server, NetRead(s)
    PROVE  \E y : Kept(slot[s], y) /\ slot' = [slot EXCEPT ![s] = y]
<1> DEFINE f == slot[s].fd
           x == [slot[s] EXCEPT !.rcvage = 0]
<1>0. slot \in [Server -> Slot] /\ slot[s] \in Slot
  BY DEF TypeOK
<1>1. x \in Slot /\ x.fd = slot[s].fd /\ x.flags = slot[s].flags
  BY <1>0, ConnectionAssumption DEF Slot
<1>2. Kept(slot[s], x) /\ Kept(slot[s], slot[s])
  BY <1>0, <1>1 DEF Kept
<1>3. \A y : Kept(x, y) => Kept(slot[s], y)
  BY <1>1 DEF Kept
<1>4. slot = [slot EXCEPT ![s] = slot[s]]
  BY <1>0
<1> HIDE DEF x
<1>5. CASE UNCHANGED slot
  BY <1>2, <1>4, <1>5
<1>6. CASE Welcome(s, x)
  BY <1>1, <1>3, <1>6, WelcomeShape
<1>7. CASE \E y \in {slot[s]} \cup Handled(x) : slot' = [slot EXCEPT ![s] = y]
  BY <1>1, <1>2, <1>3, <1>7, HandledShape
<1>8. CASE slot' = [slot EXCEPT ![s] = Disconnected(x)]
  BY <1>1, <1>3, <1>8, KeptSent
<1> QED
  BY <1>5, <1>6, <1>7, <1>8 DEF NetRead, x

\* So does the test for silence.
LEMMA IdleTestShape ==
    ASSUME TypeOK, NEW s \in Server, IdleTest(s)
    PROVE  \E y : Kept(slot[s], y) /\ slot' = [slot EXCEPT ![s] = y]
<1> DEFINE x == slot[s]
           z == [x EXCEPT !.pingage = 0]
<1>0. slot \in [Server -> Slot] /\ x \in Slot /\ slot = [slot EXCEPT ![s] = x]
  BY DEF TypeOK
<1>1. z \in Slot /\ z.fd = x.fd /\ z.flags = x.flags
  BY <1>0, ConnectionAssumption DEF Slot
<1>2. \A y : Kept(z, y) => Kept(x, y)
  BY <1>1 DEF Kept
<1> HIDE DEF z
<1>3. CASE UNCHANGED slot
  BY <1>0, <1>3, KeptSent
<1>4. CASE \E ok \in BOOLEAN : slot' = [slot EXCEPT ![s] = disconnect(x, ok)]
  BY <1>0, <1>4, KeptSent
<1>5. CASE \E ok \in BOOLEAN : slot' = [slot EXCEPT ![s] = send_packet(z, ok)]
  BY <1>1, <1>2, <1>5, KeptSent
<1> QED
  BY <1>3, <1>4, <1>5, AcceptsShape DEF IdleTest, z

\* The slots keep their stages or are given up, and no descriptor is freed.
Quiet ==
    /\ slot' \in [Server -> Slot]
    /\ \A t \in Server : Kept(slot[t], slot'[t])
    /\ sock' \in [Fd -> SockState]
    /\ \A f \in Fd : sock[f] # "free" => sock'[f] # "free"
    /\ UNCHANGED peer

\* Every step but an attempt and the end of a connect() is such a step.
LEMMA QuietStep ==
    ASSUME TypeOK,
           \/ UNCHANGED vars
           \/ Select
           \/ \E s \in Server : \/ CheckConfServers(s) /\ LeaveBe(s)
                                \/ NetRead(s)
                                \/ Spin(s)
                                \/ IdleTest(s)
                                \/ NextSlot(s)
           \/ \E d \in Delays : NextPass(d)
           \/ \E f \in Fd : Settle(f) \/ PeerCloses(f) \/ PeerVanishes(f)
    PROVE  Quiet
<1>0. slot \in [Server -> Slot] /\ sock \in [Fd -> SockState]
  BY DEF TypeOK
<1>1. \A t \in Server : Kept(slot[t], slot[t])
  BY <1>0 DEF Kept
<1>2. CASE UNCHANGED vars
  BY <1>0, <1>1, <1>2 DEF vars, kernel, Quiet
<1>3. CASE Select
  <2>1. \A t \in Server : slot'[t] = IF Is(t, "readable") THEN [slot[t] EXCEPT !.rcvage = 0]
                                                         ELSE slot[t]
    BY <1>3 DEF Select
  <2>2. \A x \in Slot : Kept(x, [x EXCEPT !.rcvage = 0])
    BY ConnectionAssumption DEF Kept, Slot
  <2>3. \A t \in Server : Kept(slot[t], slot'[t])
    BY <1>0, <1>1, <2>1, <2>2
  <2>4. slot' = [t \in Server |-> slot'[t]]
    BY <1>3 DEF Select
  <2> QED
    BY <1>0, <1>3, <2>3, <2>4 DEF Select, kernel, Kept, Quiet
<1>4. CASE \E s \in Server : CheckConfServers(s) /\ LeaveBe(s)
  BY <1>0, <1>1, <1>4 DEF LeaveBe, kernel, Quiet
<1>5. ASSUME NEW s \in Server, NetRead(s)
      PROVE  Quiet
  <2>1. \/ UNCHANGED sock
        \/ sock[slot[s].fd] = "last" /\ sock' = [sock EXCEPT ![slot[s].fd] = "ended"]
    BY <1>5 DEF NetRead, Welcome
  <2> QED
    BY <1>0, <1>5, <2>1, NetReadShape, OneSlot DEF NetRead, SockState, Quiet
<1>6. ASSUME NEW s \in Server, Spin(s)
      PROVE  Quiet
  BY <1>0, <1>6, KeptSent, OneSlot DEF Spin, kernel, Quiet
<1>7. ASSUME NEW s \in Server, IdleTest(s)
      PROVE  Quiet
  BY <1>0, <1>7, IdleTestShape, OneSlot DEF IdleTest, kernel, Quiet
<1>8. ASSUME NEW s \in Server, NextSlot(s)
      PROVE  Quiet
  BY <1>0, <1>8, KeepAliveShape, OneSlot DEF NextSlot, kernel, Quiet
<1>9. ASSUME NEW d \in Delays, NextPass(d)
      PROVE  Quiet
  <2>1. Servers \in Server /\ d \in Nat
    BY ConnectionAssumption DEF Server
  <2>2. PICK x \in KeepAliveTest(Servers) :
          slot' = [s \in Server |-> Older(IF s = Servers THEN x ELSE slot[s], d)]
    BY <1>9 DEF NextPass
  <2>3. Kept(slot[Servers], x)
    BY <1>0, <2>1, KeepAliveShape
  <2>4. ASSUME NEW t \in Server
        PROVE  Kept(slot[t], slot'[t])
    <3> DEFINE y == IF t = Servers THEN x ELSE slot[t]
    <3>1. Kept(slot[t], y)
      BY <1>1, <2>3
    <3>2. Older(y, d) \in Slot /\ Older(y, d).flags = y.flags /\ Older(y, d).fd = y.fd
      BY <2>1, <3>1, OlderShape DEF Kept
    <3>3. slot'[t] = Older(y, d)
      BY <2>2
    <3> HIDE DEF y
    <3> QED
      BY <3>1, <3>2, <3>3 DEF Kept
  <2> QED
    BY <1>0, <1>9, <2>2, <2>4 DEF NextPass, kernel, Kept, Quiet
<1>10. CASE \E f \in Fd : Settle(f) \/ PeerCloses(f) \/ PeerVanishes(f)
  BY <1>0, <1>1, <1>10 DEF Settle, PeerCloses, PeerVanishes, Network, SockState, Quiet
<1> QED
  BY <1>2, <1>3, <1>4, <1>5, <1>6, <1>7, <1>8, <1>9, <1>10

\* An attempt ends with its slot connecting on a new number, or with none of
\* the stages and no number, or the number it had where the name does not resolve.
LEMMA AttemptStep ==
    ASSUME TypeOK, NEW s \in Server, Attempt(s)
    PROVE  \E y \in Slot :
              /\ slot' = [slot EXCEPT ![s] = y]
              /\ \/ /\ y.flags \cap Stages = {}
                    /\ \/ y.fd = None
                       \/ s \notin Resolvable /\ y.fd = slot[s].fd
                       \/ "error" \in AtOnce /\ y.fd \in Fd
                    /\ UNCHANGED kernel
                 \/ /\ y.flags \cap Stages \in {{"connecting", "writeable"},
                                             {"connected", "readable"}}
                    /\ y.fd \in Free
                    /\ \E r \in {"pending", "open"} : sock' = [sock EXCEPT ![y.fd] = r]
                    /\ peer' = [peer EXCEPT ![y.fd] = s]
<1>1. PICK x \in Slot : /\ x.flags \cap Stages = {"connecting"}
                        /\ x.fd = slot[s].fd
                        /\ connect_to_host(s, x)
  BY AttemptShape
<1> QED
  BY <1>1, ConnectShape

\* A connection that comes up leaves the slot polled for reading, if the first
\* lines can be sent on it.
LEMMA WriteStep ==
    ASSUME TypeOK, NEW s \in Server, NetWriteable(s)
    PROVE  \E y \in Slot :
              /\ slot' = [slot EXCEPT ![s] = y]
              /\ y.fd = slot[s].fd
              /\ slot[s].fd \notin outfd => y = slot[s]
              /\ /\ slot[s].fd \in outfd
                 /\ slot[s].flags \cap Stages = {"connecting", "writeable"}
                 => y.flags \cap Stages \in {{"connected", "readable"}, {}}
<1>0. slot \in [Server -> Slot] /\ slot[s] \in Slot /\ slot = [slot EXCEPT ![s] = slot[s]]
  BY DEF TypeOK
<1>1. CASE slot[s].fd \notin outfd
  BY <1>0, <1>1 DEF NetWriteable
<1>2. CASE slot[s].fd \in outfd
  <2> DEFINE x == [slot[s] EXCEPT !.flags = @ \cup {"readable"}]
  <2>1. x \in Slot /\ x.fd = slot[s].fd /\ x.flags = slot[s].flags \cup {"readable"}
    BY <1>0 DEF Slot, Flag
  <2>2. PICK ok \in BOOLEAN : slot' = [slot EXCEPT ![s] = NetWrite(x, ok)]
    BY <1>0, <1>2, AcceptsShape DEF NetWriteable
  <2> DEFINE y == NetWrite(x, ok)
  <2>3. y \in Slot /\ y.fd = x.fd
        /\ y.flags \in IF "connecting" \in x.flags
                         THEN {(x.flags \ {"connecting", "writeable"}) \cup {"connected"},
                               x.flags \ Stages}
                         ELSE {x.flags}
    BY <2>1, NetWriteShape
  <2>4. ASSUME slot[s].flags \cap Stages = {"connecting", "writeable"}
        PROVE  y.flags \cap Stages \in {{"connected", "readable"}, {}}
    <3>1. "connecting" \in x.flags
      BY <2>1, <2>4
    <3>2. CASE y.flags = x.flags \ Stages
      BY <3>2
    <3>3. CASE y.flags = (x.flags \ {"connecting", "writeable"}) \cup {"connected"}
      <4>1. y.flags \cap Stages = {"connected", "readable"}
        BY <2>1, <2>4, <3>3 DEF Stages
      <4> QED
        BY <4>1
    <3> QED
      BY <2>3, <3>1, <3>2, <3>3
  <2> HIDE DEF y, x
  <2> QED
    BY <1>2, <2>1, <2>2, <2>3, <2>4 DEF y
<1> QED
  BY <1>1, <1>2

\* What an attempt tells the server it gives up on, and on what.
LEMMA QuitShape ==
    ASSUME TypeOK, NEW s \in Server, NEW f, NEW ok \in Accepts(f)
    PROVE  QuitSent(s, f, ok) \subseteq Server \X Server
<1>1. ok \in BOOLEAN /\ (ok => f \in Fd)
  BY AcceptsShape
<1>2. f \in Fd => peer[f] \in Server
  BY DEF TypeOK
<1> QED
  BY <1>1, <1>2 DEF QuitSent

\* calc_con_delay waits ten seconds or more.
LEMMA DelayAtLeastTen ==
    ASSUME NEW n \in Nat
    PROVE  CalcConDelay(n) \in Nat /\ CalcConDelay(n) >= 10
<1>1. CASE n <= 3
  BY <1>1 DEF CalcConDelay
<1>2. CASE n > 3
  <2>1. n * n \in Nat
    OBVIOUS
  <2>2. PICK k \in Nat : n = 4 + k
    <3>1. n - 4 \in Nat /\ n = 4 + (n - 4)
      BY <1>2
    <3> QED
      BY <3>1
  <2>3. n * n = 16 + 8 * k + k * k /\ k * k \in Nat
    BY <2>2
  <2> QED
    BY <1>2, <2>1, <2>2, <2>3 DEF CalcConDelay
<1> QED
  BY <1>1, <1>2

\* The slots are zeroed memory at first.
LEMMA InitTypeOK == Init => TypeOK
<1> SUFFICES ASSUME Init
             PROVE  TypeOK
  OBVIOUS
<1>1. 1 \in Server /\ Fd \subseteq Int
  BY ConnectionAssumption DEF Server, Fd
<1>2. 0 \in Fd /\ 0 \in 0 .. Timeout + 1 /\ 0 \in 0 .. KeepAlive + 1
  BY ConnectionAssumption DEF Fd
<1>3. slot \in [Server -> Slot]
  BY <1>1, <1>2 DEF Init, Slot, Flag
<1>4. conatt \in [Server -> Nat]
  <2>1. Unset \subseteq Nat
    <3>1. \A n \in 0 .. MaxAtt : n \in Nat
      BY ConnectionAssumption
    <3> QED
      BY <3>1, ConnectionAssumption
  <2> QED
    BY <2>1 DEF Init
<1>5. sock \in [Fd -> SockState] /\ peer \in [Fd -> Server]
  BY <1>1 DEF Init, SockState
<1>6. /\ turn \in {"conf", "select", "read", "write", "idle", "keep", "stuck"} \X Server
      /\ wait \in [Server -> Nat] /\ tries \in [Server -> Nat]
      /\ since \in [Server -> 0 .. 10]
  BY <1>1 DEF Init
<1> QED
  BY <1>3, <1>4, <1>5, <1>6 DEF Init, TypeOK

\* Every step of the loop, the servers and the clock keeps the types.
LEMMA NextTypeOK == TypeOK /\ [Next]_vars => TypeOK'
<1> SUFFICES ASSUME TypeOK, [Next]_vars
             PROVE  TypeOK'
  OBVIOUS
<1> USE DEF TypeOK
<1>0. Servers \in Nat /\ MaxAtt \in Nat /\ Server = 1 .. Servers /\ 1 \in Server
  BY ConnectionAssumption DEF Server
<1>1. CASE UNCHANGED vars
  BY <1>1 DEF vars, loop, clocks, kernel
<1>2. ASSUME NEW s \in Server, CheckConfServers(s)
      PROVE  TypeOK'
  <2>1. /\ turn' \in {"conf", "select"} \X Server
        /\ infd' \subseteq Fd /\ outfd' \subseteq Fd
    <3>1. s < Servers => s + 1 \in Server
      BY <1>0
    <3>2. turn' \in {"conf", "select"} \X Server
      BY <1>0, <1>2, <3>1 DEF CheckConfServers
    <3> QED
      BY <1>2, <3>2 DEF CheckConfServers
  <2>2. CASE Attempt(s)
    <3> DEFINE n == Least(conatt[s] + 1, MaxAtt)
    <3>1. n \in Nat /\ CalcConDelay(n) \in Nat /\ Forget(s, n) \in Nat
      <4>1. n \in Nat
        BY <1>0, SMTT(30) DEF Least
      <4> HIDE DEF n
      <4> QED
        BY <4>1, DelayAtLeastTen DEF Forget
    <3>2. Least(tries[s] + 1, MaxAtt) \in Nat
      BY <1>0, SMTT(30) DEF Least
    <3> HIDE DEF n
    <3>3. /\ conatt' = [conatt EXCEPT ![s] = Forget(s, n)]
          /\ wait' = [wait EXCEPT ![s] = CalcConDelay(n)]
          /\ tries' = [tries EXCEPT ![s] = Least(tries[s] + 1, MaxAtt)]
          /\ since' = [since EXCEPT ![s] = 0]
      BY <2>2 DEF Attempt, n
    <3>4. /\ conatt' \in [Server -> Nat] /\ wait' \in [Server -> Nat]
          /\ tries' \in [Server -> Nat] /\ since' \in [Server -> 0 .. 10]
      BY <3>1, <3>2, <3>3
    <3>5. told' \subseteq Server \X Server
      BY <2>2, QuitShape DEF Attempt
    <3>6. PICK y \in Slot :
              /\ slot' = [slot EXCEPT ![s] = y]
              /\ \/ UNCHANGED kernel
                 \/ /\ y.fd \in Free
                    /\ \E r \in {"pending", "open"} : sock' = [sock EXCEPT ![y.fd] = r]
                    /\ peer' = [peer EXCEPT ![y.fd] = s]
      BY <2>2, AttemptStep
    <3>7. slot' \in [Server -> Slot] /\ sock' \in [Fd -> SockState] /\ peer' \in [Fd -> Server]
      BY <3>6 DEF kernel, SockState, Free
    <3> QED
      BY <2>1, <3>4, <3>5, <3>7
  <2>3. CASE LeaveBe(s)
    <3>1. Quiet
      BY <1>2, <2>3, QuietStep
    <3>2. conatt' \in [Server -> Nat]
      BY <2>3 DEF LeaveBe, Forget
    <3> QED
      BY <2>1, <2>3, <3>1, <3>2 DEF LeaveBe, Quiet
  <2> QED
    BY <1>2, <2>2, <2>3 DEF CheckConfServers
<1>3. ASSUME NEW s \in Server, NetRead(s)
      PROVE  TypeOK'
  <2>1. Quiet
    BY <1>3, QuietStep
  <2>2. tries' \in [Server -> Nat]
    BY <1>3 DEF NetRead, Welcome
  <2> QED
    BY <1>3, <2>1, <2>2 DEF NetRead, Quiet
<1>4. ASSUME NEW s \in Server, Spin(s)
      PROVE  TypeOK'
  <2>1. Quiet
    BY <1>4, QuietStep
  <2> QED
    BY <1>4, <2>1 DEF Spin, Quiet, loop, clocks
<1>5. ASSUME NEW s \in Server, NetWriteable(s)
      PROVE  TypeOK'
  <2>1. slot' \in [Server -> Slot]
    BY <1>5, WriteStep
  <2> QED
    BY <1>5, <2>1 DEF NetWriteable, clocks, kernel
<1>6. ASSUME NEW s \in Server, IdleTest(s)
      PROVE  TypeOK'
  <2>1. Quiet
    BY <1>6, QuietStep
  <2>2. told' \subseteq Server \X Server
    BY <1>6, QuitShape DEF IdleTest
  <2> QED
    BY <1>6, <2>1, <2>2 DEF IdleTest, Quiet, clocks, kernel
<1>7. ASSUME NEW s \in Server, NextSlot(s)
      PROVE  TypeOK'
  <2>1. Quiet
    BY <1>7, QuietStep
  <2>2. s < Servers /\ turn' = <<"read", s + 1>>
    BY <1>7 DEF NextSlot
  <2>3. s + 1 \in Server
    BY <2>2, ConnectionAssumption DEF Server
  <2> QED
    BY <1>7, <2>1, <2>2, <2>3 DEF NextSlot, Quiet, clocks, kernel
<1>8. CASE Select
  <2>1. Quiet
    BY <1>8, QuietStep
  <2> QED
    BY <1>0, <1>8, <2>1 DEF Select, Quiet, clocks, kernel
<1>9. ASSUME NEW d \in Delays, NextPass(d)
      PROVE  TypeOK'
  <2>1. Quiet
    BY <1>9, QuietStep
  <2>2. d \in Nat
    BY ConnectionAssumption
  <2>3. wait' \in [Server -> Nat]
    BY <1>9, <2>2 DEF NextPass
  <2>4. since' \in [Server -> 0 .. 10]
    <3>1. \A s \in Server : Least(since[s] + d, 10) \in 0 .. 10
      BY <2>2 DEF Least
    <3> QED
      BY <1>9, <3>1 DEF NextPass
  <2> QED
    BY <1>0, <1>9, <2>1, <2>3, <2>4 DEF NextPass, Quiet, kernel
<1>10. CASE \E f \in Fd : Settle(f) \/ PeerCloses(f) \/ PeerVanishes(f)
  <2>1. Quiet
    BY <1>10, QuietStep
  <2> QED
    BY <1>10, <2>1 DEF Settle, PeerCloses, PeerVanishes, Network, Quiet, loop, clocks
<1> QED
  BY <1>1, <1>2, <1>3, <1>4, <1>5, <1>6, <1>7, <1>8, <1>9, <1>10 DEF Next, MainLoop

\* The slots, the server list and the kernel's tables keep their types.
THEOREM TypeCorrect == Spec => []TypeOK
<1>1. Init => TypeOK
  BY InitTypeOK
<1>2. TypeOK /\ [Next]_vars => TypeOK'
  BY NextTypeOK
<1> QED
  BY <1>1, <1>2, PTL DEF Spec

-----------------------------------------------------------------------------
(* Attempts are ten seconds apart *)

\* What is left of a wait and what has passed of it make up ten seconds.
Spaced == \A s \in Server : wait[s] + since[s] >= 10

\* Every step keeps the ten seconds.
LEMMA NextSpaced == TypeOK /\ Spaced /\ [Next]_vars => Spaced'
<1> SUFFICES ASSUME TypeOK, Spaced, [Next]_vars
             PROVE  Spaced'
  OBVIOUS
<1>0. /\ wait \in [Server -> Nat] /\ since \in [Server -> 0 .. 10]
      /\ \A s \in Server : wait[s] + since[s] >= 10
  BY DEF TypeOK, Spaced
<1>1. CASE wait' = wait /\ since' = since
  BY <1>0, <1>1 DEF Spaced
<1>2. ASSUME NEW s \in Server, Attempt(s)
      PROVE  Spaced'
  <2> DEFINE n == Least(conatt[s] + 1, MaxAtt)
  <2>1. n \in Nat
    BY ConnectionAssumption DEF Least, TypeOK
  <2>2. wait' = [wait EXCEPT ![s] = CalcConDelay(n)] /\ since' = [since EXCEPT ![s] = 0]
    BY <1>2 DEF Attempt
  <2> HIDE DEF n
  <2>3. CalcConDelay(n) \in Nat /\ CalcConDelay(n) >= 10
    BY <2>1, DelayAtLeastTen
  <2>4. \A t \in Server : /\ wait'[t] = IF t = s THEN CalcConDelay(n) ELSE wait[t]
                          /\ since'[t] = IF t = s THEN 0 ELSE since[t]
    BY <1>0, <2>2
  <2> QED
    BY <1>0, <2>3, <2>4 DEF Spaced
<1>3. ASSUME NEW d \in Delays, NextPass(d)
      PROVE  Spaced'
  <2>1. d \in Nat
    BY ConnectionAssumption
  <2>2. ASSUME NEW t \in Server
        PROVE  wait'[t] + since'[t] >= 10
    <3>1. /\ wait'[t] = IF wait[t] > d THEN wait[t] - d ELSE 0
          /\ since'[t] = Least(since[t] + d, 10)
      BY <1>3 DEF NextPass
    <3>2. wait[t] \in Nat /\ since[t] \in 0 .. 10 /\ wait[t] + since[t] >= 10
      BY <1>0
    <3> QED
      BY <2>1, <3>1, <3>2 DEF Least
  <2> QED
    BY <2>2 DEF Spaced
<1> QED
  BY <1>1, <1>2, <1>3 DEF Next, MainLoop, CheckConfServers, LeaveBe, NetRead, Spin,
     NetWriteable, IdleTest, NextSlot, Select, Settle, PeerCloses, PeerVanishes, Network,
     vars, clocks

\* "no connects less than 10 seconds appart": whatever the number of servers
\* and their answers, an attempt is made ten seconds after the last or later.
THEOREM AttemptsTenSecondsApart == Spec => AttemptsApart
<1>1. Init => TypeOK /\ Spaced
  BY InitTypeOK DEF Init, Spaced
<1>2. TypeOK /\ Spaced /\ [Next]_vars => (TypeOK /\ Spaced)'
  BY NextTypeOK, NextSpaced
<1>3. TypeOK /\ Spaced /\ [Next]_vars =>
        [\A s \in Server : CheckConfServers(s) /\ Attempt(s) => since[s] >= 10]_vars
  BY DEF TypeOK, Spaced, Attempt
<1> QED
  BY <1>1, <1>2, <1>3, PTL DEF Spec, AttemptsApart

-----------------------------------------------------------------------------
(* A slot is at one stage of one connection, its own *)

\* Every slot is sure of a number of its own before the first select, or of
\* none: its name resolves, no connect() fails at once, and whatever malloc
\* left in conatt, the limit on attempts lets it have one.
Steady ==
    /\ Resolvable = Server
    /\ "error" \notin AtOnce
    /\ MaxTries = 0 \/ \A n \in Unset : n < MaxTries

Stage(s) == slot[s].flags \cap Stages
Owned(s) ==
    /\ slot[s].fd \in Fd
    /\ sock[slot[s].fd] # "free"
    /\ peer[slot[s].fd] = s

\* CheckConfServers has yet to make the first attempt on s.
Fresh(s) ==
    /\ turn[1] = "conf" /\ turn[2] <= s
    /\ Stage(s) = {} /\ wait[s] = 0 /\ ~GivenUp(s)

\* check_connections has yet to see whether s has come up.
NotYet(s) ==
    \/ turn[1] \in {"read", "write"} /\ s >= turn[2]
    \/ turn[1] \in {"idle", "keep"} /\ s > turn[2]

StageOK == \A s \in Server :
    Stage(s) \in {{}, {"connecting", "writeable"}, {"connected", "readable"}}
PolledOwned == \A s \in Server : Stage(s) # {} => Owned(s)
FdsOwn == \/ Servers = 1
          \/ \A s \in Server : slot[s].fd = None \/ Owned(s) \/ Fresh(s)
SetsOK == /\ turn[1] \in {"conf", "select"} => infd = {} /\ outfd = {}
          /\ infd \cap outfd = {}
OutOK == \A s \in Server :
    NotYet(s) /\ slot[s].fd \in outfd => Stage(s) = {"connecting", "writeable"}

IInv == TypeOK /\ StageOK /\ PolledOwned /\ FdsOwn /\ SetsOK /\ OutOK

\* Two slots do not share a number that one of them is polled for.
LEMMA NoSharing ==
    ASSUME IInv, turn[1] # "conf", NEW s \in Server, NEW t \in Server,
           Stage(t) # {}, slot[s].fd = slot[t].fd
    PROVE  s = t
<1>1. Owned(t)
  BY DEF IInv, PolledOwned
<1>2. CASE Servers = 1
  BY <1>2 DEF Server
<1>3. CASE Servers # 1
  <2>1. slot[s].fd # None
    BY <1>1, ConnectionAssumption DEF Owned, Fd, None
  <2>2. Owned(s)
    BY <1>3, <2>1 DEF IInv, FdsOwn, Fresh
  <2> QED
    BY <1>1, <2>2 DEF Owned
<1> QED
  BY <1>2, <1>3

\* The strengthened invariant at the start.
LEMMA InitIInv == (Servers = 1 \/ Steady) /\ Init => IInv
<1> SUFFICES ASSUME Servers = 1 \/ Steady, Init
             PROVE  IInv
  OBVIOUS
<1>1. TypeOK
  BY InitTypeOK
<1>2. \A s \in Server : Stage(s) = {}
  BY DEF Init, Stage
<1>3. ASSUME Steady, NEW s \in Server
      PROVE  Fresh(s)
  <2>1. 1 <= s
    BY DEF Server
  <2>2. conatt[s] \in Unset /\ conatt[s] \in Nat
    BY <1>1 DEF Init, TypeOK
  <2>3. ~GivenUp(s)
    BY <1>3, <2>2, ConnectionAssumption DEF Steady, GivenUp
  <2> QED
    BY <1>2, <2>1, <2>3 DEF Init, Fresh
<1> QED
  BY <1>1, <1>2, <1>3 DEF Init, IInv, StageOK, PolledOwned, FdsOwn, SetsOK, OutOK, NotYet

\* A quiet step leaves each slot at its stage with the number it has.
LEMMA QuietKeeps ==
    ASSUME IInv, Quiet
    PROVE  /\ StageOK' /\ PolledOwned'
           /\ \A s \in Server : /\ slot'[s].fd = slot[s].fd
                                /\ Stage(s)' \in {Stage(s), {}}
                                /\ Owned(s) => Owned(s)'
<1>1. ASSUME NEW s \in Server
      PROVE  slot'[s].fd = slot[s].fd /\ Stage(s)' \in {Stage(s), {}}
  BY DEF Quiet, Kept, Stage
<1>2. ASSUME NEW s \in Server, Owned(s)
      PROVE  Owned(s)'
  BY <1>1, <1>2 DEF Quiet, Owned
<1>3. ASSUME NEW s \in Server
      PROVE  Stage(s)' \in {{}, {"connecting", "writeable"}, {"connected", "readable"}}
  BY <1>1 DEF IInv, StageOK
<1>4. ASSUME NEW s \in Server, Stage(s)' # {}
      PROVE  Owned(s)'
  BY <1>1, <1>2, <1>4 DEF IInv, PolledOwned
<1> QED
  BY <1>1, <1>2, <1>3, <1>4 DEF StageOK, PolledOwned

\* CheckConfServers goes through the servers in order: one it has not come to
\* is behind the one it is at.
LEMMA FreshLater ==
    ASSUME NEW s \in Server, NEW t \in Server \ {s}, turn = <<"conf", s>>, Fresh(t)
    PROVE  s < Servers /\ s + 1 <= t
<1>1. s <= t /\ s # t
  BY DEF Fresh
<1>2. s \in 1 .. Servers /\ t \in 1 .. Servers /\ Servers \in Nat
  BY ConnectionAssumption DEF Server
<1> QED
  BY <1>1, <1>2

\* A connection attempt gives the slot a number no other slot is polled for.
LEMMA AttemptKeeps ==
    ASSUME Servers = 1 \/ Steady, IInv, NEW s \in Server, CheckConfServers(s), Attempt(s)
    PROVE  IInv'
<1>1. TypeOK'
  BY NextTypeOK DEF IInv, Next, MainLoop
<1>2. TypeOK /\ turn = <<"conf", s>> /\ slot \in [Server -> Slot]
      /\ sock \in [Fd -> SockState] /\ peer \in [Fd -> Server]
  BY DEF CheckConfServers, IInv, TypeOK
<1>3. PICK y \in Slot :
              /\ slot' = [slot EXCEPT ![s] = y]
              /\ \/ /\ y.flags \cap Stages = {}
                    /\ \/ y.fd = None
                       \/ s \notin Resolvable /\ y.fd = slot[s].fd
                       \/ "error" \in AtOnce /\ y.fd \in Fd
                    /\ UNCHANGED kernel
                 \/ /\ y.flags \cap Stages \in {{"connecting", "writeable"},
                                             {"connected", "readable"}}
                    /\ y.fd \in Free
                    /\ \E r \in {"pending", "open"} : sock' = [sock EXCEPT ![y.fd] = r]
                    /\ peer' = [peer EXCEPT ![y.fd] = s]
  BY <1>2, AttemptStep
<1>4. slot'[s] = y /\ \A t \in Server \ {s} : slot'[t] = slot[t]
  BY <1>2, <1>3
<1>5. Stage(s)' = y.flags \cap Stages /\ \A t \in Server \ {s} : Stage(t)' = Stage(t)
  BY <1>4 DEF Stage
<1>6. StageOK'
  BY <1>3, <1>5 DEF IInv, StageOK
<1>7. Stage(s)' # {} => Owned(s)'
  BY <1>2, <1>3, <1>4, <1>5 DEF Owned, Free
<1>8. ASSUME NEW t \in Server \ {s}, Owned(t)
      PROVE  Owned(t)'
  <2>1. UNCHANGED kernel \/ /\ y.fd \in Free
                            /\ \E r : sock' = [sock EXCEPT ![y.fd] = r]
                            /\ peer' = [peer EXCEPT ![y.fd] = s]
    BY <1>3
  <2>2. y.fd \in Free => slot[t].fd # y.fd
    BY <1>8 DEF Owned, Free
  <2> QED
    BY <1>2, <1>4, <1>8, <2>1, <2>2 DEF Owned, kernel
<1>9. PolledOwned'
  BY <1>5, <1>7, <1>8 DEF IInv, PolledOwned
<1>10. FdsOwn'
  <2>1. CASE Servers = 1
    BY <2>1 DEF FdsOwn
  <2>2. CASE Steady
    <3>1. y.fd = None \/ Owned(s)'
      BY <1>3, <1>5, <1>7, <2>2 DEF Steady
    <3>2. ASSUME NEW t \in Server \ {s}, Fresh(t)
          PROVE  Fresh(t)'
      <4>2. turn' = <<"conf", s + 1>> /\ s + 1 <= t
        BY <1>2, <3>2, FreshLater DEF CheckConfServers
      <4>3. wait'[t] = wait[t] /\ conatt'[t] = conatt[t]
        BY <1>2 DEF Attempt, TypeOK
      <4> QED
        BY <1>5, <3>2, <4>2, <4>3 DEF Fresh, GivenUp
    <3>3. Servers = 1 \/ \A t \in Server \ {s} : slot'[t].fd = None \/ Owned(t)' \/ Fresh(t)'
      BY <1>4, <1>8, <3>2 DEF IInv, FdsOwn
    <3> QED
      BY <1>4, <3>1, <3>3 DEF FdsOwn
  <2> QED
    BY <2>1, <2>2
<1>11. SetsOK' /\ OutOK'
  BY <1>2 DEF CheckConfServers, IInv, SetsOK, OutOK
<1> QED
  BY <1>1, <1>6, <1>9, <1>10, <1>11 DEF IInv

\* A server that is connected, or whose time has not come, is left alone.
LEMMA LeaveBeKeeps ==
    ASSUME IInv, NEW s \in Server, CheckConfServers(s), LeaveBe(s)
    PROVE  IInv'
<1>1. TypeOK'
  BY NextTypeOK DEF IInv, Next, MainLoop
<1>2. TypeOK /\ turn = <<"conf", s>>
  BY DEF CheckConfServers, IInv
<1>3. /\ UNCHANGED <<slot, sock, peer, wait, infd, outfd>>
      /\ conatt' = [conatt EXCEPT ![s] = Forget(s, @)]
  BY DEF CheckConfServers, LeaveBe, kernel
<1>4. StageOK' /\ PolledOwned'
  BY <1>3 DEF IInv, StageOK, PolledOwned, Stage, Owned
<1>5. ~Fresh(s)
  BY DEF LeaveBe, Fresh, Stage, Stages, Is
<1>6. ASSUME NEW t \in Server \ {s}, Fresh(t)
      PROVE  Fresh(t)'
  <2>2. turn' = <<"conf", s + 1>> /\ s + 1 <= t
    BY <1>2, <1>6, FreshLater DEF CheckConfServers
  <2>3. conatt'[t] = conatt[t]
    BY <1>2, <1>3 DEF TypeOK
  <2> QED
    BY <1>3, <1>6, <2>2, <2>3 DEF Fresh, GivenUp, Stage
<1>7. FdsOwn'
  BY <1>3, <1>5, <1>6 DEF IInv, FdsOwn, Owned
<1>8. SetsOK' /\ OutOK'
  BY <1>2, <1>3 DEF CheckConfServers, IInv, SetsOK, OutOK
<1> QED
  BY <1>1, <1>4, <1>7, <1>8 DEF IInv

\* select reports numbers that polled slots own.
LEMMA SelectKeeps ==
    ASSUME IInv, Select
    PROVE  IInv'
<1>1. TypeOK' /\ Quiet
  BY NextTypeOK, QuietStep DEF IInv, Next, MainLoop
<1>2. StageOK' /\ PolledOwned'
      /\ \A s \in Server : slot'[s].fd = slot[s].fd /\ (Owned(s) => Owned(s)')
  BY <1>1, QuietKeeps
<1>3. turn[1] = "select" /\ turn' = <<"read", 1>>
  BY DEF Select
<1>4. FdsOwn'
  BY <1>2, <1>3 DEF IInv, FdsOwn, Fresh
<1>5. \A s \in Server : Stage(s)' = Stage(s)
  <2>1. \A s \in Server : slot'[s].flags = slot[s].flags
    BY DEF Select, IInv, TypeOK, Slot
  <2> QED
    BY <2>1 DEF Stage
<1>6. infd' \subseteq Polled("readable") /\ outfd' \subseteq Polled("writeable")
  BY DEF Select
<1>7. \A s \in Server : /\ Is(s, "readable") => Stage(s) = {"connected", "readable"}
                        /\ Is(s, "writeable") => Stage(s) = {"connecting", "writeable"}
  BY DEF IInv, StageOK, Stage, Stages, Is
<1>8. infd' \cap outfd' = {}
  <2> SUFFICES ASSUME NEW f \in infd', f \in outfd'
               PROVE  FALSE
    OBVIOUS
  <2>1. PICK s \in Server : Is(s, "readable") /\ slot[s].fd = f
    BY <1>6 DEF Polled
  <2>2. PICK t \in Server : Is(t, "writeable") /\ slot[t].fd = f
    BY <1>6 DEF Polled
  <2>3. s = t
    BY <1>3, <1>7, <2>1, <2>2, NoSharing
  <2> QED
    BY <1>7, <2>1, <2>2, <2>3
<1>9. OutOK'
  <2> SUFFICES ASSUME NEW s \in Server, slot'[s].fd \in outfd'
               PROVE  Stage(s)' = {"connecting", "writeable"}
    BY DEF OutOK
  <2>1. PICK t \in Server : Is(t, "writeable") /\ slot[t].fd = slot[s].fd
    BY <1>2, <1>6 DEF Polled
  <2>2. s = t
    BY <1>3, <1>7, <2>1, NoSharing
  <2> QED
    BY <1>5, <1>7, <2>1, <2>2
<1> QED
  BY <1>1, <1>2, <1>3, <1>4, <1>8, <1>9 DEF IInv, SetsOK

\* Away from Select, a quiet step that leaves the sets as they are disturbs
\* only the slots that check_connections has done with, or gives up slots that
\* are polled for reading.
LEMMA QuietSets ==
    ASSUME IInv, TypeOK', Quiet, turn[1] # "conf",
           \/ UNCHANGED <<infd, outfd>> /\ turn'[1] \notin {"conf", "select"}
           \/ infd' = {} /\ outfd' = {},
           \A s \in Server : NotYet(s)' /\ slot[s].fd \in outfd' =>
                NotYet(s) /\ slot'[s].flags = slot[s].flags
    PROVE  IInv'
<1>1. StageOK' /\ PolledOwned'
      /\ \A s \in Server : slot'[s].fd = slot[s].fd /\ (Owned(s) => Owned(s)')
  BY QuietKeeps
<1>2. FdsOwn'
  BY <1>1 DEF IInv, FdsOwn, Fresh
<1>3. SetsOK'
  BY DEF IInv, SetsOK
<1>4. OutOK'
  BY <1>1 DEF IInv, OutOK, Stage
<1> QED
  BY <1>1, <1>2, <1>3, <1>4 DEF IInv

\* Reading leaves the sets of select as they are.
LEMMA NetReadKeeps ==
    ASSUME IInv, NEW s \in Server, NetRead(s)
    PROVE  IInv'
<1>1. TypeOK' /\ Quiet
  BY NextTypeOK, QuietStep DEF IInv, Next, MainLoop
<1>2. turn = <<"read", s>> /\ turn' \in {<<"write", s>>, <<"stuck", s>>}
      /\ UNCHANGED <<infd, outfd>>
  BY DEF NetRead
<1>3. TypeOK
  BY DEF IInv
<1>4. \A t \in Server \ {s} : slot'[t] = slot[t]
  BY <1>3, NetReadShape DEF TypeOK
<1>5. slot[s].fd \in outfd => UNCHANGED slot
  BY DEF NetRead, IInv, SetsOK
<1>6. \A t \in Server : NotYet(t)' => NotYet(t)
  BY <1>2 DEF NotYet
<1> QED
  BY <1>1, <1>2, <1>4, <1>5, <1>6, QuietSets

\* A connect() that has ended takes its slot out of the set for writing.
LEMMA WriteKeeps ==
    ASSUME IInv, NEW s \in Server, NetWriteable(s)
    PROVE  IInv'
<1>1. TypeOK' /\ TypeOK
  BY NextTypeOK DEF IInv, Next, MainLoop
<1>2. /\ turn = <<"write", s>> /\ turn' = <<"idle", s>>
      /\ UNCHANGED <<infd, outfd, sock, peer>>
      /\ slot \in [Server -> Slot]
  BY <1>1 DEF NetWriteable, kernel, TypeOK
<1>3. PICK y \in Slot :
              /\ slot' = [slot EXCEPT ![s] = y]
              /\ y.fd = slot[s].fd
              /\ slot[s].fd \notin outfd => y = slot[s]
              /\ /\ slot[s].fd \in outfd
                 /\ slot[s].flags \cap Stages = {"connecting", "writeable"}
                 => y.flags \cap Stages \in {{"connected", "readable"}, {}}
  BY <1>1, WriteStep
<1>4. slot'[s] = y /\ \A t \in Server \ {s} : slot'[t] = slot[t]
  BY <1>2, <1>3
<1>5. NotYet(s)
  BY <1>2 DEF NotYet, Server
<1>6. \/ slot'[s] = slot[s]
      \/ Stage(s) = {"connecting", "writeable"} /\ Stage(s)' \in {{"connected", "readable"}, {}}
  BY <1>3, <1>4, <1>5 DEF IInv, OutOK, Stage
<1>7. \A t \in Server : slot'[t].fd = slot[t].fd
  BY <1>3, <1>4
<1>8. StageOK'
  BY <1>4, <1>6 DEF IInv, StageOK, Stage
<1>9. \A t \in Server : Owned(t) => Owned(t)'
  BY <1>2, <1>7 DEF Owned
<1>10. PolledOwned'
  BY <1>4, <1>6, <1>9 DEF IInv, PolledOwned, Stage
<1>11. FdsOwn'
  BY <1>2, <1>7, <1>9 DEF IInv, FdsOwn, Fresh
<1>12. SetsOK'
  BY <1>2 DEF IInv, SetsOK
<1>13. OutOK'
  <2>1. ASSUME NEW t \in Server, NotYet(t)'
        PROVE  NotYet(t) /\ t # s
    <3>1. t > s
      BY <1>2, <2>1 DEF NotYet
    <3>2. s \in Int /\ t \in Int
      BY DEF Server
    <3> QED
      BY <1>2, <3>1, <3>2 DEF NotYet
  <2> QED
    BY <1>2, <1>4, <2>1 DEF IInv, OutOK, Stage
<1> QED
  BY <1>1, <1>8, <1>10, <1>11, <1>12, <1>13 DEF IInv

\* Every step keeps the strengthened invariant.
LEMMA NextIInv == (Servers = 1 \/ Steady) /\ IInv /\ [Next]_vars => IInv'
<1> SUFFICES ASSUME Servers = 1 \/ Steady, IInv, [Next]_vars
             PROVE  IInv'
  OBVIOUS
<1>0. TypeOK' /\ TypeOK /\ slot \in [Server -> Slot] /\ Servers \in Nat
  BY NextTypeOK, ConnectionAssumption DEF IInv, TypeOK
<1>1. CASE UNCHANGED vars
  BY <1>1 DEF vars, loop, clocks, kernel, IInv, TypeOK, StageOK, PolledOwned, FdsOwn, SetsOK,
     OutOK, Stage, Owned, Fresh, NotYet, GivenUp
<1>2. ASSUME NEW s \in Server, CheckConfServers(s)
      PROVE  IInv'
  BY <1>2, AttemptKeeps, LeaveBeKeeps DEF CheckConfServers
<1>3. ASSUME NEW s \in Server, Spin(s)
      PROVE  IInv'
  <2>1. Quiet
    BY <1>0, <1>3, QuietStep
  <2>2. \A t \in Server : ~NotYet(t)'
    BY <1>3 DEF Spin, loop, NotYet
  <2> QED
    BY <1>0, <1>3, <2>1, <2>2, QuietSets DEF Spin, loop
<1>4. ASSUME NEW s \in Server, IdleTest(s)
      PROVE  IInv'
  <2>1. Quiet
    BY <1>0, <1>4, QuietStep
  <2>2. \A t \in Server \ {s} : slot'[t] = slot[t]
    BY <1>0, <1>4, IdleTestShape
  <2>3. turn = <<"idle", s>> /\ turn' = <<"keep", s>> /\ UNCHANGED <<infd, outfd>>
    BY <1>4 DEF IdleTest
  <2>4. \A t \in Server : NotYet(t)' => NotYet(t) /\ t # s
    BY <2>3 DEF NotYet, Server
  <2> QED
    BY <1>0, <2>1, <2>2, <2>3, <2>4, QuietSets
<1>5. ASSUME NEW s \in Server, NextSlot(s)
      PROVE  IInv'
  <2>1. Quiet
    BY <1>0, <1>5, QuietStep
  <2>2. \A t \in Server \ {s} : slot'[t] = slot[t]
    BY <1>0, <1>5 DEF NextSlot
  <2>3. turn = <<"keep", s>> /\ turn' = <<"read", s + 1>> /\ UNCHANGED <<infd, outfd>>
    BY <1>5 DEF NextSlot
  <2>4. \A t \in Server : NotYet(t)' => NotYet(t) /\ t # s
    BY <2>3 DEF NotYet, Server
  <2> QED
    BY <1>0, <2>1, <2>2, <2>3, <2>4, QuietSets
<1>6. ASSUME NEW d \in Delays, NextPass(d)
      PROVE  IInv'
  <2>1. Quiet
    BY <1>0, <1>6, QuietStep
  <2> QED
    BY <1>0, <1>6, <2>1, QuietSets DEF NextPass
<1>7. ASSUME NEW f \in Fd, Settle(f) \/ PeerCloses(f) \/ PeerVanishes(f)
      PROVE  IInv'
  <2>1. Quiet /\ UNCHANGED <<turn, infd, outfd, slot, conatt, wait>>
    BY <1>0, <1>7, QuietStep DEF Settle, PeerCloses, PeerVanishes, Network, loop, clocks
  <2>2. StageOK' /\ PolledOwned' /\ \A s \in Server : Owned(s) => Owned(s)'
    BY <2>1, QuietKeeps
  <2> QED
    BY <1>0, <2>1, <2>2 DEF IInv, FdsOwn, Fresh, SetsOK, OutOK, NotYet, GivenUp, Stage
<1> QED
  BY <1>1, <1>2, <1>3, <1>4, <1>5, <1>6, <1>7, SelectKeeps, NetReadKeeps, WriteKeeps
     DEF Next, MainLoop

\* With one server, or with servers that all come to have numbers of their
\* own, the flags of each slot describe one stage of one connection.
THEOREM StagesAreStages ==
    ASSUME Servers = 1 \/ Steady
    PROVE  Spec => []OneStage
<1>1. IInv => OneStage
  <2> SUFFICES ASSUME IInv
               PROVE  OneStage
    OBVIOUS
  <2>1. ASSUME NEW s \in Server
        PROVE  /\ ~(Is(s, "connected") /\ Is(s, "connecting"))
               /\ Is(s, "connected") => Is(s, "readable") /\ ~Is(s, "writeable")
               /\ Is(s, "writeable") <=> Is(s, "connecting")
               /\ Is(s, "readable") => Is(s, "connected")
    <3>1. \A flag \in Stages : Is(s, flag) <=> flag \in Stage(s)
      BY DEF Is, Stage
    <3>2. Stage(s) \in {{}, {"connecting", "writeable"}, {"connected", "readable"}}
      BY DEF IInv, StageOK
    <3> QED
      BY <3>1, <3>2 DEF Stages
  <2> QED
    BY <2>1 DEF IInv, OneStage
<1>2. Init => IInv
  BY InitIInv
<1>3. IInv /\ [Next]_vars => IInv'
  BY NextIInv
<1> QED
  BY <1>1, <1>2, <1>3, PTL DEF Spec

\* Under the same conditions select watches each slot's own connection.
THEOREM SelectWatchesOwn ==
    ASSUME Servers = 1 \/ Steady
    PROVE  Spec => []WatchesOwn
<1>1. IInv => WatchesOwn
  <2> SUFFICES ASSUME IInv, NEW s \in Server, Is(s, "readable") \/ Is(s, "writeable")
               PROVE  Owned(s)
    BY DEF WatchesOwn, Owned
  <2>1. Stage(s) # {}
    BY DEF Stage, Stages, Is
  <2> QED
    BY <2>1 DEF IInv, PolledOwned
<1>2. Init => IInv
  BY InitIInv
<1>3. IInv /\ [Next]_vars => IInv'
  BY NextIInv
<1> QED
  BY <1>1, <1>2, <1>3, PTL DEF Spec

=============================================================================
