----------------------------- MODULE LineReader -----------------------------
(***************************************************************************)
(* How the bytes of a connection become lines: getline_server of           *)
(* src/src/network.c, called when select has found the socket readable.    *)
(*                                                                         *)
(* The kernel hands over what has arrived byte by byte; TCP may cut the    *)
(* stream anywhere, so a call may end in the middle of a line and the next *)
(* call goes on in the same buffer.  When the connection is lost and made  *)
(* again, on the same slot, the buffer and the position in it stay.  A     *)
(* byte is a newline, a carriage return or anything else.                  *)
(***************************************************************************)
EXTENDS Naturals, Sequences, FiniteSets, SequencesExt

CONSTANTS
    Byte,       \* what is not a line end
    LF, CR,     \* '\n' and '\r'
    Zero,       \* '\0', what the buffer is cleared to
    Size,       \* sizeof(sinfo->buff), 1500
    MaxBytes,   \* bound: bytes sent on all connections together
    MaxLosses   \* bound: connections lost

ASSUME LineReaderAssumption ==
    /\ LF # CR /\ Zero \notin {LF, CR}
    /\ {LF, CR, Zero} \cap Byte = {}
    /\ Size \in Nat \ {0}
    /\ MaxBytes \in Nat
    /\ MaxLosses \in Nat

VARIABLES
    stream,     \* what the server has sent and the bot has not received
    ended,      \* the server has closed the connection
    reading,    \* getline_server is running
    buff,       \* sinfo->buff, and the bytes behind it
    buffpos,    \* sinfo->buffpos
    connected,  \* IsConnected and IsReadable
    lines,      \* the lines getline_server has returned of this connection
    taken,      \* the bytes it has received of this connection
    left,       \* what the buffer held when this connection was made
    sent,       \* how many bytes have been sent
    losses      \* how many connections have been lost

past == <<left, losses>>
vars == <<stream, ended, reading, buff, buffpos, connected, lines, taken, sent, past>>

\* The last index the loop may reach is Size + 1.
Place == 0 .. Size + 1

-----------------------------------------------------------------------------
Send(b) ==
    /\ ~ended
    /\ sent < MaxBytes
    /\ sent' = sent + 1
    /\ stream' = Append(stream, b)
    /\ UNCHANGED <<ended, reading, buff, buffpos, connected, lines, taken, past>>

Close ==
    /\ ended' = TRUE
    /\ UNCHANGED <<stream, reading, buff, buffpos, connected, lines, taken, sent, past>>

\* select reports the socket, and server_action calls getline_server.
Readable ==
    /\ ~reading
    /\ connected
    /\ stream # << >> \/ ended
    /\ reading' = TRUE
    /\ UNCHANGED <<stream, ended, buff, buffpos, connected, lines, taken, sent, past>>

\* disconnected(), called by the idle tests or by a failed send.
Disconnected ==
    /\ ~reading
    /\ connected
    /\ losses < MaxLosses
    /\ connected' = FALSE
    /\ losses' = losses + 1
    /\ UNCHANGED <<stream, ended, reading, buff, buffpos, lines, taken, sent, left>>

\* The buffer up to the position in it.
Held == [i \in 1 .. buffpos |-> buff[i - 1]]

\* connect_to_host has made a new connection for the slot.
Reconnect ==
    /\ ~reading
    /\ ~connected
    /\ connected' = TRUE
    /\ stream' = << >>
    /\ ended' = FALSE
    /\ lines' = << >>
    /\ taken' = << >>
    /\ left' = Held
    /\ UNCHANGED <<reading, buff, buffpos, sent, losses>>

-----------------------------------------------------------------------------
(* One turn of the loop in getline_server *)

\* Wrong on purpose: each call begins a new line.
WouldBlockReset ==
    /\ reading
    /\ stream = << >> /\ ~ended
    /\ reading' = FALSE
    /\ buffpos' = 0
    /\ UNCHANGED <<stream, ended, buff, connected, lines, taken, sent, past>>

\* recv() < 0: nothing has arrived, the call returns 0.
WouldBlock ==
    /\ reading
    /\ stream = << >> /\ ~ended
    /\ reading' = FALSE
    /\ UNCHANGED <<stream, ended, buff, buffpos, connected, lines, taken, sent, past>>

\* The line in the buffer, up to its first Zero.
Text(b) ==
    LET ends == {i \in Place : b[i] = Zero}
        n == IF ends = {} THEN Size + 2
             ELSE CHOOSE i \in ends : \A j \in ends : i <= j
    IN  [i \in 1 .. n |-> b[i - 1]]

\* Wrong on purpose: the carriage return stays.
LineEndKeepingCR ==
    /\ reading
    /\ stream # << >> /\ Head(stream) = LF
    /\ stream' = Tail(stream)
    /\ taken' = Append(taken, LF)
    /\ buff' = [buff EXCEPT ![buffpos] = Zero]
    /\ lines' = Append(lines, Text(buff'))
    /\ buffpos' = 0
    /\ reading' = FALSE
    /\ UNCHANGED <<ended, connected, sent, past>>

\* A newline ends the line, and a carriage return before it goes too.  For an
\* empty line the code looks at the byte before the buffer, the high byte of a
\* time.
LineEnd ==
    /\ reading
    /\ stream # << >> /\ Head(stream) = LF
    /\ stream' = Tail(stream)
    /\ taken' = Append(taken, LF)
    /\ LET b == [buff EXCEPT ![buffpos] = Zero] IN
       buff' = IF buffpos > 0 /\ b[buffpos - 1] = CR
                 THEN [b EXCEPT ![buffpos - 1] = Zero]
                 ELSE b
    /\ lines' = Append(lines, Text(buff'))
    /\ buffpos' = 0
    /\ reading' = FALSE
    /\ UNCHANGED <<ended, connected, sent, past>>

\* Any other byte stays in the buffer.  An overlong line is dropped and the
\* connection with it, but the loop goes on, from the second place.
Keep(b) ==
    /\ buff' = [buff EXCEPT ![buffpos] = b]
    /\ \/ /\ buffpos > Size
          /\ buffpos' = 1
          /\ connected' = FALSE
       \/ /\ buffpos <= Size
          /\ buffpos' = buffpos + 1
          /\ UNCHANGED connected
    /\ UNCHANGED <<ended, reading, lines, sent, past>>

OtherByte ==
    /\ reading
    /\ stream # << >> /\ Head(stream) # LF
    /\ stream' = Tail(stream)
    /\ taken' = Append(taken, Head(stream))
    /\ Keep(Head(stream))

\* recv() = 0 at the end of the stream: taken for a byte, the one that is in
\* the buffer already.
EndOfStream ==
    /\ reading
    /\ stream = << >> /\ ended
    /\ Keep(buff[buffpos])
    /\ UNCHANGED <<stream, taken>>

getline_server == WouldBlock \/ LineEnd \/ OtherByte \/ EndOfStream

-----------------------------------------------------------------------------
Init ==
    /\ stream = << >>
    /\ ended = FALSE
    /\ reading = FALSE
    /\ buff = [i \in Place |-> Zero]
    /\ buffpos = 0
    /\ connected = TRUE
    /\ lines = << >>
    /\ taken = << >>
    /\ left = << >>
    /\ sent = 0
    /\ losses = 0

Next ==
    \/ \E b \in Byte \cup {LF, CR} : Send(b)
    \/ Close
    \/ Readable
    \/ Disconnected
    \/ Reconnect
    \/ getline_server

Spec == Init /\ [][Next]_vars

\* The loop runs as long as it is in the function, and the main loop calls it.
LiveSpec == Spec /\ WF_vars(getline_server) /\ WF_vars(Readable)

-----------------------------------------------------------------------------
(* Properties *)

\* The newlines of a stream, and where the line begins that place i is in.
Ends(s) == {i \in DOMAIN s : s[i] = LF}
StartOf(s, i) ==
    IF \E j \in Ends(s) : j < i
      THEN (CHOOSE j \in Ends(s) : j < i /\ \A k \in Ends(s) : k < i => k <= j) + 1
      ELSE 1

\* What stands behind the last newline.
Rest(s) == SubSeq(s, StartOf(s, Len(s) + 1), Len(s))

\* ls are the lines of s: one for each newline and in their order, what stands
\* between it and the one before, less a carriage return at the end.
Bare(l) == IF l # << >> /\ Last(l) = CR THEN Front(l) ELSE l
AreLines(ls, s) ==
    /\ Len(ls) = Cardinality(Ends(s))
    /\ \A i \in Ends(s) : ls[Cardinality({j \in Ends(s) : j <= i})]
                                = Bare(SubSeq(s, StartOf(s, i), i - 1))

\* Type correctness of the buffer and its position.
TypeOK ==
    /\ stream \in Seq(Byte \cup {LF, CR})
    /\ ended \in BOOLEAN /\ reading \in BOOLEAN /\ connected \in BOOLEAN
    /\ buff \in [Place -> Byte \cup {CR, Zero}]
    /\ buffpos \in Place
    /\ taken \in Seq(Byte \cup {LF, CR})

\* However TCP cuts the stream, the lines handed to the parser are the lines of
\* the bytes received, as long as no line has been given up as too long.  What
\* an earlier connection left in the buffer is put before the first line, and
\* nothing of it before any other.
LinesFaithful == connected => AreLines(lines, left \o taken)

\* The buffer holds l.
Holds(l) == buffpos = Len(l) /\ \A i \in 1 .. Len(l) : buff[i - 1] = l[i]

\* Between two calls the buffer holds the beginning of the next line and
\* nothing of the line before it.
BufferIsRest ==
    /\ TypeOK
    /\ connected /\ ~ended => Holds(Rest(left \o taken))

\* A line handed to the parser was sent on the connection it is taken from.
LinesOwn == connected => AreLines(lines, taken)

\* "buffer size is 1500": no byte is put behind the end of the buffer.
InBuffer == \A i \in Place : i >= Size => buff[i] = Zero

\* "hmm, looks like buffer got away somewhere, return an error": getline_server
\* returns.
Returns == reading ~> ~reading

=============================================================================
