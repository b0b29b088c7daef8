------------------------------ MODULE Sending ------------------------------
(***************************************************************************)
(* What the bot says: irc_sprintf, send_notice and privmsg (msguser and    *)
(* msgreply are the same loop) of src/src/sendmsg.c, against the lines the *)
(* server reads.  Buffers are short: a command and a notice are cut to so  *)
(* many bytes, a longer speech goes out in pieces.                         *)
(*                                                                         *)
(* The k-th character of the i-th message is <<i, k>>; those of the        *)
(* message's "PRIVMSG <target> :" are <<i, 0>>.                            *)
(***************************************************************************)
EXTENDS Naturals, Sequences, FiniteSets, SequencesExt

CONSTANTS
    Limit,      \* bytes snprintf(output, 255, ...) writes: 254
    PrefixLen,  \* length of "PRIVMSG <target> :", at most 99
    MaxText,    \* bound: length of a text
    MaxMessages \* bound: messages

ASSUME SendingAssumption ==
    /\ Limit \in Nat /\ PrefixLen \in Nat
    /\ PrefixLen + 1 < Limit
    /\ MaxText \in Nat /\ MaxMessages \in Nat

VARIABLES
    messages,   \* what the bot sends: commands, notices and speeches
    current,    \* which of them is next
    pos,        \* how much of a speech has been sent
    got,        \* the lines the server has read
    part        \* the line it is reading

wvars == <<messages, current, pos, got, part>>

NL == <<0, 0>>

TextOf(i) == [k \in 1 .. messages[i].length |-> <<i, k>>]
Prefix(i) == [k \in 1 .. PrefixLen |-> <<i, 0>>]

\* snprintf
Cut(s, n) == SubSeq(s, 1, IF Len(s) < n THEN Len(s) ELSE n)

\* What snprintf(output, 254, ...) writes, and lenmod: the text in it.
PieceSize == Limit - 1
Piece == PieceSize - PrefixLen

\* send_packet: the server reads up to the newline.
send_packet(output) ==
    IF Last(output) = NL
      THEN got' = Append(got, part \o Front(output)) /\ part' = << >>
      ELSE part' = part \o output /\ UNCHANGED got

Sends(kind) ==
    /\ current \in DOMAIN messages
    /\ messages[current].kind = kind
    /\ UNCHANGED messages

irc_sprintf ==
    /\ Sends("command")
    /\ send_packet(Cut(Append(TextOf(current), NL), Limit))
    /\ current' = current + 1
    /\ UNCHANGED pos

send_notice ==
    /\ Sends("notice")
    /\ send_packet(Append(Cut(Prefix(current) \o TextOf(current), Limit), NL))
    /\ current' = current + 1
    /\ UNCHANGED pos

\* Wrong on purpose: each piece begins behind a character too many.
SpeechSkipping ==
    /\ Sends("speech")
    /\ pos < messages[current].length
    /\ send_packet(Append(Cut(Prefix(current) \o
                              SubSeq(TextOf(current), pos + 1, messages[current].length),
                              PieceSize), NL))
    /\ pos' = pos + Piece + 1
    /\ UNCHANGED current

\* A turn of the loop in privmsg: the next piece.
SpeechStep ==
    /\ Sends("speech")
    /\ pos < messages[current].length
    /\ send_packet(Append(Cut(Prefix(current) \o
                              SubSeq(TextOf(current), pos + 1, messages[current].length),
                              PieceSize), NL))
    /\ pos' = pos + Piece
    /\ UNCHANGED current

SpeechEnd ==
    /\ Sends("speech")
    /\ pos >= messages[current].length
    /\ current' = current + 1
    /\ pos' = 0
    /\ UNCHANGED <<got, part>>

-----------------------------------------------------------------------------
Message == [kind : {"command", "notice", "speech"}, length : 0 .. MaxText]

SendingInit ==
    /\ messages \in UNION {[1 .. n -> Message] : n \in 0 .. MaxMessages}
    /\ current = 1
    /\ pos = 0
    /\ got = << >>
    /\ part = << >>

SendingNext == irc_sprintf \/ send_notice \/ SpeechStep \/ SpeechEnd

SendingSpec == SendingInit /\ [][SendingNext]_wvars

-----------------------------------------------------------------------------
(* Properties *)

\* What the server has got of message i, the prefix and other messages left out.
GotOf(i) ==
    FoldLeft(LAMBDA s, l : s \o SelectSeq(l, LAMBDA c : c[1] = i /\ c[2] # 0), << >>, got)

\* A speech arrives whole, however long it is, in the order it was written, and
\* nothing of it twice.
SpeechesWhole ==
    \A i \in DOMAIN messages :
        messages[i].kind = "speech" /\ i < current => GotOf(i) = TextOf(i)

\* A line of the server's holds one message, with its prefix, and a command
\* whole, and every line has been ended, as long as no command is longer than the
\* buffer.
LinesApart ==
    (\A i \in DOMAIN messages : messages[i].kind = "command" => messages[i].length < Limit) =>
        /\ part = << >>
        /\ \A n \in DOMAIN got : \E i \in DOMAIN messages :
              /\ \A k \in DOMAIN got[n] : got[n][k][1] = i
              /\ messages[i].kind # "command" => IsPrefix(Prefix(i), got[n])
              /\ messages[i].kind = "command" => got[n] = TextOf(i)

\* What the bot says reaches the server whole, in lines of its own, whatever
\* commands, notices and speeches come before it.
SaidAsMeant == SpeechesWhole /\ LinesApart

\* Every command arrives as a line of its own.
CommandsArrive ==
    \A i \in DOMAIN messages :
        messages[i].kind = "command" /\ i < current =>
            \E n \in DOMAIN got : got[n] = Cut(TextOf(i), Limit)

=============================================================================
