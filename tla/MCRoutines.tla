----------------------------- MODULE MCRoutines ------------------------------
(***************************************************************************)
(* The routines that work on text, each with all its inputs: the lines of  *)
(* the server, the masks of the user file, the configuration file, and     *)
(* what the bot sends.  They share no state: in a behaviour one of them is *)
(* at work while the others have nothing to do.                            *)
(***************************************************************************)
EXTENDS LineReader, Match, Config, Sending

CONSTANTS small, capital, second

-----------------------------------------------------------------------------
(* Match *)

\* One letter in two cases, and another.
Fold == [c \in {small, capital, second, Star, One, Escape, Comma} |-> IF c = capital THEN small ELSE c]

UpTo(n, chars) == UNION {[1 .. k -> chars] : k \in 0 .. n}

SomeMasks == UpTo(4, {small, second, Star, One, Comma}) \cup UpTo(3, {small, Star, One, Escape})
SomeNames == UpTo(4, {small, capital, second})
EscapedMasks == UpTo(3, {small, Star, Escape})
StarredNames == UpTo(3, {small, second, Star})
Everywhere == <<second, second, second>>

-----------------------------------------------------------------------------
(* Config *)

\* How lists of channels are written.
Entry(c) == IF c.key = NoKey THEN c.name ELSE c.name \o <<"(">> \o c.key \o <<")">>
Written(l) == FoldLeft(LAMBDA t, c : t \o <<",">> \o Entry(c), Entry(Head(l)), Tail(l))

SomeChannels == [name : {<<"#">>, <<"#", "a">>}, key : {NoKey, <<"k">>, <<"k", ",">>}]
Lists == {l \in [1 .. 1 -> SomeChannels] \cup [1 .. 2 -> SomeChannels] : Len(Written(l)) > 1}

Says(o, text, means) == [opt |-> o, text |-> text, means |-> means, list |-> << >>]

\* With a line end of one system or the other, or none at the end of the file,
\* with a blank before the value, and without a value.
SomeLines ==
    {Says("NICK", <<"a", "b", "\n">>, <<"a", "b">>),
     Says("NICK", <<" ", "a", "c", "\r", "\n">>, <<"a", "c">>),
     Says("ALT", <<"d", "e">>, <<"d", "e">>),
     Says("MAXTRIES", <<"5", "\n">>, <<"5">>), Says("MAXTRIES", <<"1", "2", "\r", "\n">>, <<"1", "2">>),
     Says("PORT", <<"7", "0", "\n">>, <<"7", "0">>), Says("PORT", <<"8", "1", "\n">>, <<"8", "1">>),
     Says("SERVER", <<"s", "x", "\n">>, <<"s", "x">>), Says("SERVER", <<" ", "s", "y", "\n">>, <<"s", "y">>),
     Says("NSERV", <<"O", "N", "\n">>, On), Says("NSERV", <<"O", "F", "F", "\n">>, NoValue),
     Says("CTCP", <<"O", "N", "\n">>, On), Says("CTCP", <<"O", "F", "F", "\n">>, NoValue),
     Says("CTCP", <<"\n">>, NoValue), Says("NICK", <<"\n">>, NoValue)}
    \cup {[Says("CHANNELS", Written(l) \o <<"\n">>, NoValue) EXCEPT !.list = l] : l \in Lists}

\* A nick of one letter.
ShortLines == {Says("NICK", <<"a", "\n">>, <<"a">>), Says("ALT", <<"d", "e", "\n">>, <<"d", "e">>)}

-----------------------------------------------------------------------------
(* The four together *)

\* match() has compared an empty mask with an empty name.
MatchNothing ==
    /\ mask = << >> /\ name = << >>
    /\ at = Start /\ calls = 0 /\ result = "yes"

\* The configuration file is empty.
ConfigNothing ==
    /\ file = << >> /\ read = 0
    /\ botinfo = Unset /\ channels = << >> /\ servers = << >>
    /\ crashed = FALSE

\* Nothing is to be sent.
SendingNothing ==
    /\ messages = << >> /\ current = 1 /\ pos = 0
    /\ got = << >> /\ part = << >>

RoutinesInit ==
    /\ Init
    /\ \/ MatchNothing /\ ConfigNothing /\ SendingNothing
       \/ MatchInit /\ ConfigNothing /\ SendingNothing
       \/ MatchNothing /\ ConfigInit /\ SendingNothing
       \/ MatchNothing /\ ConfigNothing /\ SendingInit

\* Only a behaviour without other inputs receives bytes.
OthersIdle == MatchNothing /\ ConfigNothing /\ SendingNothing

RoutinesNext ==
    \/ OthersIdle /\ Next /\ UNCHANGED <<mvars, cvars, wvars>>
    \/ MatchNext /\ UNCHANGED <<vars, cvars, wvars>>
    \/ ConfigNext /\ UNCHANGED <<vars, mvars, wvars>>
    \/ SendingNext /\ UNCHANGED <<vars, mvars, cvars>>

RoutinesSpec == RoutinesInit /\ [][RoutinesNext]_<<vars, mvars, cvars, wvars>>

=============================================================================
