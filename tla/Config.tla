------------------------------- MODULE Config -------------------------------
(***************************************************************************)
(* The configuration: read_config of src/src/readconf.c reads the file     *)
(* line by line, the functions of src/src/conf.c take the values over, and *)
(* parse_channels of src/src/parser.c reads the list of channels.          *)
(*                                                                         *)
(* A line is an option and the text behind its '=', line end included.     *)
(* Lines that begin with no letter are skipped and not modelled.  The file *)
(* is read once, at the start; botinfo is the first memory the program     *)
(* takes from the heap and so is zero.                                     *)
(***************************************************************************)
EXTENDS Naturals, Sequences, FiniteSets, SequencesExt

CONSTANTS
    Texts,      \* options whose value is a text: NICK, ALT, FULLNAME, SRVPASS, ...
    Switches,   \* those that are ON or not: NSERV, AUTOOP, REQPASS
    Numbers,    \* those atoi() reads: TIMEOUT, MAXTRIES, OPLEVEL, ...
    Lines,      \* the lines a file may consist of
    MaxLines    \* bound: lines in a file

Option == Texts \cup Switches \cup Numbers \cup {"CTCP", "PORT", "SERVER", "CHANNELS"}

Digit == {"0", "1", "2", "3", "4", "5", "6", "7", "8", "9"}

NoValue == << >>
NoKey == << >>
On == <<"1">>
DefaultPort == <<"6", "6", "6", "7">>

ASSUME ConfigAssumption ==
    /\ MaxLines \in Nat
    /\ \A l \in Lines : {"opt", "text", "means", "list"} \subseteq DOMAIN l

VARIABLES
    file,       \* the file
    read,       \* how many of its lines have been read
    botinfo,    \* the values in force, numbers by their digits
    channels,   \* conf_channels
    servers,    \* serverclist
    crashed     \* a function was given no value

cvars == <<file, read, botinfo, channels, servers, crashed>>

-----------------------------------------------------------------------------
(* Values *)

Stripped(t) ==
    SubSeq(t, CHOOSE i \in DOMAIN t :
                 /\ t[i] # " " \/ i = Len(t)
                 /\ \A j \in 1 .. i - 1 : t[j] = " ",
           Len(t))

\* A line end goes, if anything stands before it and the character before it.
Chopped(t) == IF Len(t) > 2 /\ Last(t) \in {"\n", "\r"} THEN Front(t) ELSE t

\* cleanup, for what stands behind the '=': blanks before the value and the line
\* end behind it go.  A value of one character keeps its line end.
Cleaned(t) ==
    IF Len(t) <= 1 THEN NoValue
    ELSE LET v == Chopped(Chopped(Stripped(t))) IN IF Len(v) < 2 THEN NoValue ELSE v

\* The digits at the beginning.
atoi(v) == LET n == SelectInSeq(v, LAMBDA c : c \notin Digit) IN
           IF n = 0 THEN v ELSE SubSeq(v, 1, n - 1)

-----------------------------------------------------------------------------
(* parse_channels: its loop over the characters *)

Reading == [name |-> << >>, key |-> << >>, inkey |-> FALSE, haskey |-> FALSE, list |-> << >>]

\* Wrong on purpose: the next key goes on where this one has ended.
InsertedKeeping(s) ==
    [Reading EXCEPT
       !.key = s.key,
       !.list = Append(s.list, [name |-> s.name, key |-> IF s.haskey THEN s.key ELSE NoKey])]

\* insert_channels, with the key or without, and on to the next.  An empty key is
\* not told from none.
Inserted(s) ==
    [Reading EXCEPT
       !.list = Append(s.list, [name |-> s.name, key |-> IF s.haskey THEN s.key ELSE NoKey])]

Taken(s, c) ==
    CASE c = "(" -> [s EXCEPT !.inkey = TRUE, !.haskey = TRUE]
      [] c = ")" -> [s EXCEPT !.inkey = FALSE]
      [] c \notin {"(", ")"} /\ s.inkey -> [s EXCEPT !.key = Append(@, c)]
      [] c = "," /\ ~s.inkey -> Inserted(s)
      [] c \notin {"(", ")", ","} /\ ~s.inkey -> [s EXCEPT !.name = Append(@, c)]

parse_channels(v) == Inserted(FoldLeft(Taken, Reading, v)).list

-----------------------------------------------------------------------------
(* The functions of conf.c *)

Line == file[read + 1]
Value == Cleaned(Line.text)

Execute ==
    /\ ~crashed
    /\ read < Len(file)
    /\ read' = read + 1
    /\ UNCHANGED file

Given == Value # NoValue

conf_text ==
    /\ Execute
    /\ Line.opt \in Texts /\ Given
    /\ botinfo' = [botinfo EXCEPT ![Line.opt] = Value]
    /\ UNCHANGED <<channels, servers, crashed>>

\* PORT is a number too.
conf_number ==
    /\ Execute
    /\ Line.opt \in Numbers \cup {"PORT"} /\ Given
    /\ botinfo' = [botinfo EXCEPT ![Line.opt] = atoi(Value)]
    /\ UNCHANGED <<channels, servers, crashed>>

conf_switch ==
    /\ Execute
    /\ Line.opt \in Switches
    /\ botinfo' = [botinfo EXCEPT ![Line.opt] = IF Value = <<"O", "N">> THEN On ELSE NoValue]
    /\ UNCHANGED <<channels, servers, crashed>>

\* ON turns CTCP on, and nothing off.
conf_ctcp ==
    /\ Execute
    /\ Line.opt = "CTCP"
    /\ botinfo' = [botinfo EXCEPT !["CTCP"] = IF Value = <<"O", "N">> THEN On ELSE @]
    /\ UNCHANGED <<channels, servers, crashed>>

conf_channel ==
    /\ Execute
    /\ Line.opt = "CHANNELS" /\ Given
    /\ channels' = channels \o parse_channels(Value)
    /\ UNCHANGED <<botinfo, servers, crashed>>

\* AddServerConf, with the port as it is now.
conf_server ==
    /\ Execute
    /\ Line.opt = "SERVER" /\ Given
    /\ servers' = Append(servers,
          [host |-> Value,
           port |-> IF botinfo["PORT"] = NoValue THEN DefaultPort ELSE botinfo["PORT"]])
    /\ UNCHANGED <<botinfo, channels, crashed>>

\* strdup, atoi and parse_channels are given a null pointer.
NullValue ==
    /\ Execute
    /\ Line.opt \notin Switches \cup {"CTCP"} /\ ~Given
    /\ crashed' = TRUE
    /\ UNCHANGED <<botinfo, channels, servers>>

-----------------------------------------------------------------------------
Unset == [o \in Option |-> NoValue]

ConfigInit ==
    /\ file \in UNION {[1 .. n -> Lines] : n \in 0 .. MaxLines}
    /\ read = 0
    /\ botinfo = Unset
    /\ channels = << >>
    /\ servers = << >>
    /\ crashed = FALSE

ConfigNext ==
    \/ conf_text \/ conf_number \/ conf_switch \/ conf_ctcp
    \/ conf_channel \/ conf_server
    \/ NullValue

ConfigSpec == ConfigInit /\ [][ConfigNext]_cvars

-----------------------------------------------------------------------------
(* Properties.  What the writer of a line meant is in its fields "means" and, *)
(* for channels, "list".                                                    *)

\* The lines read so far that set an option.
LinesFor(opts) == SelectSeq(SubSeq(file, 1, read), LAMBDA l : l.opt \in opts)

InForce(ls, default) == IF ls = << >> THEN default ELSE Last(ls).means

\* For every option the last line of it counts, for CTCP any that turns it on.
LastLineCounts ==
    ~crashed =>
        /\ \A o \in Texts \cup Numbers \cup Switches :
              botinfo[o] = InForce(LinesFor({o}), NoValue)
        /\ botinfo["CTCP"] = On <=>
              \E i \in DOMAIN LinesFor({"CTCP"}) : LinesFor({"CTCP"})[i].means = On

\* The bot's channels are those of all CHANNELS lines in their order, each with the
\* key in the parentheses behind it, commas in keys included.
ChannelsAsWritten ==
    ~crashed =>
        channels = FoldLeft(LAMBDA cs, l : cs \o l.list, << >>, LinesFor({"CHANNELS"}))

\* Each server has the port of the last PORT line before its own.
ServersAsWritten ==
    ~crashed =>
        LET ls == LinesFor({"SERVER", "PORT"})
            hosts == {i \in DOMAIN ls : ls[i].opt = "SERVER"}
            Before(i) == SelectSeq(SubSeq(ls, 1, i), LAMBDA l : l.opt = "PORT")
        IN  /\ Len(servers) = Cardinality(hosts)
            /\ \A i \in hosts :
                  servers[Cardinality({j \in hosts : j <= i})] =
                      [host |-> ls[i].means, port |-> InForce(Before(i), DefaultPort)]

\* However its lines are ordered and repeated, a file comes to mean what its
\* writer meant: read_config, conf.c and parse_channels together.
ConfigAsWritten == LastLineCounts /\ ChannelsAsWritten /\ ServersAsWritten

\* "Set CTCP ON/OFF": the last line counts for CTCP, too.
CtcpCanBeOff == ~crashed => botinfo["CTCP"] = InForce(LinesFor({"CTCP"}), NoValue)

\* A line without a value does no harm.
NullHarmless == ~crashed

=============================================================================
