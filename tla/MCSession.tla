----------------------------- MODULE MCSession ------------------------------
(* Small instances of Session for TLC. *)
EXTENDS Session

CONSTANTS u1, u2, u3, bot, alt, ann, joe, eve, cats, dogs

\* Nothing disturbs the bot, or everything does, or users keep asking.
Calm  == [people |-> {ann, joe}, asks |-> {"join"}, kicks |-> FALSE, breaks |-> FALSE, events |-> 4]
Rough == [people |-> {ann, joe}, asks |-> {"join"}, kicks |-> TRUE, breaks |-> TRUE, events |-> 3]
Moody(p) ==
    [people |-> {p}, asks |-> {"join", "part", "nick"}, kicks |-> FALSE, breaks |-> TRUE, events |-> 3]

Choosy(p) == [Moody(p) EXCEPT !.asks = {"join", "part"}]

AllSettings == {Calm, Rough} \cup {Moody(p) : p \in {ann, joe}} \cup {Choosy(p) : p \in {ann, joe}}

\* Users ask for one kind of thing and nothing else disturbs the bot.
Asked(what) ==
    [people |-> {ann, joe}, asks |-> {what}, kicks |-> FALSE, breaks |-> FALSE, events |-> 4]
JoinsAsked == {Asked("join")}
PartsAsked == {Asked("part")}
NicksAsked == {Asked("nick")}
PartsAndKicks == {[Asked("part") EXCEPT !.kicks = TRUE]}
NicksAndKicks == {[Asked("nick") EXCEPT !.kicks = TRUE]}
PartsAndNicks == {[Asked("part") EXCEPT !.people = {p}, !.asks = {"part", "nick"}] : p \in {ann, joe}}

\* Allocations are alike, and so are the nicks of other people.
Interchangeable == Permutations({u1, u2, u3} \cap UserId) \cup Permutations({ann, joe})

=============================================================================
