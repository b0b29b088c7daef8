-------------------------------- MODULE Match --------------------------------
(***************************************************************************)
(* Masks: match() of src/src/match.c, by which the entries of the user     *)
(* file find their users, and check_chan() of src/src/list.c, which looks  *)
(* a channel up in an entry's list of channels.                            *)
(*                                                                         *)
(* match() is a loop that goes through the mask and the name together and  *)
(* comes back to the last star after a mismatch; a turn of it is a step.   *)
(* It gives up after so many turns.                                        *)
(***************************************************************************)
EXTENDS Naturals, Sequences, FiniteSets, SequencesExt

CONSTANTS
    Lower,      \* tolower(), on the characters that occur
    Star, One, Escape, Comma,   \* '*', '?', '\\', ','
    All,        \* "all"
    NUL,        \* '\0', behind the end of a string
    Masks,      \* strings that are matched, and
    Names,      \* those they are matched with
    MaxCalls    \* MATCH_MAX_CALLS

ASSUME MatchAssumption ==
    /\ Masks \cup Names \subseteq Seq(DOMAIN Lower)
    /\ NUL \notin DOMAIN Lower \cup {Star, Escape}
    /\ MaxCalls \in Nat

VARIABLES
    mask, name, \* the arguments of match()
    at,         \* its local variables
    calls,      \* how many turns it has begun
    result      \* what it returns

mvars == <<mask, name, at, calls, result>>

\* Positions are counted from 1; the NUL stands behind the last character.
Char(s, i) == IF i \in DOMAIN s THEN s[i] ELSE NUL
Ended(s, i) == i > Len(s)

tolower(c) == IF c = NUL THEN NUL ELSE Lower[c]

strcaseeq(s, t) ==
    /\ s # << >> /\ t # << >>
    /\ Len(s) = Len(t)
    /\ \A i \in DOMAIN s : tolower(s[i]) = tolower(t[i])

-----------------------------------------------------------------------------
(* check_chan *)

\* The fields of a comma separated list, as the loop over it collects them.
Collect(c, f) == IF c = Comma THEN Append(f, << >>)
                 ELSE [f EXCEPT ![Len(f)] = Append(@, c)]
Fields(s) == FoldLeft(LAMBDA f, c : Collect(c, f), << << >> >>, s)

check_chan(userchan, serverchan) ==
    \/ strcaseeq(userchan, All)
    \/ strcaseeq(userchan, serverchan)
    \/ \E i \in DOMAIN Fields(userchan) : strcaseeq(Fields(userchan)[i], serverchan)

-----------------------------------------------------------------------------
(* A turn of match(): the escape, the star, the end of the mask, the end of *)
(* the name, and a character of each.                                      *)

Start == [m |-> 1, n |-> 1, ma |-> 1, na |-> 1, wild |-> FALSE, quote |-> 0]

\* quote tells how long ago the escape was: it holds for one turn.
Aged(q) == CASE q = 0 -> 0 [] q = 1 -> 2 [] q = 2 -> 0

\* The first place from i on that is no star.
PastStars(i) == CHOOSE j \in i .. Len(mask) + 1 :
                    /\ Char(mask, j) # Star
                    /\ \A k \in i .. j - 1 : mask[k] = Star

AtEscape(s) == s.quote = 0 /\ Char(mask, s.m) = Escape
AtStar(s)   == s.quote = 0 /\ Char(mask, s.m) = Star

\* A star: the name may go on from here, with what follows in the mask.
Starred(s) ==
    IF ~AtStar(s) THEN s
    ELSE LET j == PastStars(s.m)
             escaped == Char(mask, j) = Escape
             k == IF escaped THEN j + 1 ELSE j
         IN  [m |-> k, n |-> s.n, ma |-> k, na |-> s.n, wild |-> TRUE,
              quote |-> IF escaped THEN 2 ELSE s.quote]

\* A star and an escape with nothing behind it.
Invalid(s) == AtStar(s) /\ Char(mask, PastStars(s.m)) = Escape /\ Ended(mask, PastStars(s.m) + 1)

\* Wrong on purpose: the star takes no more than before.
RetryAhead(s) == [s EXCEPT !.m = s.ma]

\* Back to the last star, which takes one character more.
Retry(s) == [s EXCEPT !.m = s.ma, !.n = s.na + 1, !.na = @ + 1]

\* At the end of the mask the code goes back over what any one character matches,
\* to the first character of the mask at most. The first step back is taken before
\* it looks: from the end of an empty mask it leads to 0, before the mask.
WalkedBack == CHOOSE k \in 0 .. Len(mask) :
                  /\ ~(k > 1 /\ mask[k] = One)
                  /\ \A i \in k + 1 .. Len(mask) : i > 1 /\ mask[i] = One

\* Is that a star, which is not the first character? (Before the mask the code reads
\* what is there, but whatever it is, it is not behind the first.)
OpenEnd == WalkedBack > 1 /\ mask[WalkedBack] = Star

SameChar(s) ==
    \/ tolower(Char(mask, s.m)) = tolower(Char(name, s.n))
    \/ s.quote = 0 /\ Char(mask, s.m) = One

Turn ==
    /\ result = "none"
    /\ calls < MaxCalls
    /\ calls' = calls + 1
    /\ UNCHANGED <<mask, name>>

\* The variables of the turn, once quote is aged and a star is passed.
Now == LET s == [at EXCEPT !.quote = Aged(@)] IN Starred(s)
Plain == ~AtEscape([at EXCEPT !.quote = Aged(@)]) /\ ~Invalid([at EXCEPT !.quote = Aged(@)])

Escaped ==
    /\ Turn
    /\ AtEscape([at EXCEPT !.quote = Aged(@)])
    /\ at' = [at EXCEPT !.m = @ + 1, !.quote = 1]
    /\ UNCHANGED result

InvalidMask ==
    /\ Turn
    /\ Invalid([at EXCEPT !.quote = Aged(@)])
    /\ result' = "no"
    /\ UNCHANGED at

\* The mask has ended and the name has not: the code walks back in the mask.
WalksBack == ~Ended(name, Now.n) /\ Now.quote = 0

\* Both have ended, or what is left of the name is a star's.
MaskEnds ==
    /\ Turn /\ Plain
    /\ Ended(mask, Now.m)
    /\ WalksBack => OpenEnd \/ ~Now.wild
    /\ result' = IF Ended(name, Now.n) \/ (WalksBack /\ OpenEnd) THEN "yes" ELSE "no"
    /\ at' = [Now EXCEPT !.m = IF WalksBack THEN WalkedBack ELSE @]

\* Wrong on purpose: what is left of the mask does not matter.
NameEndsEarly ==
    /\ Turn /\ Plain
    /\ ~Ended(mask, Now.m) /\ Ended(name, Now.n)
    /\ result' = "yes"
    /\ UNCHANGED at

NameEnds ==
    /\ Turn /\ Plain
    /\ ~Ended(mask, Now.m) /\ Ended(name, Now.n)
    /\ result' = IF Now.quote = 0 /\ Ended(mask, PastStars(Now.m)) THEN "yes" ELSE "no"
    /\ UNCHANGED at

\* Wrong on purpose: on behind the ends, too.
ComparedBlindly(s) ==
    \/ /\ SameChar(s)
       /\ at' = [s EXCEPT !.m = @ + 1, !.n = @ + 1]
       /\ UNCHANGED result
    \/ /\ ~SameChar(s) /\ s.wild
       /\ at' = Retry(s)
       /\ UNCHANGED result
    \/ /\ ~SameChar(s) /\ ~s.wild
       /\ result' = "no"
       /\ UNCHANGED at

\* The characters at s are compared.
Compared(s) ==
    \/ /\ SameChar(s)
       /\ at' = [s EXCEPT !.m = IF Ended(mask, @) THEN @ ELSE @ + 1,
                          !.n = IF Ended(name, @) THEN @ ELSE @ + 1]
       /\ UNCHANGED result
    \/ /\ ~SameChar(s) /\ s.wild
       /\ at' = Retry(s)
       /\ UNCHANGED result
    \/ /\ ~SameChar(s) /\ ~s.wild
       /\ result' = "no"
       /\ UNCHANGED at

\* The mask has ended and the name has not: back to the star, and on.
MaskEndsEarly ==
    /\ Turn /\ Plain
    /\ Ended(mask, Now.m)
    /\ WalksBack /\ ~OpenEnd /\ Now.wild
    /\ Compared(Retry(Now))

Character ==
    /\ Turn /\ Plain
    /\ ~Ended(mask, Now.m) /\ ~Ended(name, Now.n)
    /\ Compared(Now)

\* "no", without having looked to the end.
GiveUp ==
    /\ result = "none"
    /\ calls = MaxCalls
    /\ result' = "gave up"
    /\ UNCHANGED <<mask, name, at, calls>>

-----------------------------------------------------------------------------
MatchInit ==
    /\ mask \in Masks
    /\ name \in Names
    /\ at = Start
    /\ calls = 0
    /\ result = "none"

MatchNext ==
    \/ Escaped \/ InvalidMask
    \/ MaskEnds \/ NameEnds \/ MaskEndsEarly \/ Character
    \/ GiveUp

MatchSpec == MatchInit /\ [][MatchNext]_mvars

-----------------------------------------------------------------------------
(* Properties *)

\* How far into the name the first i characters of the mask can reach, by what
\* the signs mean: a star any characters, a question mark one, an escape makes
\* the next sign an ordinary character.
Quoted[i \in Nat] == i > 1 /\ mask[i - 1] = Escape /\ ~Quoted[i - 1]

Reach[i \in Nat] ==
    IF i = 0 THEN {0}
    ELSE LET before == Reach[i - 1] IN
         CASE mask[i] = Escape /\ ~Quoted[i] -> before
           [] mask[i] = Star /\ ~Quoted[i] ->
                {k \in 0 .. Len(name) : \E j \in before : j <= k}
           [] OTHER ->
                {k \in 1 .. Len(name) :
                    /\ k - 1 \in before
                    /\ \/ tolower(mask[i]) = tolower(name[k])
                       \/ mask[i] = One /\ ~Quoted[i]}

Meant == Len(name) \in Reach[Len(mask)]

Without(c) == \A i \in DOMAIN mask : mask[i] # c

\* Type correctness; no pointer is ever behind the end of its string, whatever the
\* escapes, the stars and the ways back, and one is before it only where a mask that
\* is empty has not matched a name that is not.
MatchTypeOK ==
    /\ \/ at.m \in 1 .. Len(mask) + 1
       \/ at.m = 0 /\ mask = << >> /\ name # << >> /\ result = "no"
    /\ at.ma \in 1 .. Len(mask) + 1
    /\ at.n \in 1 .. Len(name) + 1 /\ at.na \in 1 .. Len(name) + 1
    /\ at.quote \in 0 .. 2
    /\ result \in {"none", "yes", "no", "gave up"}

\* "compare if a given string matches the given mask": the answer is yes for no
\* name the mask does not mean, and no for none it means unless match() has given
\* up, for masks that do not use stars and escapes together.
AnswersRight ==
    Without(Escape) \/ Without(Star) =>
        /\ result = "yes" => Meant
        /\ result = "no" => ~Meant

\* The limit of turns is not reached by a mask and a name of which the lengths,
\* each with its end, multiply to no more.
LimitFits ==
    (Len(mask) + 1) * (Len(name) + 1) <= MaxCalls => result # "gave up"

\* An entry's channel list holds a channel exactly if "all" or the channel stands
\* there, by itself or between commas.
ChannelListed ==
    name # << >> =>
        (check_chan(mask, name) <=>
            \/ strcaseeq(mask, All)
            \/ strcaseeq(mask, name)
            \/ \E i, j \in 0 .. Len(mask) :
                  /\ i = 0 \/ mask[i] = Comma
                  /\ j = Len(mask) \/ mask[j + 1] = Comma
                  /\ \A k \in i + 1 .. j : mask[k] # Comma
                  /\ strcaseeq(SubSeq(mask, i + 1, j), name))

\* Both questions SetAccess asks of an entry, whether its mask matches the user
\* and whether its list holds the channel, are answered as the entry means it.
MasksAsMeant == AnswersRight /\ ChannelListed

\* "So I re-enabled escaping": the same for every mask.
EscapesKept == result = "yes" => Meant

\* match() reads only the mask and the name: its pointer is never before the mask,
\* where it reads what stands there.
NeverBefore == at.m >= 1

\* 512 turns are enough: match() does not give up.
NeverGivesUp == result # "gave up"

=============================================================================
