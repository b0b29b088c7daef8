------------------------------ MODULE MCAccess ------------------------------
(* Small instances of Access for TLC. *)
EXTENDS Access

CONSTANTS ann, joe, Ann, Joe, Joe2, cats, dogs, home, work, pw

Starts == [u \in User |-> IF u = ann THEN Ann ELSE Joe]
Homes  == [u \in User |-> IF u = ann THEN home ELSE work]

\* A line of the user file.
Line(nicks, hosts, chans, pass, status) ==
    [nicks |-> nicks, hosts |-> hosts, chans |-> chans, pass |-> pass, status |-> status]

\* joe is known by two lines, the first for another address; ann by one with
\* a password on one channel only, and by another the first one hides.
Mixed ==
    << Line({Joe}, {home}, {All}, NoPassword, 0),
       Line({Joe, Joe2} \cap Nick, {work}, {All}, NoPassword, 1),
       Line({Ann}, {home}, {cats}, pw, 0),
       Line({Ann}, {home, work}, {All}, NoPassword, 1) >>

\* joe, once level 1, is banned.
Strict == << Line({Joe, Joe2} \cap Nick, {work}, {All}, NoPassword, -1),
             Line({Ann}, {home}, {All}, pw, 0) >>

\* joe is a master by one nick and listed by another, nobody has a password.
Plain == << Line({Joe}, {work}, {All}, NoPassword, 0),
            Line({Ann, Joe2} \cap Nick, {home, work}, {All}, NoPassword, 1) >>

\* All that a step reads: the line the last one sent is no part of it.
Kept == <<userdata, autoop, nick, online, known, learnt, access, level,
          warm, asked, told, alive>>

MixedOnly  == {Mixed}
PlainOnly  == {Plain}
Either     == {Mixed, Strict}

=============================================================================
