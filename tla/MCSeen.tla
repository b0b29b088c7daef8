------------------------------- MODULE MCSeen -------------------------------
(* Small instances of Seen for TLC. *)
EXTENDS Seen

CONSTANTS bot, ann, Ann, joe, cats, dogs

\* Two spellings of one nick.
Cases == [n \in {bot, ann, Ann, joe} |-> IF n = Ann THEN ann ELSE n]

=============================================================================
