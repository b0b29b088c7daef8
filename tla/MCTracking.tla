----------------------------- MODULE MCTracking -----------------------------
(* Small instances of Tracking for TLC. *)
EXTENDS Tracking

CONSTANTS u1, u2, u3, bot, alt, ann, joe, cats, dogs

=============================================================================
