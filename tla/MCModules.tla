----------------------------- MODULE MCModules ------------------------------
(* Small instances of Modules for TLC. *)
EXTENDS Modules

\* The lists the modules of the repository hook into, and numerics, which only
\* the bot's own handlers are in.
Cleared == <<"numerics", "commands", "triggers">>

Lists == Range(Cleared) \cup {"modules"}

\* Some of the handlers of chanop, which drops them itself, and a module of
\* somebody else's, which leaves most to the loader.  "JOIN" is a command of
\* the bot, too.
Hooks == [chanop |-> << [kind |-> "commands", key |-> "JOIN"],
                        [kind |-> "triggers", key |-> "EV_JOIN"] >>,
          other  |-> << [kind |-> "triggers", key |-> "EV_JOIN"],
                        [kind |-> "triggers", key |-> "EV_JOIN"],
                        [kind |-> "numerics", key |-> "353"] >>]

Unhooks == [Hooks EXCEPT !.other = << [kind |-> "triggers", key |-> "EV_JOIN"] >>]

BotsOwn == [numerics |-> << "353" >>, commands |-> << "JOIN" >>, triggers |-> << >>]

Plain == [chanop |-> "chanop", other |-> "other"]

\* Two paths of one file.
Aliased == [chanop |-> "chanop", other |-> "chanop"]

=============================================================================
