--------------------------- MODULE MCMacroSession --------------------------
(* Options of the panel, which always stops on errors: once to one port,   *)
(* or for ever to all; a command that can be sent, or one that cannot.     *)
EXTENDS MacroSession

MCOption == {[loops |-> 1, stopOnError |-> TRUE, broadcast |-> FALSE],
             [loops |-> 0, stopOnError |-> TRUE, broadcast |-> TRUE]}
MCPlan == {<<1>>, <<2>>}
=============================================================================
