--------------------------- MODULE MCMacroRunner ---------------------------
(* Two plans over a plain row, an expecting row and a row whose pattern    *)
(* cannot be compiled.                                                     *)
EXTENDS MacroRunner

MCOption == [loops : {0, 1}, stopOnError : BOOLEAN, broadcast : {FALSE}]
            \cup {[loops |-> 2, stopOnError |-> TRUE, broadcast |-> TRUE]}

MCPlan == {<<1, 2>>, <<2, 3>>}
=============================================================================
