---------------------------- MODULE MCMacroList ----------------------------
(* Up to four rows, and scripts that break off after three rows and at once. *)
EXTENDS MacroList

CONSTANTS c1, c2, c3

Entry(c, on, d) == [command |-> c, enabled |-> on, delay |-> d]
MCScript == {<<Entry(c1, TRUE, NotANumber), Entry(c2, FALSE, 0), Entry(c3, TRUE, 5), Broken>>,
             <<Broken>>}

=============================================================================
