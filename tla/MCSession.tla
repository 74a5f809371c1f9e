----------------------------- MODULE MCSession ------------------------------
(* Two themes and two languages, three commands with a history of two, files of three kinds. *)
EXTENDS Session

CONSTANTS c1, c2, c3
MCCommand == {c1, c2, c3}
Commands == Permutations(MCCommand)

Empty == [k \in Key |-> None]
Filled == [Empty EXCEPT !["theme"] = "light", !["echo"] = TRUE, !["splitter"] = 400, !["saved_width"] = 450, !["size"] = 6]
MCEdit == {
    Doc(TRUE, TRUE, Filled),
    Doc(FALSE, TRUE, [Filled EXCEPT !["rx_max_lines"] = 500, !["theme"] = "blue", !["language"] = "fr"]),
    Doc(FALSE, TRUE, [Empty EXCEPT !["rx_max_lines"] = 500, !["max_log_lines"] = 800, !["saved_width"] = 350]),
    Doc(FALSE, FALSE, Filled) }
MCTheme == <<"dark", "light">>
Rule(c, l, d) == [color |-> c, light |-> l, dark |-> d]
MCColorFile == { [kind |-> "missing"],
                 [kind |-> "rules", rules |-> <<Rule("C", "", ""), Rule("", "L", "D"), Rule("C", "", "D")>>] }
=============================================================================
