--------------------------- MODULE MCDataLogging ---------------------------
(* One tab that can show either of two ports, and so leave a logger behind. *)
EXTENDS DataLogging

CONSTANTS a1, p1, p2
MCPanel == {a1}
MCPort == {p1, p2}
=============================================================================
