----------------------------- MODULE MCLogView -----------------------------
(* A list of five lines, trimmed one by one, and messages of one or two lines. *)
EXTENDS LogView
=============================================================================
