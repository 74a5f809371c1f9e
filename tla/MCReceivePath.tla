--------------------------- MODULE MCReceivePath ---------------------------
(* Two tabs for two ports, packet buffers of one or two, streams of at most five bytes. *)
EXTENDS ReceivePath

CONSTANTS p1, p2
MCPort == {p1, p2}
MCShown == <<p1, p2>>
MCStream == UNION {[1..n -> {CR, LF, 0}] : n \in 0..5}
=============================================================================
