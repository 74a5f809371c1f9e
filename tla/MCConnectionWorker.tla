------------------------- MODULE MCConnectionWorker -------------------------
(* Small sizes for TLC: one byte per read, a batch of two, and two threads    *)
(* that send at once.                                                         *)
EXTENDS ConnectionWorker

CONSTANTS gui, file

MCSenders == {gui, file}
=============================================================================
