----------------------- MODULE MCConnectionController -----------------------
(* Two names and two worker objects: enough for a port to be opened again      *)
(* while the closed signal of its first worker is queued, or for two ports to  *)
(* be closed at once. Three workers: enough for a third beside an evicted one. *)
EXTENDS ConnectionController

CONSTANTS p1, p2, w1, w2, w3

MCPort == {p1, p2}
MCOnePort == {p1}
MCWorker == {w1, w2, w3}
MCTwoWorkers == {w1, w2}
=============================================================================
