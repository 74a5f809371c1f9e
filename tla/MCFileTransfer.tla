--------------------------- MODULE MCFileTransfer ---------------------------
(* One port and two transfers, that of the second dialog perhaps while the  *)
(* first still goes on; a queue that is full with one chunk.                *)
EXTENDS FileTransfer

CONSTANTS p1
MCPort == {p1}
=============================================================================
