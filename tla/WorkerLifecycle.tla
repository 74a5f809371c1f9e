-------------------------- MODULE WorkerLifecycle --------------------------
(***************************************************************************)
(* What a ConnectionWorker thread promises its controller, and nothing of  *)
(* how its loop works: one thread, one attempt to open the transport, and  *)
(* a log of the lifecycle signals it emitted, in order.                    *)
(*                                                                         *)
(* The promise is the code's, not the docstrings': a worker that opened    *)
(* ends with exactly one of "closed" and a close "error" as its last       *)
(* signal, a worker that never opened ends with an "error" only.           *)
(***************************************************************************)
EXTENDS Sequences

VARIABLES
    phase,      \* "created", "starting", "open", "ended"
    signals     \* lifecycle signals emitted so far, oldest first

lvars == <<phase, signals>>

Phases == {"created", "starting", "open", "ended"}

Init == phase = "created" /\ signals = <<>>

\* start() of the QThread.
Start == phase = "created" /\ phase' = "starting" /\ UNCHANGED signals

\* The transport opened and the loop is entered.
Open == /\ phase = "starting"
        /\ phase' = "open"
        /\ signals' = Append(signals, "opened")

\* The transport did not open: reported as an error, nothing else follows.
Fail == /\ phase = "starting"
        /\ phase' = "ended"
        /\ signals' = Append(signals, "error")

\* The loop stopped on an I/O error; the transport is still to be closed.
Break == /\ phase = "open"
         /\ signals[Len(signals)] = "opened"
         /\ signals' = Append(signals, "error")
         /\ UNCHANGED phase

\* The transport was closed, or closing it raised.
Close == /\ phase = "open"
         /\ phase' = "ended"
         /\ \E s \in {"closed", "error"} : signals' = Append(signals, s)

Next == Start \/ Open \/ Fail \/ Break \/ Close

Spec == Init /\ [][Next]_lvars
=============================================================================
