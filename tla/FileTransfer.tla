---------------------------- MODULE FileTransfer ----------------------------
(***************************************************************************)
(* Sending a file: FileTransferService, a QRunnable of the thread pool for *)
(* each transfer; its registration with ConnectionController; and the      *)
(* dialog and FilePresenter that start it, cancel it and show its end.     *)
(*                                                                         *)
(* A file is Size chunks. A connection is abstracted to what a transfer    *)
(* sees of it (ConnectionController and ConnectionWorker model the rest):  *)
(*   "closed"  no worker is registered                                     *)
(*   "opening" the thread runs, its transport is not open yet              *)
(*   "open"    the thread writes what is queued                            *)
(*   "ending"  the thread runs, its transport is closed                    *)
(*   "gone"    the thread has ended, its closed signal is not served yet   *)
(*   "dead"    the thread has ended and left its entry behind              *)
(* A reopening before the closed signal is served is left out here.        *)
(*                                                                         *)
(* Progress signals are left out: update_progress raises before it enables *)
(* the cancel button (it reads eta_seconds, the DTO has eta), so they      *)
(* change no state, and that button is never enabled.                      *)
(***************************************************************************)
EXTENDS Integers, Sequences, FiniteSets

CONSTANTS
    Transfers, \* bound: transfers started, numbered in their order
    Port,      \* connection names
    None,
    Size,      \* chunks of a file
    Threshold, \* queue_threshold
    MaxOpens   \* bound: openings of ports

ASSUME SizeAssumption == Size \in Nat /\ Threshold \in Nat
ASSUME BoundAssumption == Transfers \in Nat /\ MaxOpens \in Nat

Transfer == 1 .. Transfers

ASSUME NoneAssumption == None \notin Transfer \cup Port

VARIABLES
    pc,        \* where each transfer is in run()
    target,    \* port_name of each transfer
    handed,    \* sent_bytes of each transfer, in chunks
    cancelled, \* _is_cancelled
    registry,  \* _active_file_transfers: name -> transfer or None
    status,    \* state of each connection
    queue,     \* chunks in the write queue of each connection's last worker
    opens,     \* bounded count
    signals,   \* signals queued for the GUI thread: <<transfer, kind>>, where
               \* "failed" and "succeeded" are transfer_completed(False) and (True)
    service,   \* FilePresenter.file_transfer_service
    dialog,    \* "closed", "new" (send disabled), "ready" (send enabled) or "busy" (send,
               \* select and close disabled)
    chosen,    \* FilePresenter.target_port
    dropped, steady, sinceCancel \* history of each transfer, forgotten at its end

transfers == <<pc, target, handed, cancelled>>
ports == <<status, queue, opens>>
gui == <<service, dialog, chosen>>
history == <<dropped, steady, sinceCancel>>
vars == <<transfers, registry, ports, signals, gui, history>>

Init == /\ pc = [t \in Transfer |-> "unused"]
        /\ target = [t \in Transfer |-> None]
        /\ handed = [t \in Transfer |-> 0]
        /\ cancelled = [t \in Transfer |-> FALSE]
        /\ registry = [p \in Port |-> None]
        /\ status = [p \in Port |-> "closed"]
        /\ queue = [p \in Port |-> 0]
        /\ opens = 0 /\ signals = <<>>
        /\ service = None /\ dialog = "closed" /\ chosen = None
        /\ dropped = [t \in Transfer |-> FALSE] /\ steady = [t \in Transfer |-> FALSE]
        /\ sinceCancel = [t \in Transfer |-> 0]

\* isRunning() of the registered worker
ThreadRuns(p) == status[p] \in {"opening", "open", "ending"}

-----------------------------------------------------------------------------
(* The dialog and FilePresenter *)

\* The dialog is modal: it is opened, and ports are, only while no other one is shown. Its
\* port is that of the current tab; no tab is as good as a tab whose port is closed.
OpenDialog(p) ==
    /\ dialog = "closed"
    /\ dialog' = "new" /\ chosen' = p
    /\ UNCHANGED <<transfers, registry, ports, signals, service, history>>

PickFile ==
    /\ dialog = "new"
    /\ dialog' = "ready"
    /\ UNCHANGED <<transfers, registry, ports, signals, service, chosen, history>>

\* set_complete; the dialog that was closed is no longer known.
Complete(d) == IF d = "closed" THEN d ELSE "ready"

\* on_send_clicked and start_transfer: a new service, if the thread of the port runs. If
\* not, set_complete leaves the dialog as it was.
StartTransfer(t) ==
    /\ dialog = "ready" /\ ThreadRuns(chosen)
    /\ pc[t] = "unused" /\ \A u \in 1 .. t - 1 : pc[u] # "unused"
    /\ pc' = [pc EXCEPT ![t] = "pooled"]
    /\ target' = [target EXCEPT ![t] = chosen]
    /\ steady' = [steady EXCEPT ![t] = status[chosen] = "open"]
    /\ service' = t
    /\ dialog' = "busy"
    /\ UNCHANGED <<handed, cancelled, registry, ports, signals, chosen, dropped, sinceCancel>>

\* closeEvent: asks to cancel if the send button is disabled.
CancelsOnClose == dialog # "ready" /\ service # None

CloseWindow ==
    /\ dialog # "closed"
    /\ cancelled' = IF CancelsOnClose THEN [cancelled EXCEPT ![service] = TRUE] ELSE cancelled
    /\ dialog' = "closed" /\ chosen' = None
    /\ UNCHANGED <<pc, target, handed, registry, ports, signals, service, history>>

\* reject(): the close button, or the escape key, which no closeEvent follows.
Escape ==
    /\ dialog # "closed"
    /\ dialog' = "closed" /\ chosen' = None
    /\ UNCHANGED <<transfers, registry, ports, signals, service, history>>

\* _on_error and _on_completed, for whatever transfer and in whatever dialog.
TakeSignal ==
    /\ signals # <<>>
    /\ signals' = Tail(signals)
    /\ dialog' = Complete(dialog)
    /\ service' = IF Head(signals)[2] = "error" THEN service ELSE None
    /\ UNCHANGED <<transfers, registry, ports, chosen, history>>

-----------------------------------------------------------------------------
(* Connections, as a transfer sees them *)

Unsteady(p) == [t \in Transfer |-> steady[t] /\ target[t] # p]

Become(p, s) == status' = [status EXCEPT ![p] = s]

OpenPort(p) ==
    /\ dialog = "closed" /\ status[p] \in {"closed", "dead"} /\ opens < MaxOpens
    /\ Become(p, "opening")
    /\ queue' = [queue EXCEPT ![p] = 0]
    /\ opens' = opens + 1
    /\ UNCHANGED <<transfers, registry, signals, gui, history>>

PortOpened(p) ==
    /\ status[p] = "opening"
    /\ Become(p, "open") \/ Become(p, "dead")
    /\ UNCHANGED <<transfers, registry, queue, opens, signals, gui, history>>

PortLost(p) ==
    /\ status[p] = "open"
    /\ Become(p, "ending")
    /\ steady' = Unsteady(p)
    /\ UNCHANGED <<transfers, registry, queue, opens, signals, gui, dropped, sinceCancel>>

\* A close that raised sends no closed signal.
PortEnds(p) ==
    /\ status[p] = "ending"
    /\ Become(p, "gone") \/ Become(p, "dead")
    /\ UNCHANGED <<transfers, registry, queue, opens, signals, gui, history>>

ClosedServed(p) ==
    /\ status[p] = "gone"
    /\ Become(p, "closed")
    /\ UNCHANGED <<transfers, registry, queue, opens, signals, gui, history>>

\* close_connection: cancel the registered transfer, stop the worker.
ClosePort(p) ==
    /\ dialog = "closed" /\ status[p] # "closed"
    /\ cancelled' = [t \in Transfer |-> cancelled[t] \/ registry[p] = t]
    /\ Become(p, IF status[p] = "open" THEN "ending" ELSE status[p])
    /\ steady' = Unsteady(p)
    /\ UNCHANGED <<pc, target, handed, registry, queue, opens, signals, gui, dropped,
                   sinceCancel>>

Drain(p) ==
    /\ status[p] = "open" /\ queue[p] > 0
    /\ queue' = [queue EXCEPT ![p] = queue[p] - 1]
    /\ UNCHANGED <<transfers, registry, status, opens, signals, gui, history>>

-----------------------------------------------------------------------------
(* The service: run() *)

Goto(t, l) == pc' = [pc EXCEPT ![t] = l]

\* register_file_transfer overwrites. A file that is not there ends the transfer as an
\* exception does.
Register(t) ==
    /\ pc[t] = "pooled"
    /\ Goto(t, "wait") \/ Goto(t, "raised")
    /\ registry' = [registry EXCEPT ![target[t]] = t]
    /\ UNCHANGED <<target, handed, cancelled, ports, signals, gui, history>>

\* get_write_queue_size: 0 without a worker.
QueueOfLast(p) == queue[p]                                 \* mutant: the queue of a removed worker
QueueSize(p) == IF status[p] = "closed" THEN 0 ELSE queue[p]

NeverFull(p) == FALSE                                      \* mutant: no backpressure
Full(p) == QueueSize(p) > Threshold

CancelIgnored(t) == FALSE                                  \* mutant: flag tested at the end only
MustStop(t) == cancelled[t]

Eof(t) == handed[t] = Size

\* The loop test, the polling of the queue and the reading of a chunk.
Read(t) ==
    /\ pc[t] = "wait"
    /\ MustStop(t) \/ ~Full(target[t])
    /\ Goto(t, IF MustStop(t) \/ Eof(t) THEN "end" ELSE "send")
    /\ UNCHANGED <<target, handed, cancelled, registry, ports, signals, gui, history>>

\* send_data_to_connection: a thread that runs takes the chunk if its transport is open,
\* and drops it otherwise; both count as sent.
Send(t) ==
    LET p == target[t]
        accepts == status[p] = "open"
    IN
    /\ pc[t] = "send" /\ ThreadRuns(p)
    /\ Goto(t, "wait")
    /\ handed' = [handed EXCEPT ![t] = handed[t] + 1]
    /\ queue' = IF accepts THEN [queue EXCEPT ![p] = queue[p] + 1] ELSE queue
    /\ dropped' = IF accepts THEN dropped ELSE [dropped EXCEPT ![t] = TRUE]
    /\ sinceCancel' = IF cancelled[t] THEN [sinceCancel EXCEPT ![t] = sinceCancel[t] + 1]
                                      ELSE sinceCancel
    /\ UNCHANGED <<target, cancelled, registry, status, opens, signals, gui, steady>>

SendFails(t) ==
    /\ pc[t] = "send" /\ ~ThreadRuns(target[t])
    /\ Goto(t, "raised")
    /\ UNCHANGED <<target, handed, cancelled, registry, ports, signals, gui, history>>

\* What is signalled at the end.
Failure(t) == <<<<t, "error">>, <<t, "failed">>>>
Success(t) == <<<<t, "succeeded">>>>

AlwaysSucceeds(t) == TRUE                                  \* mutant: flag not looked at
Succeeds(t) == ~cancelled[t]

End(t) ==
    /\ pc[t] = "end"
    /\ Goto(t, "unregister")
    /\ signals' = signals \o IF Succeeds(t) THEN Success(t) ELSE Failure(t)
    /\ UNCHANGED <<target, handed, cancelled, registry, ports, gui, history>>

Fail(t) ==
    /\ pc[t] = "raised"
    /\ Goto(t, "unregister")
    /\ signals' = signals \o Failure(t)
    /\ UNCHANGED <<target, handed, cancelled, registry, ports, gui, history>>

\* unregister_file_transfer: whatever transfer is registered under the name.
RegistryKept(p) == registry                                \* mutant: no finally clause
Removed(p) == [registry EXCEPT ![p] = None]

Unregister(t) ==
    /\ pc[t] = "unregister"
    /\ Goto(t, "done")
    /\ registry' = Removed(target[t])
    /\ dropped' = [dropped EXCEPT ![t] = FALSE] /\ steady' = [steady EXCEPT ![t] = FALSE]
    /\ sinceCancel' = [sinceCancel EXCEPT ![t] = 0]
    /\ UNCHANGED <<target, handed, cancelled, ports, signals, gui>>

Run(t) == \/ Register(t) \/ Read(t) \/ Send(t) \/ SendFails(t)
          \/ End(t) \/ Fail(t) \/ Unregister(t)

-----------------------------------------------------------------------------
Next ==
    \/ PickFile \/ CloseWindow \/ Escape \/ TakeSignal
    \/ \E p \in Port : \/ OpenDialog(p) \/ OpenPort(p) \/ PortOpened(p) \/ PortLost(p) \/ PortEnds(p)
                       \/ ClosedServed(p) \/ ClosePort(p) \/ Drain(p)
    \/ \E t \in Transfer : StartTransfer(t) \/ Run(t)

Spec == Init /\ [][Next]_vars

\* The pool runs every transfer, a connection's thread writes and comes to an end, and the
\* GUI thread serves its queue. Nothing obliges a user or a device to anything.
Fairness ==
    /\ \A t \in Transfer : WF_vars(Run(t))
    /\ \A p \in Port : /\ WF_vars(PortOpened(p)) /\ WF_vars(PortEnds(p))
                       /\ WF_vars(ClosedServed(p)) /\ WF_vars(Drain(p))
    /\ WF_vars(TakeSignal)

FairSpec == Spec /\ Fairness

-----------------------------------------------------------------------------
(* Properties *)

Points == {"unused", "pooled", "wait", "send", "end", "raised", "unregister", "done"}

\* Type invariant.
TypeOK ==
    /\ pc \in [Transfer -> Points]
    /\ target \in [Transfer -> Port \cup {None}]
    /\ \A t \in Transfer : pc[t] = "unused" <=> target[t] = None
    /\ handed \in [Transfer -> 0 .. Size]
    /\ cancelled \in [Transfer -> BOOLEAN]
    /\ registry \in [Port -> Transfer \cup {None}]
    /\ status \in [Port -> {"closed", "opening", "open", "ending", "gone", "dead"}]
    /\ queue \in [Port -> Nat]
    /\ opens \in 0 .. MaxOpens
    /\ signals \in Seq(Transfer \X {"error", "failed", "succeeded"})
    /\ service \in Transfer \cup {None}
    /\ dialog \in {"closed", "new", "ready", "busy"} /\ chosen \in Port \cup {None}
    /\ dialog # "closed" => chosen \in Port
    /\ dropped \in [Transfer -> BOOLEAN]
    /\ steady \in [Transfer -> BOOLEAN]
    /\ sinceCancel \in [Transfer -> Nat]

\* Between register_file_transfer and unregister_file_transfer.
ActivePoints == {"wait", "send", "end", "raised", "unregister"}
Active(t) == pc[t] \in ActivePoints

\* Backpressure: the chunks queued for a port exceed the threshold by at most one for each
\* transfer to it, however their looks at the queue and their sends interleave
\* (get_write_queue_size, run). Payloads of others only make a transfer wait longer.
QueueBounded ==
    \A p \in Port : queue[p] <= Threshold + Cardinality({t \in Transfer : target[t] = p})

\* The registry names active transfers only, and a transfer that is active is not
\* registered - and so not cancelled when its port is closed - only if there is another
\* transfer to the same port (register_file_transfer, unregister_file_transfer).
RegistryTracksActive ==
    /\ \A p \in Port : registry[p] # None => Active(registry[p]) /\ target[registry[p]] = p
    /\ \A t \in Transfer :
          Active(t) /\ registry[target[t]] # t =>
              \E u \in Transfer \ {t} : target[u] = target[t]

\* A dialog that shows a transfer under way has one, or its end is still to be told:
\* no path through run() leaves the buttons disabled (set_ui_busy_state).
BusyHasTransfer ==
    dialog = "busy" => \/ signals # <<>>
                   \/ \E t \in Transfer : pc[t] \notin {"unused", "unregister", "done"}

\* What the program believes of the transfers - the registry a close cancels from, the dialog
\* the user waits at - agrees with the threads.
BeliefsHold == RegistryTracksActive /\ BusyHasTransfer

\* A cancelled transfer hands over at most one more chunk (cancel, run).
CancelledSendsAtMostOne == \A t \in Transfer : sinceCancel[t] <= 1

\* A transfer that reports success has read its file to the end, and if its connection was
\* open all the time, no chunk was dropped on the way to the write queue (run).
SuccessIsWhole ==
    [][ \A t \in Transfer : signals' = signals \o Success(t) =>
          handed[t] = Size /\ (steady[t] => ~dropped[t]) ]_vars

\* The thread of the port has died with its entry left behind and its queue full: nobody
\* empties the queue any more.
Wedged(p) == status[p] = "dead" /\ Full(p)

\* Every transfer ends, whatever becomes of its port, unless the port is wedged (run).
TransferEnds ==
    \A t \in Transfer :
        (pc[t] = "pooled") ~> (pc[t] = "done" \/ \E p \in Port : target[t] = p /\ Wedged(p))

\* The buttons of the dialog come back, or the dialog is closed (set_complete).
BusyEnds == (dialog = "busy") ~> (dialog # "busy" \/ \E p \in Port : Wedged(p))

\* Nobody waits for ever on a port that is not wedged, neither the thread nor the user.
NobodyWaitsForEver == TransferEnds /\ BusyEnds
=============================================================================
