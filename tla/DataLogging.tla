----------------------------- MODULE DataLogging -----------------------------
(***************************************************************************)
(* Recording the data of a port in a file: DataLogger, its queue and its   *)
(* writer thread; DataLoggerManager; and the handlers of MainPresenter and *)
(* DataTrafficHandler that start it, feed it and stop it on the GUI thread.*)
(*                                                                         *)
(* A chunk is its number of arrival. A record of a PCAP file is two writes,*)
(* the packet header and the payload; of a BIN or HEX file it is one.      *)
(* Left out: the paths of the files (two loggers given one path overwrite  *)
(* each other) and the global header of PCAP.                              *)
(***************************************************************************)
EXTENDS Integers, Sequences

CONSTANTS
    Panel,    \* PortPanels, one for each tab
    Port,     \* port names
    Loggers,  \* bound: DataLogger instances, numbered in the order of their start
    Arrivals, \* bound: chunks that reach a logger
    Faults,   \* bound: writes the disk refuses
    None

ASSUME BoundAssumption == Loggers \in Nat /\ Arrivals \in Nat /\ Faults \in Nat

Logger == 1 .. Loggers

ASSUME NoneAssumption ==
    None \notin Port /\ None \notin Panel /\ None \notin Logger /\ None \notin {"pcap", "bin"}

VARIABLES
    shown,    \* get_port_name() of each panel
    button,   \* the logging button of each panel: checked or not
    loggers,  \* DataLoggerManager._loggers: name -> logger or None
    gui,      \* where the GUI thread is: "loop", "dialog" (the file dialog is open), "start",
              \* or in stop_logging at "stop", "join", "close", "forget"
    asked,    \* the panel whose request is handled
    format,   \* format to start with after a stop, or None
    arrived,  \* bounded count
    faults,   \* bounded count
    pc,       \* where the writer of each logger is
    logging,  \* _is_logging
    file,     \* _file: "none", "open" or "closed"
    queue,    \* _queue
    kind,     \* format of each logger
    hand,     \* item taken from the queue
    disk,     \* records of each file: the chunk, and whether its payload was written
    accepted, \* history: chunks put in the queue
    late, lost \* history: join gave up; the disk refused a write

panels == <<shown, button>>
request == <<gui, asked, format>>
counts == <<arrived, faults>>
writer == <<pc, hand, disk>>
history == <<accepted, late, lost>>
vars == <<panels, loggers, request, counts, writer, logging, file, queue, kind, history>>

Init == /\ shown \in [Panel -> Port] /\ button = [a \in Panel |-> FALSE]
        /\ loggers = [p \in Port |-> None]
        /\ gui = "loop" /\ asked = None /\ format = None
        /\ arrived = 0 /\ faults = 0
        /\ pc = [l \in Logger |-> "unused"]
        /\ logging = [l \in Logger |-> FALSE]
        /\ file = [l \in Logger |-> "none"]
        /\ queue = [l \in Logger |-> <<>>]
        /\ kind = [l \in Logger |-> None]
        /\ hand = [l \in Logger |-> None]
        /\ disk = [l \in Logger |-> <<>>]
        /\ accepted = [l \in Logger |-> <<>>]
        /\ late = [l \in Logger |-> FALSE] /\ lost = [l \in Logger |-> FALSE]

-----------------------------------------------------------------------------
(* The GUI thread: panels, MainPresenter and DataLoggerManager *)

\* Qt handlers run while the file dialog is open, not while the thread waits in join().
Serving == gui \in {"loop", "dialog"}

\* The user, or the result of a scan, selects another port.
SelectPort(a, p) ==
    /\ Serving /\ shown[a] # p
    /\ shown' = [shown EXCEPT ![a] = p]
    /\ UNCHANGED <<button, loggers, request, counts, writer, logging, file, queue, kind, history>>

\* The button of a panel that is not logging, or the menu, of any.
RequestStart(a) ==
    /\ gui = "loop"
    /\ gui' = "dialog" /\ asked' = a
    /\ button' \in {button, [button EXCEPT ![a] = TRUE]}
    /\ UNCHANGED <<shown, loggers, format, counts, writer, logging, file, queue, kind, history>>

DialogCancelled ==
    /\ gui = "dialog"
    /\ button' = [button EXCEPT ![asked] = FALSE]
    /\ gui' = "loop" /\ asked' = None
    /\ UNCHANGED <<shown, loggers, format, counts, writer, logging, file, queue, kind, history>>

FormatOf(ext) == IF ext = "pcap" THEN "pcap" ELSE "bin"

\* start_logging of the manager stops a logger of that port first.
NeverReplaced(p) == FALSE                                  \* mutant: the old logger is overwritten
Replaced(p) == loggers[p] # None

DialogAccepted(ext) ==
    /\ gui = "dialog"
    /\ format' = FormatOf(ext)
    /\ gui' = IF Replaced(shown[asked]) THEN "stop" ELSE "start"
    /\ UNCHANGED <<panels, loggers, asked, counts, writer, logging, file, queue, kind, history>>

Answered(active) ==
    /\ button' = [button EXCEPT ![asked] = active]
    /\ gui' = "loop" /\ asked' = None /\ format' = None

\* The file is opened and the writer started.
Start(l) ==
    /\ gui = "start" /\ pc[l] = "unused" /\ \A k \in 1 .. l - 1 : pc[k] # "unused"
    /\ pc' = [pc EXCEPT ![l] = "loop"]
    /\ logging' = [logging EXCEPT ![l] = TRUE]
    /\ file' = [file EXCEPT ![l] = "open"]
    /\ kind' = [kind EXCEPT ![l] = format]
    /\ loggers' = [loggers EXCEPT ![shown[asked]] = l]
    /\ Answered(TRUE)
    /\ UNCHANGED <<shown, counts, hand, disk, queue, history>>

\* The directory or the file cannot be made.
StartFails ==
    /\ gui = "start"
    /\ Answered(FALSE)
    /\ UNCHANGED <<shown, loggers, counts, writer, logging, file, queue, kind, history>>

\* The checked button is clicked: whatever logger the port of the panel now has is stopped.
RequestStop(a) ==
    /\ gui = "loop" /\ button[a]
    /\ button' = [button EXCEPT ![a] = FALSE]
    /\ IF loggers[shown[a]] # None THEN gui' = "stop" /\ asked' = a
                                   ELSE UNCHANGED <<gui, asked>>
    /\ UNCHANGED <<shown, loggers, format, counts, writer, logging, file, queue, kind, history>>

Victim == loggers[shown[asked]]

StopFlagKept(l) == logging                                 \* mutant: _is_logging not cleared
Stopped(l) == [logging EXCEPT ![l] = FALSE]

Stop == /\ gui = "stop"
        /\ logging' = Stopped(Victim)
        /\ gui' = "join"
        /\ UNCHANGED <<panels, loggers, asked, format, counts, writer, file, queue, kind, history>>

Joined(l) == pc[l] = "done"

\* join(timeout=1.0) of a thread that is alive.
Join == /\ gui = "join"
        /\ \/ Joined(Victim) /\ UNCHANGED late
           \/ ~Joined(Victim) /\ late' = [late EXCEPT ![Victim] = TRUE]
        /\ gui' = "close"
        /\ UNCHANGED <<panels, loggers, asked, format, counts, writer, logging, file, queue, kind,
                       accepted, lost>>

CloseFile ==
    /\ gui = "close"
    /\ file' = [file EXCEPT ![Victim] = "closed"]
    /\ gui' = "forget"
    /\ UNCHANGED <<panels, loggers, asked, format, counts, writer, logging, queue, kind, history>>

\* flush() is refused: the file is left as it is, and forgotten all the same.
CloseFails ==
    /\ gui = "close" /\ faults < Faults
    /\ faults' = faults + 1
    /\ lost' = [lost EXCEPT ![Victim] = TRUE]
    /\ gui' = "forget"
    /\ UNCHANGED <<panels, loggers, asked, format, arrived, writer, logging, file, queue, kind,
                   accepted, late>>

\* _file = None, the entry is deleted, and the handler goes on.
Forget ==
    /\ gui = "forget"
    /\ file' = [file EXCEPT ![Victim] = "none"]
    /\ loggers' = [loggers EXCEPT ![shown[asked]] = None]
    /\ IF format # None THEN gui' = "start" /\ UNCHANGED <<button, asked, format>>
                        ELSE Answered(FALSE)
    /\ UNCHANGED <<shown, counts, writer, logging, queue, kind, history>>

-----------------------------------------------------------------------------
(* Data: on_fast_data_received and on_data_sent, served on the GUI thread *)

Put(q, i) == Append(q, i)

Receive(p) ==
    LET l == loggers[p] IN
    /\ Serving /\ l # None /\ logging[l] /\ arrived < Arrivals
    /\ arrived' = arrived + 1
    /\ queue' = [queue EXCEPT ![l] = Put(queue[l], arrived')]
    /\ accepted' = [accepted EXCEPT ![l] = Append(accepted[l], arrived')]
    /\ UNCHANGED <<panels, loggers, request, faults, writer, logging, file, kind, late, lost>>

-----------------------------------------------------------------------------
(* The writer thread: _write_loop *)

LeftInQueue(l) == ~logging[l]                              \* mutant: while self._is_logging
Drained(l) == ~logging[l] /\ queue[l] = <<>>

LoopEnds(l) ==
    /\ pc[l] = "loop" /\ Drained(l)
    /\ pc' = [pc EXCEPT ![l] = "done"]
    /\ UNCHANGED <<panels, loggers, request, counts, hand, disk, logging, file, queue, kind, history>>

Take(l) ==
    /\ pc[l] = "loop" /\ ~Drained(l) /\ queue[l] # <<>>
    /\ hand' = [hand EXCEPT ![l] = Head(queue[l])]
    /\ queue' = [queue EXCEPT ![l] = Tail(queue[l])]
    /\ pc' = [pc EXCEPT ![l] = "got"]
    /\ UNCHANGED <<panels, loggers, request, counts, disk, logging, file, kind, history>>

\* An item is dropped once there is no file.
Look(l) ==
    /\ pc[l] = "got"
    /\ pc' = [pc EXCEPT ![l] = IF file[l] = "none" THEN "loop" ELSE "record"]
    /\ UNCHANGED <<panels, loggers, request, counts, hand, disk, logging, file, queue, kind, history>>

\* The header of a packet, or the whole record of the other formats.
Record(l) ==
    /\ pc[l] = "record" /\ file[l] = "open"
    /\ LET whole == kind[l] # "pcap" IN
       /\ disk' = [disk EXCEPT ![l] = Append(disk[l], [chunk |-> hand[l], whole |-> whole])]
       /\ pc' = [pc EXCEPT ![l] = IF whole THEN "loop" ELSE "payload"]
    /\ UNCHANGED <<panels, loggers, request, counts, hand, logging, file, queue, kind, history>>

Payload(l) ==
    /\ pc[l] = "payload" /\ file[l] = "open"
    /\ disk' = [disk EXCEPT ![l] = [disk[l] EXCEPT ![Len(disk[l])].whole = TRUE]]
    /\ pc' = [pc EXCEPT ![l] = "loop"]
    /\ UNCHANGED <<panels, loggers, request, counts, hand, logging, file, queue, kind, history>>

\* The disk refuses: the item is lost and the loop goes on.
WriteFails(l) ==
    /\ pc[l] \in {"record", "payload"} /\ file[l] = "open" /\ faults < Faults
    /\ faults' = faults + 1
    /\ lost' = [lost EXCEPT ![l] = TRUE]
    /\ pc' = [pc EXCEPT ![l] = "loop"]
    /\ UNCHANGED <<panels, loggers, request, arrived, hand, disk, logging, file, queue, kind,
                   accepted, late>>

\* The file was closed under the writer: the loop is left.
WriteRaises(l) ==
    /\ pc[l] \in {"record", "payload"} /\ file[l] # "open"
    /\ logging' = [logging EXCEPT ![l] = FALSE]
    /\ pc' = [pc EXCEPT ![l] = "done"]
    /\ UNCHANGED <<panels, loggers, request, counts, hand, disk, file, queue, kind, history>>

Write(l) == Record(l) \/ Payload(l) \/ WriteFails(l)
Loop(l) == LoopEnds(l) \/ Take(l) \/ Look(l) \/ WriteRaises(l)

-----------------------------------------------------------------------------
Stopping == Stop \/ Join \/ CloseFile \/ CloseFails \/ Forget

Next ==
    \/ \E a \in Panel : \/ RequestStart(a) \/ RequestStop(a)
                        \/ \E p \in Port : SelectPort(a, p)
    \/ DialogCancelled \/ \E ext \in {"pcap", "other"} : DialogAccepted(ext)
    \/ StartFails \/ Stopping
    \/ \E p \in Port : Receive(p)
    \/ \E l \in Logger : Start(l) \/ Write(l) \/ Loop(l)

Spec == Init /\ [][Next]_vars

\* The writer is scheduled; the disk may hang, and the user never come back.
FairSpec == Spec /\ \A l \in Logger : WF_vars(Loop(l))

-----------------------------------------------------------------------------
(* Properties *)

Chunk == 1 .. Arrivals

\* Type invariant.
TypeOK ==
    /\ shown \in [Panel -> Port] /\ button \in [Panel -> BOOLEAN]
    /\ loggers \in [Port -> Logger \cup {None}]
    /\ gui \in {"loop", "dialog", "start", "stop", "join", "close", "forget"}
    /\ asked \in Panel \cup {None} /\ (gui = "loop" <=> asked = None)
    /\ format \in {"pcap", "bin", None} /\ (gui = "start" => format # None)
    /\ arrived \in 0 .. Arrivals /\ faults \in 0 .. Faults
    /\ pc \in [Logger -> {"unused", "loop", "got", "record", "payload", "done"}]
    /\ logging \in [Logger -> BOOLEAN]
    /\ file \in [Logger -> {"none", "open", "closed"}]
    /\ queue \in [Logger -> Seq(Chunk)] /\ accepted \in [Logger -> Seq(Chunk)]
    /\ kind \in [Logger -> {"pcap", "bin", None}]
    /\ hand \in [Logger -> Chunk \cup {None}]
    /\ disk \in [Logger -> Seq([chunk : Chunk, whole : BOOLEAN])]
    /\ late \in [Logger -> BOOLEAN] /\ lost \in [Logger -> BOOLEAN]

\* Unless the disk refused a write, the file holds the first chunks that were handed to the
\* logger, in their order, none twice and none left out (write, _write_loop).
FileIsPrefix ==
    \A l \in Logger : ~lost[l] =>
        /\ Len(disk[l]) <= Len(accepted[l])
        /\ \A i \in 1 .. Len(disk[l]) : disk[l][i].chunk = accepted[l][i]

\* A packet header without its payload is the last thing in the file, and once the logger
\* has been stopped it is there only if join() gave up (stop_logging, _write_pcap_packet).
RecordsWhole ==
    \A l \in Logger : ~lost[l] =>
        \A i \in 1 .. Len(disk[l]) :
            disk[l][i].whole \/ (i = Len(disk[l]) /\ (pc[l] = "payload" \/ late[l]))

\* A stop that was not cut short by the timeout leaves every chunk in the file, also what
\* was still queued when stop_logging was called (stop_logging, _write_loop).
StoppedIsComplete ==
    \A l \in Logger : pc[l] = "done" /\ ~lost[l] /\ ~late[l] => Len(disk[l]) = Len(accepted[l])

\* What a file holds is a true record of what its logger was given, as far as it goes, and
\* goes all the way when the stop was not cut short.
FileIsFaithful == FileIsPrefix /\ RecordsWhole /\ StoppedIsComplete

\* A logger that takes data is registered, so it can be stopped, and one that is registered
\* takes data into an open file until it is being stopped (start_logging, stop_logging).
RegisteredIsLogging ==
    /\ \A l \in Logger : logging[l] => \E p \in Port : loggers[p] = l
    /\ Serving => \A p \in Port : loggers[p] # None =>
                     /\ logging[loggers[p]] /\ file[loggers[p]] = "open"
                     /\ pc[loggers[p]] \notin {"unused", "done"}

\* The writer of a logger that was stopped ends, unless it hangs in a write.
WriterEnds ==
    \A l \in Logger :
        (pc[l] # "unused" /\ \A p \in Port : loggers[p] # l)
            ~> (pc[l] = "done" \/ [](pc[l] \in {"record", "payload"}))
=============================================================================
