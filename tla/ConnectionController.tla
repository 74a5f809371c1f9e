----------------------- MODULE ConnectionController -----------------------
(***************************************************************************)
(* ConnectionController (model/connection_controller.py) and the worker    *)
(* threads it starts. The controller runs in the GUI thread; signals of a  *)
(* worker reach it through the GUI event queue, in order, and              *)
(* stop() blocks the GUI thread until the worker has ended. The thread's   *)
(* loop is abstracted as ConnectionWorker models it.                       *)
(*                                                                         *)
(* workers, parsers and connection_configs are assigned and deleted        *)
(* together and are one variable here. Left out: sending, which changes    *)
(* nothing here (ConnectionWorker has the queue, FileTransfer what a       *)
(* sender makes of it), and broadcasting, which raises before it sends:    *)
(* an attribute of the worker hides the method broadcast_enabled.          *)
(***************************************************************************)
EXTENDS Integers, Sequences

CONSTANTS
    Port,      \* connection names
    Worker,    \* bound: the worker objects open_connection may create
    None,
    MaxData    \* bound: data_received signals

ASSUME NoneAssumption == None \notin Port \cup Worker
ASSUME BoundAssumption == MaxData \in Nat

VARIABLES
    workers,    \* name -> worker object, or None
    port,       \* worker object -> its connection_name, None before its creation
    phase,      \* where each thread is in run()
    flag,       \* _is_running of each worker
    dev,        \* transport.is_open() of each worker
    signals,    \* lifecycle signals each worker emitted, oldest first
    events,     \* signals in the GUI event queue: <<kind, worker>>
    waiting,    \* the worker whose end the GUI thread waits for, or None
    todo,       \* names close_connection(None) still has to close
    closingAll, \* inside close_connection(None)
    received,   \* data_received signals emitted
    evicted     \* history: workers removed by the closed signal of another

threadVars == <<phase, flag, dev, signals>>
guiVars == <<waiting, todo, closingAll>>
vars == <<workers, port, threadVars, events, guiVars, received, evicted>>

Phases == {"unused", "opening", "opened", "loop", "closing", "ending", "finished"}

Init == /\ workers = [p \in Port |-> None]
        /\ port = [w \in Worker |-> None]
        /\ phase = [w \in Worker |-> "unused"]
        /\ flag = [w \in Worker |-> FALSE]
        /\ dev = [w \in Worker |-> FALSE]
        /\ signals = [w \in Worker |-> <<>>]
        /\ events = <<>>
        /\ waiting = None /\ todo = {} /\ closingAll = FALSE
        /\ received = 0
        /\ evicted = {}

\* QThread.isRunning()
Running(w) == phase[w] \notin {"unused", "finished"}

\* Running, and its last signal not yet emitted.
AtWork(w) == phase[w] \in {"opening", "opened", "loop", "closing"}

Registered(p) == workers[p] # None

IsConnectionOpen(p) == Registered(p) /\ Running(workers[p])

HasActiveConnection == \E p \in Port : Registered(p)

GuiIdle == waiting = None /\ todo = {} /\ ~closingAll

-----------------------------------------------------------------------------
(* The GUI thread: opening and closing *)

\* open_connection: refused only while the registered worker runs; a dead entry is
\* replaced.
MayOpenAlways(p) == TRUE                                   \* mutant: no duplicate check
MayOpen(p) == ~IsConnectionOpen(p)

OpenConnection(p) ==
    /\ GuiIdle /\ MayOpen(p)
    /\ \E w \in Worker :
          /\ phase[w] = "unused"
          /\ port' = [port EXCEPT ![w] = p]
          /\ phase' = [phase EXCEPT ![w] = "opening"]
          /\ workers' = [workers EXCEPT ![p] = w]
    /\ UNCHANGED <<flag, dev, signals, events, guiVars, received, evicted>>

\* worker.stop(): clear the flag, wait only for a thread that runs.
StopNoWait(w) == /\ flag' = [flag EXCEPT ![w] = FALSE]     \* mutant: no wait()
                 /\ waiting' = None
Stop(w) == /\ flag' = [flag EXCEPT ![w] = FALSE]
           /\ waiting' = IF Running(w) THEN w ELSE None

CloseConnection(p) ==
    /\ GuiIdle /\ Registered(p)
    /\ Stop(workers[p])
    /\ UNCHANGED <<workers, port, phase, dev, signals, events, todo, closingAll,
                   received, evicted>>

\* close_connection(None): a snapshot of the names, closed one after the other.
CloseAll ==
    /\ GuiIdle /\ HasActiveConnection
    /\ closingAll' = TRUE
    /\ todo' = {p \in Port : Registered(p)}
    /\ UNCHANGED <<workers, port, threadVars, events, waiting, received, evicted>>

CloseNext(p) ==
    /\ closingAll /\ waiting = None /\ p \in todo
    /\ todo' = todo \ {p}
    /\ Stop(workers[p])
    /\ UNCHANGED <<workers, port, phase, dev, signals, events, closingAll,
                   received, evicted>>

CloseAllReturns ==
    /\ closingAll /\ waiting = None /\ todo = {}
    /\ closingAll' = FALSE
    /\ UNCHANGED <<workers, port, threadVars, events, waiting, todo, received, evicted>>

WaitReturns ==
    /\ waiting # None /\ ~Running(waiting)
    /\ waiting' = None
    /\ UNCHANGED <<workers, port, threadVars, events, todo, closingAll, received, evicted>>

-----------------------------------------------------------------------------
(* The GUI thread: signals of the workers *)

\* connection_opened and error_occurred are only passed on.
PassOn ==
    /\ GuiIdle /\ events # <<>> /\ events[1][1] \in {"opened", "error"}
    /\ events' = Tail(events)
    /\ UNCHANGED <<workers, port, threadVars, guiVars, received, evicted>>

OnWorkerClosedKeeps ==                                     \* mutant: entries not deleted
    /\ GuiIdle /\ events # <<>> /\ events[1][1] = "closed"
    /\ events' = Tail(events)
    /\ UNCHANGED <<workers, port, threadVars, guiVars, received, evicted>>

\* on_worker_closed receives a name: whatever is registered under it is removed.
OnWorkerClosed ==
    /\ GuiIdle /\ events # <<>> /\ events[1][1] = "closed"
    /\ LET w == events[1][2]
           p == port[w] IN
       /\ workers' = [workers EXCEPT ![p] = None]
       /\ evicted' = IF workers[p] \in {w, None} THEN evicted ELSE evicted \cup {workers[p]}
    /\ events' = Tail(events)
    /\ UNCHANGED <<port, threadVars, guiVars, received>>

\* _handle_data_received: passed on, and to the parser registered under the name, if any.
HandleDataReceived ==
    /\ GuiIdle /\ events # <<>> /\ events[1][1] = "data"
    /\ events' = Tail(events)
    /\ UNCHANGED <<workers, port, threadVars, guiVars, received, evicted>>

-----------------------------------------------------------------------------
(* The worker threads *)

Emit(w, s) == /\ signals' = [signals EXCEPT ![w] = Append(@, s)]
              /\ events' = Append(events, <<s, w>>)

ThreadFrame == <<workers, port, guiVars, evicted>>

OpenOk(w) ==
    /\ phase[w] = "opening"
    /\ phase' = [phase EXCEPT ![w] = "opened"]
    /\ dev' = [dev EXCEPT ![w] = TRUE]
    /\ UNCHANGED <<ThreadFrame, flag, signals, events, received>>

OpenFails(w) ==
    /\ phase[w] = "opening"
    /\ phase' = [phase EXCEPT ![w] = "ending"]
    /\ Emit(w, "error")
    /\ UNCHANGED <<ThreadFrame, flag, dev, received>>

EnterLoop(w) ==
    /\ phase[w] = "opened"
    /\ phase' = [phase EXCEPT ![w] = "loop"]
    /\ flag' = [flag EXCEPT ![w] = TRUE]
    /\ Emit(w, "opened")
    /\ UNCHANGED <<ThreadFrame, dev, received>>

Receive(w) ==
    /\ phase[w] = "loop" /\ received < MaxData
    /\ received' = received + 1
    /\ events' = Append(events, <<"data", w>>)
    /\ UNCHANGED <<ThreadFrame, threadVars>>

IoErrorLoops(w) ==                                         \* mutant: no break
    /\ phase[w] = "loop" /\ Len(signals[w]) < 3
    /\ Emit(w, "error")
    /\ UNCHANGED <<ThreadFrame, phase, flag, dev, received>>
IoError(w) ==
    /\ phase[w] = "loop"
    /\ phase' = [phase EXCEPT ![w] = "closing"]
    /\ Emit(w, "error")
    /\ UNCHANGED <<ThreadFrame, flag, dev, received>>

LeaveLoop(w) ==
    /\ phase[w] = "loop" /\ ~flag[w]
    /\ phase' = [phase EXCEPT ![w] = "closing"]
    /\ UNCHANGED <<ThreadFrame, flag, dev, signals, events, received>>

CloseOk(w) ==
    /\ phase[w] = "closing"
    /\ phase' = [phase EXCEPT ![w] = "ending"]
    /\ dev' = [dev EXCEPT ![w] = FALSE]
    /\ Emit(w, "closed")
    /\ UNCHANGED <<ThreadFrame, flag, received>>

CloseRaises(w) ==
    /\ phase[w] = "closing"
    /\ phase' = [phase EXCEPT ![w] = "ending"]
    /\ Emit(w, "error")
    /\ UNCHANGED <<ThreadFrame, flag, dev, received>>

Finish(w) ==
    /\ phase[w] = "ending"
    /\ phase' = [phase EXCEPT ![w] = "finished"]
    /\ UNCHANGED <<ThreadFrame, flag, dev, signals, events, received>>

Thread(w) == \/ OpenOk(w) \/ OpenFails(w) \/ EnterLoop(w) \/ Receive(w) \/ IoError(w)
             \/ LeaveLoop(w) \/ CloseOk(w) \/ CloseRaises(w) \/ Finish(w)

Serve == PassOn \/ OnWorkerClosed \/ HandleDataReceived

ClosingStep == WaitReturns \/ CloseAllReturns \/ \E p \in Port : CloseNext(p)

Next == \/ Serve \/ ClosingStep
        \/ \E p \in Port : OpenConnection(p) \/ CloseConnection(p)
        \/ CloseAll
        \/ \E w \in Worker : Thread(w)

Spec == Init /\ [][Next]_vars

-----------------------------------------------------------------------------
(* Properties *)

Signal == {"opened", "closed", "error"}

TypeOK ==
    /\ workers \in [Port -> Worker \cup {None}]
    /\ port \in [Worker -> Port \cup {None}]
    /\ phase \in [Worker -> Phases]
    /\ flag \in [Worker -> BOOLEAN] /\ dev \in [Worker -> BOOLEAN]
    /\ signals \in [Worker -> Seq(Signal)]
    /\ events \in Seq((Signal \cup {"data"}) \X Worker)
    /\ waiting \in Worker \cup {None} /\ todo \subseteq Port /\ closingAll \in BOOLEAN
    /\ received \in 0..MaxData
    /\ evicted \subseteq Worker

In(x, s) == \E i \in 1..Len(s) : s[i] = x
Pending(w) == In(<<"closed", w>>, events)   \* its closed signal is in the event queue
Closed(w) == In("closed", signals[w])       \* it emitted its closed signal

\* An entry whose worker has closed its port is one whose closed signal is still in
\* the event queue: except for a failed open and a failed close, which emit no such
\* signal, no dead entry is left behind, however opens, closes and signals interleave.
DeadEntryHasCause ==
    \A p \in Port : Registered(p) =>
        (Closed(workers[p]) => Pending(workers[p]))

\* A thread that runs without being registered is past its last signal, or was
\* removed by the late closed signal of an earlier worker of its port.
RunnerIsRegistered ==
    \A w \in Worker : AtWork(w) => workers[port[w]] = w \/ w \in evicted

\* The dictionary agrees with the threads both ways: whoever is at work is in it, and
\* nobody stays in it whose end was told (open_connection, on_worker_closed).
EntriesMatchRunners == DeadEntryHasCause /\ RunnerIsRegistered

\* When close_connection(None) returns, no thread is left at work but those that a
\* late closed signal removed from the dictionary.
CloseAllStopsEveryone ==
    [][ closingAll /\ ~closingAll' =>
          \A w \in Worker : AtWork(w) => w \in evicted ]_vars

Lifecycle(w) == INSTANCE WorkerLifecycle WITH
    phase <- CASE phase[w] = "unused" -> "created"
               [] phase[w] \in {"opening", "opened"} -> "starting"
               [] phase[w] \in {"loop", "closing"} -> "open"
               [] OTHER -> "ended",
    signals <- signals[w]

\* Each thread of this module keeps the lifecycle that ConnectionWorker implements.
ThreadsKeepLifecycle ==
    /\ \A w \in Worker : Lifecycle(w)!Init
    /\ [][ \A w \in Worker : [Lifecycle(w)!Next]_(Lifecycle(w)!lvars) ]_vars

=============================================================================
