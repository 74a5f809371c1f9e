---------------------------- MODULE MacroSession ----------------------------
(***************************************************************************)
(* A macro run from the window: MacroRunner driven by the buttons of the   *)
(* macro panel (view/widgets/macro_control.py, presenter/macro_presenter)  *)
(* and by MainPresenter, which sends the commands the thread asks for and  *)
(* reacts to ports that open and close. The rows of the panel have no      *)
(* expect pattern and its options always stop on errors.                   *)
(*                                                                         *)
(* MainPresenter means to enable the panel with the ports, but the call    *)
(* before it raises (ManualControlPanel has no set_enabled), so the panel  *)
(* only knows set_running_state: what offers to start is what does not     *)
(* offer to stop. Before the first run the start button is disabled, and   *)
(* the request comes from a caller of on_repeat_start, as in the tests.    *)
(***************************************************************************)
EXTENDS MacroRunner

CONSTANTS
    Port,          \* port names; each has a tab
    Malformed,     \* rows CommandProcessor refuses (ValueError)
    MaxEvents      \* bound: port, tab and check box events

ASSUME SessionAssumption == /\ Malformed \subseteq Row /\ MaxEvents \in Nat

VARIABLES
    stoppable, \* the stop and pause buttons are enabled, the start button is not
    checked,   \* the broadcast check box
    open,      \* ports whose connection runs
    closing,   \* ports whose closed event the GUI thread has still to take
    tab,       \* the current port tab
    after,     \* what the handler that called stop() does next
    closed,    \* the window was closed
    events     \* bounded count

panel == <<stoppable, checked>>
ports == <<open, closing, tab>>
session == <<panel, ports, after, closed, events>>
sessionVars == <<vars, session>>

SessionInit ==
    /\ Init
    /\ stoppable = FALSE /\ checked = FALSE
    /\ open = {} /\ closing = {} /\ tab \in Port
    /\ after = "none" /\ closed = FALSE
    /\ events = 0

Idle == caller = "idle" /\ ~closed

\* set_running_state
SetRunning(is) == stoppable' = is

\* _update_controls_state_for_current_tab raises before it reaches the macro panel.
UpdateControls == UNCHANGED stoppable

-----------------------------------------------------------------------------
(* The panel *)

StartClicked ==
    /\ Idle /\ ~stoppable
    /\ \E plan \in Plan : LoadMacro(plan)
    /\ UNCHANGED session

FlagsSet ==
    /\ \E o \in Option : o.broadcast = checked /\ StartFlags(o)
    /\ UNCHANGED session

\* start() starts the thread; then on_repeat_start sets the panel.
Started ==
    /\ Launch
    /\ SetRunning(TRUE)
    /\ UNCHANGED <<checked, ports, after, closed, events>>

StopClicked ==
    /\ Idle /\ stoppable
    /\ StopCalled
    /\ UNCHANGED session

FlagsCleared == StopInternal /\ UNCHANGED session

\* stop() returns: macro_finished is handled at once, then the handler
\* that called it goes on.
PanelAfterStop == SetRunning(FALSE)

Stopped ==
    /\ StopReturn
    /\ PanelAfterStop
    /\ closed' = (after = "quit")
    /\ after' = "none"
    /\ UNCHANGED <<checked, ports, events>>

PauseClicked ==
    /\ Idle /\ stoppable
    /\ IF paused THEN Resume ELSE Pause
    /\ UNCHANGED session

BroadcastToggled ==
    /\ Idle /\ events < MaxEvents
    /\ checked' = ~checked
    /\ UpdateControls
    /\ events' = events + 1
    /\ UNCHANGED <<vars, ports, after, closed>>

-----------------------------------------------------------------------------
(* Signals of the thread *)

\* on_macro_finished and on_error of MacroPresenter.
FinishedIgnored == UNCHANGED stoppable                     \* mutant: panel left running
PanelOnFinished == SetRunning(FALSE)

TakeFinished ==
    /\ Idle /\ signals # <<>> /\ Head(signals)[1] \in {"finished", "error"}
    /\ Deliver
    /\ PanelOnFinished
    /\ UNCHANGED <<checked, ports, after, closed, events>>

\* on_macro_send_requested: the command is handed over, or the macro is stopped. In a
\* broadcast the worker's attribute hides the method of its name: has_active_broadcast_ports
\* raises as soon as one worker runs, the command is lost, and the macro goes on.
RefusedRowOnly(row, broadcast) == row \in Malformed        \* mutant: port not looked at
Refused(row, broadcast) ==
    row \in Malformed \/ IF broadcast THEN open = {} ELSE tab \notin open

TakeSend ==
    /\ Idle /\ signals # <<>> /\ Head(signals)[1] = "send"
    /\ signals' = Tail(signals)
    /\ caller' = IF Refused(Head(signals)[2], Head(signals)[3]) THEN "stopping" ELSE caller
    /\ UNCHANGED <<shared, thread, bounds, history, panel, ports, after, closed, events>>

-----------------------------------------------------------------------------
(* Ports and the window *)

PortOpened(p) ==
    /\ Idle /\ p \notin open \cup closing /\ events < MaxEvents
    /\ open' = open \cup {p}
    /\ UpdateControls
    /\ events' = events + 1
    /\ UNCHANGED <<vars, checked, closing, tab, after, closed>>

\* A connection ends, whatever the GUI thread does; its event waits.
PortEnds(p) ==
    /\ p \in open
    /\ open' = open \ {p} /\ closing' = closing \cup {p}
    /\ UNCHANGED <<vars, panel, tab, after, closed, events>>

\* on_port_closed: stop the macro if it has lost its port; again a broadcast raises while a
\* worker runs.
LosesPort(p) == IF opt.broadcast THEN open = {} ELSE tab = p

PortClosed(p) ==
    /\ Idle /\ p \in closing
    /\ closing' = closing \ {p}
    /\ IF IsRunning /\ LosesPort(p)
         THEN StopCalled
         ELSE UNCHANGED vars
    /\ UpdateControls
    /\ UNCHANGED <<open, checked, tab, after, closed, events>>

TabChanged(t) ==
    /\ Idle /\ t # tab /\ events < MaxEvents
    /\ tab' = t
    /\ UpdateControls
    /\ events' = events + 1
    /\ UNCHANGED <<vars, checked, open, closing, after, closed>>

\* on_close_requested
StopsOnClose == IsRunning

CloseWindow ==
    /\ Idle
    /\ IF StopsOnClose THEN StopCalled /\ after' = "quit" /\ UNCHANGED closed
                       ELSE closed' = TRUE /\ UNCHANGED <<vars, after>>
    /\ UNCHANGED <<panel, ports, events>>

SessionNext ==
    \/ StartClicked \/ FlagsSet \/ Started \/ StopClicked \/ FlagsCleared \/ Stopped
    \/ PauseClicked \/ BroadcastToggled \/ TakeFinished \/ TakeSend \/ CloseWindow
    \/ \E p \in Port : PortOpened(p) \/ PortEnds(p) \/ PortClosed(p) \/ TabChanged(p)
    \/ (Run /\ UNCHANGED session)

SessionSpec == SessionInit /\ [][SessionNext]_sessionVars

\* The thread runs; the GUI thread finishes the calls it began and takes its events.
SessionFairSpec ==
    /\ SessionSpec
    /\ WF_sessionVars(Run /\ UNCHANGED session)
    /\ WF_sessionVars(FlagsSet) /\ WF_sessionVars(Started)
    /\ WF_sessionVars(FlagsCleared) /\ WF_sessionVars(Stopped)
    /\ SF_sessionVars(TakeFinished) /\ SF_sessionVars(TakeSend)
    /\ \A p \in Port : SF_sessionVars(PortClosed(p))

-----------------------------------------------------------------------------
(* Properties *)

\* Nothing of a macro is going on any more.
Quiet == Idle /\ signals = <<>> /\ ~IsRunning /\ ~running

\* When nothing goes on any more the panel does not offer to stop or pause a macro, in
\* whatever order the thread's end, stop() and the queued signals came (on_macro_finished,
\* stop, set_running_state), and when the window is closed the thread has ended
\* (on_close_requested).
QuietPanel == (Quiet => ~stoppable) /\ (closed => ~IsRunning)

\* A thread that asks for commands in vain is stopped: with no port left and no command
\* accepted it ends, unless it is paused (on_macro_send_requested, on_port_closed).
StarvedMacroEnds ==
    (IsRunning /\ open = {}) ~> (~IsRunning \/ paused \/ open # {} \/ closed)

=============================================================================
