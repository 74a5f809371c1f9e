---------------------------- MODULE ManualControl ----------------------------
(***************************************************************************)
(* The panel that sends single commands: view/widgets/manual_control.py    *)
(* with its history, and presenter/manual_control_presenter.py, with what  *)
(* becomes of a command in connection_controller.py and in the worker of   *)
(* the port (Link).  The box "broadcast" stands for the boxes that are     *)
(* saved as they are too; the local echo has a box in the panel and a flag *)
(* in the presenter, which decides.                                        *)
(***************************************************************************)
EXTENDS Naturals, Sequences, SequencesExt

CONSTANTS
    Command,        \* what the user types
    MaxHistory      \* MAX_COMMAND_HISTORY_SIZE

ASSUME HistoryAssumption == MaxHistory \in Nat \ {0}

VARIABLES
    panel,          \* the widget: text, broadcast box, echo box
    flag,           \* local_echo_enabled of the presenter
    history,        \* command_history, the oldest first
    index,          \* history_index, counted from 1; 0 when no entry is shown
    sent,           \* every command given to the panel to send
    said            \* what became of the last one: queued by the worker, counted as sent, echoed

manualVars == <<panel, flag, history, index, sent, said>>

NoText == ""
Off == [text |-> NoText, broadcast |-> FALSE, echo |-> FALSE]
ManualState == [text : Command \cup {NoText}, broadcast : BOOLEAN, echo : BOOLEAN]
Unsaid == [queued |-> FALSE, counted |-> FALSE, echoed |-> FALSE]

\* add_to_history
\* mutant: a command that is in the list already is added again
AddedTwice(h, c) == IF Len(h) = MaxHistory THEN Append(Tail(h), c) ELSE Append(h, c)
Added(h, c) ==
    LET moved == Append(RemoveFirst(h, c), c)
    IN  IF Len(moved) > MaxHistory THEN Tail(moved) ELSE moved

Type(c) ==
    /\ panel.text # c
    /\ panel' = [panel EXCEPT !.text = c]
    /\ UNCHANGED <<flag, history, index, sent, said>>

ToggleBox(b) ==
    /\ panel' = [panel EXCEPT ![b] = ~@]
    /\ UNCHANGED <<flag, history, index, sent, said>>

\* the worker of the port shown: not running, running before its transport is open, or open
Link == {"closed", "opening", "open"}
IsConnectionOpen(link) == link # "closed"

\* worker.send_data takes bytes only when the transport is open; data_sent is emitted whatever it answers
WorkerTakes(link) == link = "open"
SendDataToConnection(link) == [queued |-> WorkerTakes(link), counted |-> IsConnectionOpen(link)]
SendData(link) == IF IsConnectionOpen(link) THEN SendDataToConnection(link) ELSE [queued |-> FALSE, counted |-> FALSE]

\* has_active_broadcast_ports is FALSE when no worker runs, and raises at the first that does:
\* the worker's attribute broadcast_enabled hides its method; nothing is sent either way
BroadcastSent(link) == FALSE

\* on_send_requested after process_command, which raises for a text that is no hexadecimal in hex mode
Outcome(valid, link) ==
    LET tried == valid /\ IF panel.broadcast THEN BroadcastSent(link) ELSE IsConnectionOpen(link)
    IN  IF ~tried THEN Unsaid
        ELSE [queued |-> SendData(link).queued, counted |-> SendData(link).counted, echoed |-> flag]

\* the send button or Ctrl+Enter: the command joins the history whatever the presenter does with it
Send(valid, link) ==
    /\ panel.text # NoText
    /\ history' = Added(history, panel.text) /\ index' = 0
    /\ sent' = Append(sent, panel.text)
    /\ said' = Outcome(valid, link)
    /\ UNCHANGED <<panel, flag>>

\* on_history_up_clicked
HistoryUp ==
    /\ history # <<>>
    /\ index' = IF index = 0 THEN Len(history) ELSE IF index > 1 THEN index - 1 ELSE index
    /\ panel' = [panel EXCEPT !.text = history[index']]
    /\ UNCHANGED <<flag, history, sent, said>>

\* on_history_down_clicked: past the newest entry the text is cleared
HistoryDown ==
    /\ history # <<>> /\ index # 0
    /\ index' = IF index < Len(history) THEN index + 1 ELSE 0
    /\ panel' = [panel EXCEPT !.text = IF index' = 0 THEN NoText ELSE history[index']]
    /\ UNCHANGED <<flag, history, sent, said>>

\* update_local_echo_setting
\* mutant: the flag is left for the next start
EchoBoxOnly(on) == panel' = [panel EXCEPT !.echo = on] /\ UNCHANGED flag
EchoSetting(on) == panel' = [panel EXCEPT !.echo = on] /\ flag' = on

\* a new panel shows the state of the settings; the flag comes from a setting of its own
NewPanel(state, on) ==
    /\ panel' = state /\ flag' = on
    /\ history' = <<>> /\ index' = 0 /\ sent' = <<>> /\ said' = Unsaid

\* get_state of the presenter: the flag, not the box
State == [panel EXCEPT !.echo = flag]

ManualInit == panel = Off /\ flag = FALSE /\ history = <<>> /\ index = 0 /\ sent = <<>> /\ said = Unsaid
=============================================================================
