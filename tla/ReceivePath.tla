---------------------------- MODULE ReceivePath ----------------------------
(***************************************************************************)
(* What becomes of received and sent data on the GUI thread: the handler   *)
(* of the connection publishes it, counts and buffers it                   *)
(* (presenter/data_handler.py), timers hand it to the log of the tab that  *)
(* shows the port (view/widgets/data_log.py) and to the status bar, its    *)
(* packets go to the inspector (presenter/packet_presenter.py). What other *)
(* events do is no part of it: they are here for the order of dispatch.    *)
(*                                                                         *)
(* A chunk is one byte, known by the number of its arrival; a packet is    *)
(* the chunk, as the parser of every connection is a RawParser.            *)
(***************************************************************************)
EXTENDS EventBus, PacketParsing

CONSTANTS
    Tab,         \* number of port tabs
    Port,        \* port names
    Shown,       \* bound: the port each tab shows at first
    BufferSize,  \* bound: sizes of the packet buffer
    MaxInputs    \* bound: data, events and actions of the user

ASSUME ReceiveAssumption ==
    Tab \in Nat \ {0} /\ Shown \in [1..Tab -> Port] /\ BufferSize \subseteq Nat \ {0} /\ MaxInputs \in Nat

Tabs == 1..Tab

VARIABLES
    port_of,    \* the port each tab shows, tabs in their order
    rx_buffer,  \* _rx_buffer
    rx_count, tx_count, \* rx_byte_count and tx_byte_count
    refreshing, \* _ui_refresh_timer runs, until stop()
    paused,     \* is_paused of each data log
    ui_buffer,  \* ui_update_buffer of each data log
    original,   \* _original_data of each data log
    rows,       \* the rows of each data log
    macro,      \* the macro thread runs
    capturing,  \* _is_capturing
    packets,    \* the rows of the packet model
    packet_max, \* its _buffer_size
    inputs,     \* bounded count
    received, handed, \* history: chunks received from each port, and given to the view
    counted,    \* history: bytes received and sent, and those shown in the status bar
    captured    \* history: packets captured since the last clear

handlerVars == <<rx_buffer, rx_count, tx_count, refreshing>>
tabVars == <<port_of, paused, ui_buffer, original, rows>>
packetVars == <<capturing, packets, packet_max, captured>>
historyVars == <<received, handed, counted>>
vars == <<busVars, handlerVars, tabVars, packetVars, historyVars, macro, inputs>>

\* The inspector begins with what the settings hold (_apply_initial_settings).
PacketInit == capturing \in BOOLEAN /\ packets = <<>> /\ packet_max \in BufferSize /\ captured = <<>>

Init ==
    /\ BusInit
    /\ port_of = Shown
    /\ rx_buffer = [p \in Port |-> <<>>] /\ rx_count = 0 /\ tx_count = 0 /\ refreshing = TRUE
    /\ paused = [t \in Tabs |-> FALSE]
    /\ ui_buffer = [t \in Tabs |-> <<>>] /\ original = [t \in Tabs |-> <<>>]
    /\ rows = [t \in Tabs |-> <<>>]
    /\ macro = FALSE
    /\ PacketInit
    /\ inputs = 0
    /\ received = [p \in Port |-> <<>>] /\ handed = [p \in Port |-> <<>>]
    /\ counted = [rx |-> 0, tx |-> 0, shown_rx |-> 0, shown_tx |-> 0]

\* The GUI thread starts a handler for an input of the bounded number.
Input == Idle /\ inputs < MaxInputs /\ inputs' = inputs + 1

-----------------------------------------------------------------------------
(* From the connection *)

\* _handle_data_received of the controller: publish the data, the fast path of the handler, publish
\* the packets. No subscriber reads what the fast path writes, so it is done at once.
OnFastDataReplaces(p, chunk) ==                              \* mutant: the buffer is set, not extended
    /\ rx_count' = rx_count + 1
    /\ rx_buffer' = [rx_buffer EXCEPT ![p] = <<chunk>>]
    /\ UNCHANGED <<tx_count, refreshing>>
OnFastDataReceived(p, chunk) ==
    /\ rx_count' = rx_count + 1
    /\ rx_buffer' = [rx_buffer EXCEPT ![p] = Append(@, chunk)]
    /\ UNCHANGED <<tx_count, refreshing>>

HandleDataReceived(p) ==
    /\ Input
    /\ LET chunk == counted.rx + 1
           whole == Parse([type |-> "Raw"], <<>>, <<chunk>>).packets
       IN /\ PublishHere(<<[topic |-> "port.data_received"]>>
                         \o [k \in 1..Len(whole) |-> [topic |-> "port.packet_received",
                                                      packet |-> whole[k]]])
          /\ OnFastDataReceived(p, chunk)
          /\ received' = [received EXCEPT ![p] = Append(@, chunk)]
    /\ counted' = [counted EXCEPT !.rx = @ + 1]
    /\ UNCHANGED <<pending, seen, tabVars, packetVars, handed, macro>>

\* The transport has taken data: published, then counted by on_data_sent.
DataSent ==
    /\ Input
    /\ PublishHere(<<[topic |-> "port.data_sent"]>>)
    /\ counted' = [counted EXCEPT !.tx = @ + 1]
    /\ UNCHANGED <<pending, seen, handlerVars, tabVars, packetVars, received, handed, macro>>

PortClosed ==
    /\ Input
    /\ PublishHere(<<[topic |-> "port.closed"]>>)
    /\ UNCHANGED <<pending, seen, handlerVars, tabVars, packetVars, historyVars, macro>>

\* start() of the runner, from the macro panel.
StartMacro ==
    /\ Input /\ ~macro /\ macro' = TRUE
    /\ PublishHere(<<[topic |-> "macro.started"]>>)
    /\ UNCHANGED <<pending, seen, handlerVars, tabVars, packetVars, historyVars>>

\* The macro thread or a file transfer reports an error, at any moment.
ThreadPublishes ==
    /\ inputs < MaxInputs /\ inputs' = inputs + 1
    /\ \E topic \in (IF macro THEN {"macro.error"} ELSE {}) \cup {"file.error"} :
          PublishThere([topic |-> topic])
    /\ UNCHANGED <<frames, seen, events, handlerVars, tabVars, packetVars, historyVars, macro>>

-----------------------------------------------------------------------------
(* The subscribers: MacroRunner, and the slots behind the router *)

\* append_packet of the model: at the limit the oldest one goes first.
KeptFirst(s, n) == SubSeq(s, 1, Min({n, Len(s)}))            \* mutant: a smaller buffer drops the newest
Kept(s, n) == SubSeq(s, Max({1, Len(s) - n + 1}), Len(s))
AppendPacket(packet) == Append(IF Len(packets) >= packet_max THEN Tail(packets) ELSE packets, packet)

OnPacketReceived(packet) ==
    /\ packets' = (IF capturing THEN AppendPacket(packet) ELSE packets)
    /\ captured' = (IF capturing THEN Append(captured, packet) ELSE captured)
    /\ UNCHANGED <<capturing, packet_max>>

\* on_port_closed: when the macro sent to this port, stop() waits for its thread and publishes
\* its end from within; which ports that is, MacroSession models.
Called(callback, e) ==
    CASE callback = "router" /\ e.topic = "port.packet_received" ->
             /\ CallNext(<<>>, FALSE)
             /\ OnPacketReceived(e.packet)
             /\ UNCHANGED <<handlerVars, historyVars, macro>>
      [] callback = "router" /\ e.topic = "port.data_sent" ->
             /\ CallNext(<<>>, FALSE)
             /\ tx_count' = tx_count + 1
             /\ UNCHANGED <<rx_buffer, rx_count, refreshing, packetVars, historyVars, macro>>
      [] callback = "router" /\ e.topic = "port.closed" ->
             /\ \E stops \in {FALSE, macro} :
                   /\ CallNext(IF stops THEN <<[topic |-> "macro.finished"]>> ELSE <<>>, FALSE)
                   /\ macro' = (macro /\ ~stops)
             /\ UNCHANGED <<handlerVars, packetVars, historyVars>>
      [] OTHER ->
             /\ \E raises \in BOOLEAN : CallNext(<<>>, raises)
             /\ UNCHANGED <<handlerVars, packetVars, historyVars, macro>>

CallSubscriber ==
    /\ frames # <<>> /\ Head(frames).left # <<>>
    /\ Called(Head(Head(frames).left), Head(frames).event)
    /\ UNCHANGED <<pending, tabVars, inputs>>

\* The event loop serves what other threads published; a dispatch is over.
ServeBus == /\ DispatchEvent \/ DispatchEnds
            /\ UNCHANGED <<handlerVars, tabVars, packetVars, historyVars, macro, inputs>>

-----------------------------------------------------------------------------
(* Timers *)

\* append_data of a data log
AppendData(t, data) == IF paused[t] THEN ui_buffer[t] ELSE ui_buffer[t] \o data

\* append_rx_data of the tab panel: the first tab that shows the port, or none.
FirstShowing(t) == \A u \in 1..(t-1) : port_of[u] # port_of[t]
Handed == [t \in Tabs |-> IF FirstShowing(t) THEN rx_buffer[port_of[t]] ELSE <<>>]

PendingShown == {p \in Port : rx_buffer[p] # <<>> /\ \E t \in Tabs : port_of[t] = p}  \* mutant: waits for a tab
PendingPorts == {p \in Port : rx_buffer[p] # <<>>}

\* _flush_rx_buffer_to_ui
FlushRxBuffer ==
    /\ Idle /\ refreshing /\ PendingPorts # {}
    /\ ui_buffer' = [t \in Tabs |-> AppendData(t, Handed[t])]
    /\ handed' = [p \in Port |-> IF p \in PendingPorts THEN handed[p] \o rx_buffer[p] ELSE handed[p]]
    /\ rx_buffer' = [p \in Port |-> IF p \in PendingPorts THEN <<>> ELSE rx_buffer[p]]
    /\ UNCHANGED <<busVars, rx_count, tx_count, refreshing, port_of, paused, original, rows,
                   packetVars, received, counted, macro, inputs>>

\* append_bytes reads self._color_manager, which no code sets, and raises; the list has kept the
\* bytes for a change of the mode by then.
ColorManagerSet == FALSE

\* flush_buffer of a data log: the buffer is copied and emptied, then appended piece by piece.
FlushBuffer(t) ==
    /\ Idle /\ ui_buffer[t] # <<>>
    /\ ui_buffer' = [ui_buffer EXCEPT ![t] = <<>>]
    /\ original' = [original EXCEPT ![t] = @ \o (IF ColorManagerSet THEN ui_buffer[t]
                                                 ELSE <<Head(ui_buffer[t])>>)]
    /\ rows' = [rows EXCEPT ![t] = IF ColorManagerSet THEN @ \o ui_buffer[t] ELSE @]
    /\ UNCHANGED <<busVars, handlerVars, port_of, paused, packetVars, historyVars, macro, inputs>>

\* update_status_bar: show the counts, then reset them.
CountsShown == [counted EXCEPT !.shown_rx = @ + rx_count, !.shown_tx = @ + tx_count]

UpdateStatusBar ==
    /\ Idle /\ rx_count + tx_count > 0
    /\ counted' = CountsShown
    /\ rx_count' = 0 /\ tx_count' = 0
    /\ UNCHANGED <<busVars, rx_buffer, refreshing, tabVars, packetVars, received, handed,
                   macro, inputs>>

-----------------------------------------------------------------------------
(* The user *)

SelectPort(t, p) ==
    /\ Input /\ port_of[t] # p
    /\ port_of' = [port_of EXCEPT ![t] = p]
    /\ UNCHANGED <<busVars, handlerVars, paused, ui_buffer, original, rows, packetVars,
                   historyVars, macro>>

TogglePause(t) ==
    /\ Input /\ paused' = [paused EXCEPT ![t] = ~@]
    /\ UNCHANGED <<busVars, handlerVars, port_of, ui_buffer, original, rows, packetVars,
                   historyVars, macro>>

\* The local echo of a command, in the log of the current tab; it is no received data.
LocalEcho(t) ==
    /\ Input /\ ui_buffer' = [ui_buffer EXCEPT ![t] = AppendData(t, <<0>>)]
    /\ UNCHANGED <<busVars, handlerVars, port_of, paused, original, rows, packetVars,
                   historyVars, macro>>

ClearDataLog(t) ==
    /\ Input
    /\ ui_buffer' = [ui_buffer EXCEPT ![t] = <<>>]
    /\ original' = [original EXCEPT ![t] = <<>>] /\ rows' = [rows EXCEPT ![t] = <<>>]
    /\ UNCHANGED <<busVars, handlerVars, port_of, paused, packetVars, historyVars, macro>>

\* set_hex_mode_enabled and set_color_rules rebuild the rows: _refresh_all_data.
RefreshAllData(t) ==
    /\ Input /\ original[t] # <<>>
    /\ rows' = [rows EXCEPT ![t] = IF ColorManagerSet THEN original[t] ELSE <<>>]
    /\ UNCHANGED <<busVars, handlerVars, port_of, paused, ui_buffer, original, packetVars,
                   historyVars, macro>>

ToggleCapture ==
    /\ Input /\ capturing' = ~capturing
    /\ UNCHANGED <<busVars, handlerVars, tabVars, packets, packet_max, captured, historyVars, macro>>

ClearPackets ==
    /\ Input /\ packets' = <<>> /\ captured' = <<>>
    /\ UNCHANGED <<busVars, handlerVars, tabVars, capturing, packet_max, historyVars, macro>>

\* on_settings_changed of PacketPresenter; set_buffer_size makes a new deque of what fits.
PacketSettings(size, realtime) ==
    /\ Input
    /\ packets' = Kept(packets, size) /\ packet_max' = size /\ capturing' = realtime
    /\ UNCHANGED <<busVars, handlerVars, tabVars, captured, historyVars, macro>>

\* The window is closed: stop() of the handler, with the buffer as it is.
StopHandler ==
    /\ Input /\ refreshing /\ refreshing' = FALSE
    /\ UNCHANGED <<busVars, rx_buffer, rx_count, tx_count, tabVars, packetVars, historyVars, macro>>

User == \/ \E t \in Tabs : \/ \E p \in Port : SelectPort(t, p)
                           \/ TogglePause(t) \/ LocalEcho(t) \/ ClearDataLog(t) \/ RefreshAllData(t)
        \/ ToggleCapture \/ ClearPackets \/ StopHandler
        \/ \E size \in BufferSize, realtime \in BOOLEAN : PacketSettings(size, realtime)

Next == \/ \E p \in Port : HandleDataReceived(p)
        \/ FlushRxBuffer
        \/ DataSent \/ PortClosed \/ StartMacro \/ ThreadPublishes
        \/ CallSubscriber \/ ServeBus
        \/ \E t \in Tabs : FlushBuffer(t)
        \/ UpdateStatusBar \/ User

Spec == Init /\ [][Next]_vars

\* The event loop goes on: handlers return, and the timers fire.
FairSpec == /\ Spec /\ WF_vars(CallSubscriber) /\ WF_vars(ServeBus)
            /\ SF_vars(FlushRxBuffer)

-----------------------------------------------------------------------------
(* Properties *)

\* Every chunk received from a port is in the buffer of the handler or was given to the view, in
\* order and once, and every byte is in the counters or was shown in the status bar, whatever
\* timers, tabs and events came in between (DataTrafficHandler, update_status_bar).
Conserved ==
    /\ \A p \in Port : received[p] = handed[p] \o rx_buffer[p]
    /\ counted.rx = counted.shown_rx + rx_count
    /\ Idle => counted.tx = counted.shown_tx + tx_count

\* The inspector shows the newest of the packets captured since it was cleared, in order and no
\* more than its buffer holds, whenever capture and size change (PacketModel).
PacketsAreRecent == IsSuffix(packets, captured) /\ Len(packets) <= packet_max

\* What a port sends is not kept from the view for ever, unless the handler was stopped.
HandedOn == \A p \in Port : rx_buffer[p] # <<>> ~> (rx_buffer[p] = <<>> \/ ~refreshing)

\* What is buffered by a parser, a matcher or the ring comes out again, in order and once, whatever
\* the pieces it came in (packet_parser.py, RingBuffer); asked once, at the start.
BuffersKeepBytes == inputs = 0 => PiecesKeepBytes

\* What a data log was given is shown: the rows hold every piece the list has kept.
FlushedIsShown == \A t \in Tabs : rows[t] = original[t]
=============================================================================
