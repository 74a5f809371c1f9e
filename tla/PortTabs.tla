------------------------------ MODULE PortTabs ------------------------------
(***************************************************************************)
(* The tabs of the ports around the ConnectionController: PortPresenter    *)
(* (presenter/port_presenter.py), the tab panel with its port panels       *)
(* (view/panels, view/widgets/port_settings.py) and the scan threads       *)
(* (model/port_scanner.py). A tab knows its connection by name only: every *)
(* event of a port goes to the first tab that shows the name.              *)
(*                                                                         *)
(* A panel is the number of its creation. Scan results have an event queue *)
(* of their own here, so that they come in any order with the signals of   *)
(* connections. Left out: the error box, which blocks the user's input but *)
(* no signal; tab names; the broadcast box. The controls of manual sends   *)
(* (view/sections/main_left_section.py) are locked unless the tab in front *)
(* is connected.                                                           *)
(*                                                                         *)
(* The ConnectionController and its threads are reduced to what tabs see   *)
(* of them: the dictionary of workers, the queue of lifecycle signals, and *)
(* where a thread is in its lifecycle (see ConnectionController).          *)
(***************************************************************************)
EXTENDS Integers, SequencesExt

CONSTANTS
    Port,       \* connection names
    PortOrder,  \* every port in the order a scan sorts them
    NoPort,     \* the name an empty combo box shows
    SavedTabs,  \* what the settings may hold: the names of the saved tabs
    Results,    \* bound: what a scan may list
    MaxTabs,    \* bound: panels
    MaxWorkers, \* bound: connections opened
    MaxScans    \* bound: scan workers

ASSUME OrderAssumption == /\ PortOrder \in Seq(Port) /\ {PortOrder[i] : i \in DOMAIN PortOrder} = Port
                          /\ NoPort \notin Port /\ Results \subseteq SUBSET Port
ASSUME TabsAssumption == /\ MaxTabs \in Nat \ {0}
                         /\ \A saved \in SavedTabs : saved \in Seq(Port \cup {NoPort}) /\ Len(saved) <= MaxTabs
ASSUME BoundsAssumption == MaxWorkers \in Nat /\ MaxScans \in Nat \ {0}

VARIABLES
    tabs,               \* the panels from left to right, without the '+' tab
    current,            \* the tab in front
    current_port_panel, \* the presenter's idea of it
    made,               \* panels created
    shown,              \* panel -> the name its combo box shows
    connected,          \* panel -> state of its settings widget
    checked,            \* panel -> its connect button is down
    listed,             \* the result of the last scan
    scan_worker,        \* _scan_worker, 0 for None
    scan,               \* scan worker -> where its thread is
    found,              \* ports_found signals in the GUI event queue
    crashed,            \* a QThread was destroyed while it ran
    controls,           \* the controls of manual sends are enabled
    unsynced,           \* history: the tab in front changed without a signal
    strayed,            \* history: connected or pressed panels that lost the events of their port
    unlisted,           \* history: panels no scan result has reached
    workers,            \* ConnectionController: name -> worker, NoWorker when it has no entry
    port,               \* worker -> its name
    phase,              \* worker -> where its thread is
    flag,               \* worker -> _is_running
    events,             \* <<kind, worker>> in the GUI event queue
    waiting             \* the worker whose end the GUI thread waits for

panelVars == <<shown, connected, checked>>
controlVars == <<controls, unsynced>>
tabVars == <<tabs, current, made>>
scanVars == <<scan_worker, scan, found>>
connVars == <<workers, port, phase, flag, events, waiting>>
vars == <<connVars, tabVars, current_port_panel, panelVars, controlVars, listed, scanVars,
          crashed, strayed, unlisted>>

Panel == 1..MaxTabs
Scans == 1..MaxScans
Workers == 1..MaxWorkers
NoScan == 0
NoWorker == 0
TabSet == {tabs[i] : i \in DOMAIN tabs}

\* The lists of the widgets are filled in this order; the first item is preselected.
FirstOf(S) == PortOrder[CHOOSE i \in DOMAIN PortOrder :
                  PortOrder[i] \in S /\ \A j \in 1..(i-1) : PortOrder[j] \notin S]

\* Objects are made in order.
FirstUnused(f, S, w) == /\ w \in S /\ f[w] = "unused"
                        /\ \A v \in S : v < w => f[v] # "unused"

\* MainLeftSection.apply_state: a tab for every saved one, or one whose box is empty.
Restored(saved) == IF saved = <<>> THEN <<NoPort>> ELSE saved

\* The settings are applied before the presenter exists: it finds the restored tabs,
\* the first in front, each showing the name it was saved with, and starts a scan.
Init ==
    /\ \E saved \in SavedTabs : LET names == Restored(saved) IN
          /\ tabs = [i \in DOMAIN names |-> i] /\ made = Len(names)
          /\ shown = [t \in Panel |-> IF t \in DOMAIN names THEN names[t] ELSE NoPort]
          /\ unlisted = DOMAIN names
    /\ current = 1 /\ current_port_panel = 1
    /\ controls = FALSE /\ unsynced = FALSE
    /\ connected = [t \in Panel |-> FALSE] /\ checked = [t \in Panel |-> FALSE]
    /\ listed = {}
    /\ scan_worker = 1 /\ scan = [s \in Scans |-> IF s = 1 THEN "listing" ELSE "unused"]
    /\ found = <<>> /\ crashed = FALSE
    /\ strayed = {}
    /\ workers = [p \in Port |-> NoWorker]
    /\ port = [w \in Workers |-> NoPort] /\ phase = [w \in Workers |-> "unused"]
    /\ flag = [w \in Workers |-> FALSE]
    /\ events = <<>> /\ waiting = NoWorker

GuiIdle == waiting = NoWorker /\ ~crashed

-----------------------------------------------------------------------------
(* Scans *)

Alive(s) == scan[s] \in {"listing", "ending"}

ScanInProgress == scan_worker # NoScan /\ Alive(scan_worker)

\* scan_ports: nothing while the worker it knows runs. A worker that has ended is
\* replaced; its result, when still queued, is served all the same.
ScanPorts ==
    \/ ScanInProgress /\ UNCHANGED scanVars
    \/ /\ ~ScanInProgress
       /\ \E s \in Scans : /\ FirstUnused(scan, Scans, s)
                           /\ scan' = [scan EXCEPT ![s] = "listing"]
                           /\ scan_worker' = s
       /\ UNCHANGED found

\* The scan button, the combo box and the protocol box: locked while connected.
RequestScan ==
    /\ GuiIdle /\ ~connected[current]
    /\ ScanPorts
    /\ UNCHANGED <<connVars, tabVars, current_port_panel, panelVars, controlVars, listed, crashed, strayed, unlisted>>

\* PortScanWorker.run: an error is an empty result.
ListPorts(s) ==
    /\ scan[s] = "listing" /\ ~crashed
    /\ \E S \in Results : found' = Append(found, S)
    /\ scan' = [scan EXCEPT ![s] = "ending"]
    /\ UNCHANGED <<connVars, tabVars, current_port_panel, panelVars, controlVars, listed, scan_worker,
                   crashed, strayed, unlisted>>

ScanEnds(s) ==
    /\ scan[s] = "ending" /\ ~crashed
    /\ scan' = [scan EXCEPT ![s] = "ended"]
    /\ UNCHANGED <<connVars, tabVars, current_port_panel, panelVars, controlVars, listed, scan_worker,
                   found, crashed, strayed, unlisted>>

\* PortSettingsWidget.set_port_list: a name the scan does not list gives way to the
\* first of the list, whether the tab is connected or not.
AfterScan(p, S) == IF p \in S THEN p ELSE IF S = {} THEN NoPort ELSE FirstOf(S)

\* _on_scan_finished: the reference to the worker is dropped, whichever worker it is.
\* When that one still runs it may be destroyed, which ends the program, or its own
\* run() may keep it alive.
OnScanFinished ==
    /\ GuiIdle /\ found # <<>>
    /\ LET S == Head(found)
           moved == [t \in Panel |-> IF t \in TabSet THEN AfterScan(shown[t], S) ELSE shown[t]]
       IN  /\ shown' = moved
           /\ listed' = S
           /\ strayed' = strayed \cup {t \in TabSet : (connected[t] \/ checked[t]) /\ moved[t] # shown[t]}
    /\ found' = Tail(found)
    /\ scan_worker' = NoScan
    /\ crashed' \in IF ScanInProgress THEN BOOLEAN ELSE {FALSE}
    /\ unlisted' = unlisted \ TabSet
    /\ UNCHANGED <<connVars, tabVars, current_port_panel, connected, checked, controlVars, scan>>

-----------------------------------------------------------------------------
(* The controls of manual sends *)

\* _sync_manual_control_state, at a change of tab and at a change of any tab's connection.
SyncControls ==
    /\ controls' = connected'[current']
    /\ unsynced' = FALSE

\* The tab in front changes with the signals of the tab panel blocked.
NotSynced == unsynced' = TRUE /\ UNCHANGED controls

\* _on_port_connection_changed of the tabs in S, none or one.
ConnectionChangedAny(S, b) ==                              \* mutant: the event's value is taken
    IF S = {} THEN UNCHANGED controlVars ELSE controls' = b /\ unsynced' = FALSE
ConnectionChanged(S, b) == IF S = {} THEN UNCHANGED controlVars ELSE SyncControls

-----------------------------------------------------------------------------
(* Tabs *)

\* _on_port_tab_added: the presenter asks for a scan.
OnPortTabAddedUnlisted(t) ==                               \* mutant: no scan
    unlisted' = unlisted \cup {t} /\ UNCHANGED scanVars
OnPortTabAdded(t) == unlisted' = unlisted \cup {t} /\ ScanPorts

\* add_new_port_tab, with the signals of the tab panel blocked: current_tab_changed is
\* not emitted. From the '+' tab the emission under way reaches the presenter
\* afterwards; from the menu nothing does.
AddNewPortTab(fromPlus) ==
    /\ GuiIdle /\ made < MaxTabs
    /\ made' = made + 1
    /\ tabs' = Append(tabs, made + 1)
    /\ current' = made + 1
    /\ current_port_panel' = IF fromPlus THEN made + 1 ELSE current_port_panel
    /\ OnPortTabAdded(made + 1)
    /\ UNCHANGED <<connVars, panelVars, listed, crashed, strayed>>
    /\ IF fromPlus THEN SyncControls ELSE NotSynced

\* close_port_tab: one tab stays. The connection is not closed, and again the
\* presenter does not hear of the change.
CloseTab(i) ==
    /\ GuiIdle /\ Len(tabs) > 1
    /\ tabs' = RemoveAt(tabs, i)
    /\ current' = tabs'[IF i = 1 THEN 1 ELSE i - 1]
    /\ unlisted' = unlisted \ {tabs[i]}
    /\ NotSynced
    /\ UNCHANGED <<connVars, made, current_port_panel, panelVars, listed, scanVars, crashed, strayed>>

\* The menu closes the tab in front.
CloseCurrentTab == \E i \in DOMAIN tabs : tabs[i] = current /\ CloseTab(i)

ClickTab(i) ==
    /\ GuiIdle /\ tabs[i] # current
    /\ current' = tabs[i]
    /\ current_port_panel' = tabs[i]
    /\ UNCHANGED <<connVars, tabs, made, panelVars, listed, scanVars, crashed, strayed, unlisted>>
    /\ SyncControls

\* clear_log_current_port, as far as this module goes.
UpdateCurrentPortPanel ==
    /\ GuiIdle
    /\ current_port_panel' = current
    /\ UNCHANGED <<connVars, tabVars, panelVars, controlVars, listed, scanVars, crashed, strayed, unlisted>>

\* The combo box offers the last list; that of a restored tab only its own name.
\* set_connection_state locks it while connected.
SelectPort(p) ==
    /\ GuiIdle /\ ~connected[current] /\ shown[current] # NoPort
    /\ p \in listed \ {shown[current]}
    /\ shown' = [shown EXCEPT ![current] = p]
    /\ strayed' = IF checked[current] THEN strayed \cup {current} ELSE strayed
    /\ UNCHANGED <<connVars, tabVars, current_port_panel, connected, checked, controlVars, listed, scanVars,
                   crashed, unlisted>>

-----------------------------------------------------------------------------
(* ConnectionController and its threads, reduced *)

Running(w) == phase[w] \notin {"unused", "ended"}
AtWork(w) == phase[w] \in {"opening", "open", "broken"}
Registered(p) == workers[p] # NoWorker
IsConnectionOpen(p) == Registered(p) /\ Running(workers[p])

OpenConnection(p) ==
    /\ ~IsConnectionOpen(p)
    /\ \E w \in Workers :
          /\ FirstUnused(phase, Workers, w)
          /\ workers' = [workers EXCEPT ![p] = w]
          /\ port' = [port EXCEPT ![w] = p]
          /\ phase' = [phase EXCEPT ![w] = "opening"]
    /\ UNCHANGED <<flag, events, waiting>>

\* Nothing without an entry; else stop().
CloseConnection(p) ==
    IF p # NoPort /\ Registered(p)
      THEN LET w == workers[p] IN
           /\ flag' = [flag EXCEPT ![w] = FALSE]
           /\ waiting' = IF Running(w) THEN w ELSE NoWorker
           /\ UNCHANGED <<workers, port, phase, events>>
      ELSE UNCHANGED connVars

TabsFrame == <<tabVars, current_port_panel, panelVars, controlVars, listed, scanVars, crashed, strayed, unlisted>>

ThreadStep(w, to, running, signal) ==
    /\ phase' = [phase EXCEPT ![w] = to]
    /\ flag' = [flag EXCEPT ![w] = running]
    /\ events' = events \o signal
    /\ UNCHANGED <<workers, port, waiting, TabsFrame>>

Opens(w) == phase[w] = "opening" /\ ThreadStep(w, "open", TRUE, <<<<"opened", w>>>>)
OpenFails(w) == phase[w] = "opening" /\ ThreadStep(w, "ended", flag[w], <<<<"error", w>>>>)
IoError(w) == phase[w] = "open" /\ ThreadStep(w, "broken", flag[w], <<<<"error", w>>>>)
Closes(w) ==
    /\ phase[w] = "broken" \/ (phase[w] = "open" /\ ~flag[w])
    /\ \E kind \in {"closed", "error"} : ThreadStep(w, "ended", flag[w], <<<<kind, w>>>>)

ThreadProgress(w) == ~crashed /\ (Opens(w) \/ OpenFails(w) \/ Closes(w))

WaitReturns ==
    /\ waiting # NoWorker /\ ~Running(waiting) /\ ~crashed
    /\ waiting' = NoWorker
    /\ UNCHANGED <<workers, port, phase, flag, events, TabsFrame>>

-----------------------------------------------------------------------------
(* What a tab does to a connection, and what it hears of it *)

\* The first tab that shows the name, as a set.
TabOf(p) == {tabs[i] : i \in {j \in DOMAIN tabs : /\ shown[tabs[j]] = p
                                                  /\ \A k \in 1..(j-1) : shown[tabs[k]] # p}}

\* set_connected(b) on that tab: state, button and lock.
Mark(f, p, b) == [t \in Panel |-> IF t \in TabOf(p) THEN b ELSE f[t]]

\* Tabs that show the name but do not hear of it.
Unheard(p) == {t \in TabSet \ TabOf(p) : shown[t] = p}

\* History: as long as they are connected or pressed.
Stray(S) == strayed' = {t \in strayed \cup S : connected'[t] \/ checked'[t]}

RestOfTabs == <<tabVars, shown, listed, scanVars, crashed, unlisted>>

Press(t) == [checked EXCEPT ![t] = TRUE]

\* A button that is up goes down, and the connection of the name is opened.
ClickConnect ==
    /\ GuiIdle /\ ~checked[current] /\ shown[current] # NoPort
    /\ OpenConnection(shown[current])
    /\ checked' = Press(current)
    /\ UNCHANGED <<connected, strayed, current_port_panel, controlVars, RestOfTabs>>

\* open_connection refuses: no name, or already open. The error goes the way of every
\* error, to the first tab of the name.
ClickRefused ==
    LET p == shown[current] IN
    /\ GuiIdle /\ ~checked[current] /\ (p # NoPort => IsConnectionOpen(p))
    /\ connected' = Mark(connected, p, FALSE)
    /\ checked' = Mark(Press(current), p, FALSE)
    /\ Stray(Unheard(p))
    /\ UNCHANGED <<connVars, current_port_panel, RestOfTabs>>
    /\ ConnectionChanged(TabOf(p), FALSE)

\* handle_close_request: the name the tab shows now.
ClickDisconnect ==
    /\ GuiIdle /\ checked[current]
    /\ CloseConnection(shown[current])
    /\ checked' = [checked EXCEPT ![current] = FALSE]
    /\ UNCHANGED <<connected, strayed, current_port_panel, controlVars, RestOfTabs>>

ClickButton == ClickConnect \/ ClickRefused \/ ClickDisconnect

\* The menu presses the button, but not on a tab that is in that state already.
OpenCurrentPort == ~connected[current] /\ ClickButton
CloseCurrentPort == connected[current] /\ ClickButton

\* The shortcuts do not touch the button.
ConnectCurrentPort ==
    /\ GuiIdle /\ shown[current] # NoPort
    /\ OpenConnection(shown[current])
    /\ current_port_panel' = current
    /\ UNCHANGED <<connected, checked, strayed, controlVars, RestOfTabs>>

DisconnectCurrentPort ==
    /\ GuiIdle /\ shown[current] # NoPort /\ IsConnectionOpen(shown[current])
    /\ CloseConnection(shown[current])
    /\ current_port_panel' = current
    /\ UNCHANGED <<connected, checked, strayed, controlVars, RestOfTabs>>

\* The next signal of a connection, of the given kind.
Heard(kind) == /\ GuiIdle /\ events # <<>> /\ events[1][1] = kind
               /\ events' = Tail(events)
               /\ UNCHANGED <<port, phase, flag, waiting, current_port_panel, RestOfTabs>>
HeardPort == port[events[1][2]]

Show(b) == /\ connected' = Mark(connected, HeardPort, b)
           /\ checked' = Mark(checked, HeardPort, b)
           /\ ConnectionChanged(TabOf(HeardPort), b)
           /\ Stray({t \in Unheard(HeardPort) : b => ~connected[t]})

OnConnectionOpened == Heard("opened") /\ Show(TRUE) /\ UNCHANGED workers

\* on_worker_closed removes the entry of the name first.
OnConnectionClosed == /\ Heard("closed") /\ Show(FALSE)
                      /\ workers' = [workers EXCEPT ![HeardPort] = NoWorker]

OnErrorOnlyShown ==                                        \* mutant: the button is not lifted
    Heard("error") /\ UNCHANGED <<connected, checked, strayed, controlVars, workers>>
OnError == Heard("error") /\ Show(FALSE) /\ UNCHANGED workers

-----------------------------------------------------------------------------
ServeConnection == OnConnectionOpened \/ OnConnectionClosed \/ OnError

Next ==
    \/ RequestScan \/ OnScanFinished \/ \E s \in Scans : ListPorts(s) \/ ScanEnds(s)
    \/ \E plus \in BOOLEAN : AddNewPortTab(plus)
    \/ \E i \in DOMAIN tabs : CloseTab(i) \/ ClickTab(i)
    \/ UpdateCurrentPortPanel \/ \E p \in Port : SelectPort(p)
    \/ ClickButton \/ OpenCurrentPort \/ CloseCurrentPort \/ CloseCurrentTab
    \/ ConnectCurrentPort \/ DisconnectCurrentPort
    \/ ServeConnection \/ WaitReturns
    \/ \E w \in Workers : ThreadProgress(w) \/ (~crashed /\ IoError(w))

Spec == Init /\ [][Next]_vars

-----------------------------------------------------------------------------
(* Properties *)

\* An attempt to open the port whose outcome no tab has heard of yet.
Attempt(p) == \E w \in Workers : /\ port[w] = p
                                 /\ phase[w] = "opening" \/ \E e \in Range(events) : e[2] = w

\* What a tab says of its port is true.  One that is connected has a thread at work on the
\* port it shows, or the end of one still in the event queue; one whose button is down while
\* it is not connected has an attempt under way, whose outcome will lift or confirm it.
\* Unless the name of the tab was changed meanwhile, by a scan or by hand, or a tab in front
\* of it shows the name too and took the event.
TabIsTrue ==
    \A t \in TabSet \ strayed :
        /\ connected[t] => \E w \in Workers :
              /\ port[w] = shown[t]
              /\ AtWork(w) \/ \E e \in Range(events) : e[1] # "opened" /\ e[2] = w
        /\ checked[t] /\ ~connected[t] => Attempt(shown[t])

\* The controls of manual sends are enabled when the tab in front is connected, whatever
\* happens to the connections of the tabs behind it, until that tab is changed from the menu
\* or closed, which no signal tells the section (main_left_section.py:368).
ControlsFollow == ~unsynced => (controls = connected[current])

\* A list of ports is on its way to every tab no scan has reached yet, also to one that was
\* added while a scan was under way and therefore started none (port_presenter.py:188): a
\* result that waits to be served, or a scan that will report one.
EveryTabIsListed ==
    unlisted # {} => crashed \/ found # <<>> \/ \E s \in Scans : scan[s] = "listing"

=============================================================================
