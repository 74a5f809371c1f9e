# A formal model of serial_tool

serial_tool is a PyQt desktop program: it opens serial ports, each in a thread
of its own, shows and records what they receive, and sends commands typed by
hand, run as a macro, or read from a file. This directory holds TLA+ modules
translated from its Python source, configurations that check them with TLC on
small instances, and proofs checked by TLAPS for every value of the constants.
Paths are relative to `src/`; `PROJECT.json` gives for every definition the lines
it stands for.

## 1. Inventory

The program is Model - View - Presenter. Almost everything runs on the GUI
thread. The exceptions are the reason for this project: one `QThread` for each
connection, one for the macro, one for each scan of the ports and each script that
is loaded, a `QRunnable` for each file transfer, and a Python thread for each logger.
They share flags and queues with the GUI thread and talk back to it by queued
signals, which are served in order but late. The second source of trouble is state
kept twice: a tab and its connection, a panel and its presenter, a setting and the
flag, box or style made from it.

| Component | State | Operations | Talks to | Status |
| --- | --- | --- | --- | --- |
| ConnectionWorker `model/connection_worker.py`, `core/transport/` | thread, `_is_running`, transport, `_write_queue`, batch of received bytes | `run`, `send_data`, `stop` | device; signals to the controller | partly |
| ConnectionController `model/connection_controller.py` | `workers`, `parsers`, `connection_configs`, registry of transfers | open, close, close all, send, serve worker signals | workers; publishes on the EventBus | partly |
| MacroRunner `model/macro_runner.py` | `_is_running`, `_is_paused`, `_entries`, mutex and two conditions, expect matcher | `load_macro`, `start`, `stop`, `pause`, `resume`, `run`, `_on_data_received` | signals for sends, errors and the end | modelled |
| Macro control `presenter/macro_presenter.py`, `view/widgets/macro_control.py` | buttons, check boxes | start, stop, pause, end of a run | runner, MainPresenter | partly |
| Macro list `view/widgets/macro_list.py` | rows with a button each, selection, select-all box, loading thread | edit, check, move, save, load, highlight | MacroPresenter | modelled |
| File transfer `model/file_transfer_service.py`, `presenter/file_presenter.py`, dialog | file position, cancel flag, pool thread, busy dialog | start, cancel, run, end, dialog closed | controller (write queue, registry) | modelled |
| Data logging `core/data_logger.py` | loggers by port, queue, file, writer thread | start, stop, write, loop | MainPresenter, DataTrafficHandler | partly |
| EventBus, EventRouter `core/event_bus.py`, `presenter/event_router.py` | subscriptions, queued events | publish, dispatch | all presenters | modelled |
| Receive path `presenter/data_handler.py`, `view/widgets/data_log.py` | buffer for each port and each log, timers, counters | receive, flush, pause, clear, stop | tabs, status bar | modelled |
| Packet parsing `model/packet_parser.py`, `view/panels/packet_panel.py` | buffer of each parser, table of packets | parse, match, capture, resize | controller, MacroRunner | modelled |
| RingBuffer `core/structures.py` | bytes up to a size | write, read, clear | nobody | modelled |
| Log views `view/custom_qt/smart_list_view.py`, `view/widgets/system_log.py` | bounded lines, filter, search, debounce timer | append, trim, filter, find | | partly |
| Port tabs `presenter/port_presenter.py`, `view/panels/port_tab_panel.py`, ... | tabs, their port and connected state, scan thread, lock of the manual controls | scan, add, close, rename, open / close request | controller | partly |
| Manual control `presenter/manual_control_presenter.py`, `view/widgets/manual_control.py` | text, boxes, history, echo flag | type, send, browse the history | controller | partly |
| Settings `core/settings_manager.py`, `presenter/lifecycle_manager.py`, dialogs | settings, file, backup | load, migrate, validate, save, apply | all presenters | modelled |
| Appearance `view/managers/*` | theme twice, colour rules, language, fonts, marks of the menu | switch, rebuild | window | partly |
| MainPresenter `presenter/main_presenter.py` | the other components, current tab | macro sends, port opened / closed, tab changed, window closing, logging, settings | everything | partly, in the modules of what it drives |
| Windows, entry point | right section, its width | show, hide, drag, start, end | | partly, in Session |

What is hard, and what makes it right:

* **Connection thread.** Bytes are batched by size and by time, and the loop also serves
  the write queue: no payload may be lost, doubled or swapped, no byte may stay in the batch
  for ever. `stop()` clears a flag that `run()` sets later, and the GUI thread waits for the
  end of the thread. The thread must keep one lifecycle of signals, which everybody else
  relies on.
* **Controller.** Closed signals are served late, by the name of the port, when the name may
  already belong to another worker. A running thread must stay registered, a dead one must
  not, and "close all" must leave nobody running.
* **Macro.** Four kinds of wait in the thread, stop and pause from outside, answers from a
  third thread. Stop and pause must take effect within one command, waits must be woken.
* **Macro and window.** The last port can close, the tab can change and the window can
  close between any two of the queued signals of a run.
* **Macro list.** Rows, their numbers, the buttons that carry a number and the box that sums up
  the rows are moved, replaced and loaded one by one, while a run highlights by number.
* **File transfer.** It looks at the length of a queue that a thread empties and others fill,
  while its port may close and its dialog may be cancelled or closed.
* **Tabs.** Every event and every scan result finds its tab by the name the tab shows at that
  moment. A tab must not claim a connection it does not have, nor wait for ever for an answer,
  and the manual controls must follow the tab in front.
* **Logging.** The GUI thread stops a writer, waits a second, and closes its file.
* **Receiving.** Data goes through two timed buffers, events through a bus whose subscribers
  raise, publish again and run on another thread than the publisher: nothing may be lost,
  doubled or swapped on the way.
* **Bounded lists.** Logs, packets, history: at their limit the oldest goes, whatever else
  happens to the list, and a search or filter must not point at what is gone.
* **Settings.** A file that is emptied before it is written, migrated and saved before it is
  validated, in a program that may be killed; preferences whose handler publishes the event
  that calls it.

`PROJECT.json` lists these as hazards, each at its line, with the properties that cover it,
or with the reason why none does.

## 2. Modules

| Module | Models | Composed of |
| --- | --- | --- |
| `WorkerLifecycle` | abstract: what a connection thread promises its controller | |
| `ConnectionWorker` | one worker: its loop, its queues, senders, `stop` | refines `WorkerLifecycle` |
| `ConnectionController` | controller, event queue, several threads without the inside of their loops | each thread keeps `WorkerLifecycle` |
| `MacroRunner` | the macro thread and the callers of its operations | |
| `MacroSession` | the panel, MainPresenter, ports and window around it | extends `MacroRunner` |
| `MacroList` | the table of commands, its script files, the loading thread | |
| `FileTransfer` | transfers, registry, queue, dialog; a connection reduced to what a transfer sees | |
| `DataLogging` | panels, manager, loggers, writer threads, files | |
| `PortTabs` | tabs, scan threads, what a tab shows of a connection, the lock of the manual controls | |
| `EventBus` | subscriptions and dispatch, nested and across threads | |
| `PacketParsing` | parsers, matcher and ring buffer as functions from a state and an input | |
| `ReceivePath` | from the controller's handler to the logs, the status bar and the inspector | extends `EventBus`, `PacketParsing` |
| `LogView` | a bounded list with filter and search | |
| `Settings`, `Appearance`, `ManualControl` | the file; themes, colours, menu; the panel for single commands | |
| `Session` | start, use, preferences, end, crash, start again | extends those three |
| `MC...` | small instances for TLC | each extends its component |
| `...Proofs` | theorems and proofs | each extends its component |

How to read a module: the variables carry the names of the attributes of the code. A thread
has a variable `pc` (or `phase`) that says where it is in its `run`; one action is what the
thread does from one point where another thread can interfere to the next. A handler of the
GUI thread is one action, unless it blocks (`wait()`, `join()`, a file dialog); then a
variable (`waiting`, `caller`, `gui`) says where it is blocked and what else is served
meanwhile. Queued signals are a sequence, served from its head. Variables marked *history*
record what happened for the properties and never guard an action.
An operator marked `mutant` is a plausible mistake in the definition that follows it; no
specification uses it.

**ConnectionWorker.** `pc` walks through `run()`: open the transport, set `_is_running`,
and in each turn read a chunk, decide about the batch, take one payload after the other
from `_write_queue`, write it, test the flag. Senders check `is_open()` and put in two steps.
Time is a counter from the last emission to `BatchTimeout`. A read or write may raise.

**ConnectionController.** `workers` stands for the three dictionaries, which are filled and
cleared together. `events` is the GUI event queue. Closing blocks the GUI thread in `waiting`;
`close_connection(None)` goes through the names in `todo`. Left out: sending, which changes
nothing of the controller (the queue is in ConnectionWorker, what a sender makes of it in
FileTransfer and ManualControl), and broadcasting, see section 6.

**MacroRunner.** `pc` follows `run()` with `_handle_pause`, `_wait_for_expect` and
`_interruptible_sleep`; `caller` follows the handler that is in `start()` or `stop()`.
`step_started` and `send_requested` are one signal; `loop_progress` and `step_completed`
change nothing and are left out; times are left out, so any wait may time out. The loop count
saturates at `MaxLoop` and the thread waits while `Backlog` signals are unserved: both keep
the state finite and neither disables the properties.

**MacroSession.** Adds the buttons, the check box, the ports with closed events under way, the
current tab, and the window. Rows of the panel never have an expect pattern, and the panel
always asks to stop on errors. The run uses two settings of the panel: once to one port, and for
ever to all ports.

**MacroList.** A row is a command, a check box, a delay (a number or a text that is none) and the
button that sends "its" row, which carries a number. A run is the set of rows it was started
with, which it highlights in any order. A script is a sequence of entries that may break off at
one that cannot be read. Left out: the other cells, which are carried like the delay.

**FileTransfer.** A file is `Size` chunks. The states of a connection are listed in the
module; the entry of a worker that failed to close stays behind ("dead"), as
ConnectionController shows. Left out: progress signals (the handler raises before it
enables the cancel button, see section 6), a reopening before the closed signal is
served. `ClosePort` may happen in more states than the window offers it.

**DataLogging.** A chunk is its number of arrival. The file of a PCAP logger grows in two
writes, that of the other formats in one. The disk may refuse a write or a flush. Left out: the paths,
so two loggers given the same file; the global header of PCAP; what the operating
system still buffers.

**PortTabs.** `tabs` holds the panels from left to right, `current` the one in front and
`current_port_panel` the presenter's idea of it; `shown`, `connected` and `checked` are the combo
box, the state and the button of each panel, `controls` the lock of the manual controls. Every
signal of a connection goes to the first tab
that shows its name (`TabOf`). A scan thread is listing, then ending (its result is emitted, it
still runs), then ended; `_on_scan_finished` forgets the worker it knows, whichever it is, and when
that one runs the program may crash. The connection is that of ConnectionController with `run()`
cut to its signals. Left out: the error box, tab names, the broadcast box, closing the window.

**EventBus and ReceivePath.** `frames` is the stack of dispatches in progress: `publish` on the GUI
thread runs its subscribers at once, inside the handler that publishes; from another thread
the event waits in `pending`. A subscriber may raise or publish; a raise does not keep the event
from the next one. A chunk is its number of arrival; `rx_buffer` waits for the 30 ms timer,
`ui_buffer` of a tab for that of its log. Which port a tab shows may change at any time.

**PacketParsing.** Each parser is a function of its settings, its buffer and a chunk; `Chunkings`
cuts a stream in every way. The matcher looks for plain text (a regular expression is left out).

**LogView.** A line is the number of its arrival; a search text is a number, and a line contains it
when it divides the line, so texts match some lines and not others. Rows that go away move Qt's
current index; a text typed acts when the debounce timer fires, the box at once.

**Settings, Appearance, ManualControl and Session.** A settings document is a version, whether it
is valid, and a value or `None` for each of eleven keys that behave differently; the other keys behave
like one of these. A save is two steps (the file is emptied, then written), and the program may be
killed or fail at either. `Session` starts the program from whatever the file holds, lets the user
work, saves preferences through handlers that nest to `Depth`, ends or is killed, and starts it
again. The right section has two widths, as in the code: `width` is what the splitter gives it, saved
and restored with `ui.splitter_state`; `savedWidth` is `_right_section_width`, which a hidden section
is shown with again. Of the splitter's state only the right section's share is kept (the window's
geometry is restored before it, so the rest follows), and a state text no splitter wrote counts as an
absent one. `EvenWidth`, `DefaultWidth` and `Squeezed` stand for widths a layout computes. `switched`
is a history variable: it is read by no action, only by the property about the colours. Left out:
palettes, icons, translations, the text of style sheets, a section dragged to nothing.

## 3. Runs

CHECK_DEADLOCK is FALSE in every configuration because every bounded system here really
stops: a user need not do anything more, threads end, a window closes. That nothing waits
which should go on is stated by the liveness properties instead.

| Run | Shows |
| --- | --- |
| `connection_worker` | two senders, a stop, errors and a batch limit that is reached: payloads in order, bytes within their batch (`TrafficKept`); batches flushed, payloads written and a stop that finds the loop answered (`WorkerProgresses`); the worker implements `WorkerLifecycle` |
| `connection_controller` | two names, workers opened again while signals of the first are queued: dictionary and threads agree but for workers evicted by a late signal (`EntriesMatchRunners`), close all (`CloseAllStopsEveryone`), every thread keeps the lifecycle |
| `macro_runner` | three rows, one that expects an answer and one whose pattern leaves the mutex locked: at most one command after a stop or pause, rows in order although the list is replaced, success only on data of the own wait, `stop()` returns and finite macros end (`RunEnds`) |
| `macro_session` | two ports, tab changes, the window: the panel offers no stop when nothing goes on and no thread survives the window (`QuietPanel`), a macro without ports ends |
| `macro_list` | edits while a run highlights and a script loads: moves keep the other rows and the select-all box (`EditsKeepList`), what is saved is loaded (`ScriptRoundTrip`), buttons never send a row below (`ButtonsRenewed`), any failed load leaves the loader usable |
| `file_transfer` | two transfers to a port that opens, closes and fails: queue bounded, registry and dialog right (`BeliefsHold`), at most one chunk after a cancel, success means the whole file, transfers end and the dialog comes back (`NobodyWaitsForEver`) |
| `data_logging` | two ports, two loggers, a join that gives up and a disk that refuses: files are whole prefixes, complete after a clean stop (`FileIsFaithful`), loggers registered, writers end |
| `port_tabs` | a restored or an empty tab and one more, two scans, a connection: what a tab says of its port is true (`TabIsTrue`), the manual controls follow the tab in front (`ControlsFollow`), every tab gets a list although scans are refused, dropped and replaced |
| `receive_path` | two ports, two tabs, four inputs in any order with the timers: everything received is buffered or handed on, once and in order, and counted (`Conserved`), at last handed on (`HandedOn`); events reach every subscriber once (`EventsReachAll`); the inspector is recent; parsers, matcher and ring keep all streams of up to five bytes, cut in any way (`BuffersKeepBytes`) |
| `log_view` | nine lines through a list of five, eight actions: newest kept (`LogIsRecent`), filter and box agree once the timer fired (`FilterFollows`), find goes round the matches (`FindIsCyclic`) |
| `session` | two starts, one fault: a reset is always told (`LossIsReported`), the panel and the right section come back as they were left, shown with its width or hidden with the width it will have (`ComesBack`); echo, theme, colours and menu agree with the settings (`EchoFollows`, `AppearanceAgrees`), the history is recent |

One more run, `received_unshown`, checks the sentence of a docstring that the code does not
keep: `flush_buffer` is said to bring the buffer to the screen, and TLC finds a chunk that the
data log keeps and never shows, because `append_bytes` reads an attribute nothing sets.

**Bounds.** Two threads of a kind are enough for each to disturb the other; the controller
needs two workers under one name for its hazard (an old and a new one). Two payloads show a
swap, three bytes with a threshold of two show a batch that is full and one that is only
timed out. Macros of two rows with two plans show a list replaced under the iteration; two
starts show the end of one run taken for the next. A table of four rows shows two adjacent and
two separate selected rows moved at an edge; scripts break off after three rows and at once. A
file of two chunks with a threshold of 0 makes the queue full, and two transfers overrun it
together. Two loggers and two chunks show a chunk in a writer's hand while the next is queued
and a second logger under the same name. Two tabs show two that carry one name, two scans the
second that runs while the result of the first is queued; one connection is enough there,
because an event touches only tabs that show its name. Four inputs fill a packet buffer of two and change its
size with a dispatch in progress; five bytes cover a delimiter split over two chunks and over the limit of
a parser. Nine lines trim a list of five more than once. Two starts of the program show everything
that is kept between them, and one fault meets every step of a save; documents are valid, old,
invalid, with one or both of two names that migrate to one key; `Depth` 2 is the last nested handler that
gets through and one that does not. Every passing run exhausts its state space, from tens of thousands
to about a million states, and each property is falsified by a mutant of the code.

**Fairness.** Assumed only of what the code or the platform schedules: threads that can run
do (weak), Qt serves posted events (strong where each user action may block
the loop again, and for the signals a macro posts; weak elsewhere), a timer that is due fires
(strong in ReceivePath, where handlers interrupt its being enabled), a timed wait ends. Never
assumed: that a user acts,
that a device answers or fails, that an answer arrives, that a disk is not stuck. Where a known
defect makes waiting endless the property names it: a stop that came before the flag was set,
`mutex = "lost"`, `Wedged`, and the writer inside a write.

## 4. Proofs

TLAPS checks the theorems below for any sets of ports, tabs, workers, rows, transfers, loggers, scripts,
documents, any bounds and thresholds. The only assumptions are the named ASSUMEs of the modules, which TLC
evaluates on every run: constants are numbers where they must be, `None` is none of the values, and four that
say more. `OrderAssumption` (PortTabs): `list_ports` lists each port. `ScriptAssumption` (MacroList): a script is
a list of entries, and what cannot be read is no entry; a delay text `int()` refuses is no number.
`AppearanceAssumption`: a rule has the three colours `ColorRule` has. `SessionAssumption` and
`DocumentsAssumption`: the stack has room for two nested calls, the two themes and the language the code names
exist, and the keys the validation schema skips hold values of the type the program writes there.

* **ConnectionWorkerProofs.** `TypeOK`, `TrafficKept` (as `TxInOrder` and `BatchBounded`) and the
  refinement of `WorkerLifecycle`. The invariant adds to the types that the flag and the transport agree with
  the place in `run()` (`Started`) and that a payload is in hand exactly in the write step
  (`HandHeld`): only so is "wire, hand, queue" preserved when a payload moves. The lifecycle
  maps the initial state and every step to a step or a stutter.
* **ConnectionControllerProofs.** `EntriesMatchRunners` (as `RunnerIsRegistered` and
  `DeadEntryHasCause`), `CloseAllStopsEveryone`, `ThreadsKeepLifecycle` and `TypeOK`. The invariant says whose
  entries the dictionary holds (`EntryOfPort`), that queued signals come from known workers, that "closed" is the
  last signal of a worker (`ClosedIsLast`), and, for close-all, that the names already done have no
  thread at work (`ClosedSoFar`). For the lifecycle `LogOfPhase` says which signals a thread in each phase
  has sent; then each step of the controller is a step or a stutter of every thread's lifecycle.
* **MacroProofs**, MacroRunner: `SendsAtMostOne`, `RowsInOrder`, `ExpectAnswered`, `TypeOK`. The count of
  commands since the stop is tied to the place of the thread: it is zero
  while the thread can still send without another test of the flag (`StopInv`, `PauseInv`);
  `RowAtHand` keeps the position inside the list; `FoundIsHeard` ties the flag of the answer
  to data heard in this wait.
* **MacroProofs**, MacroSession: `QuietPanel`, and `SendsAtMostOne` again under the session. Every step of the
  session is a step of the runner, a stutter, or the delivery of a command
  (`SessionIsRunner`), so the runner's invariant is reused as it stands. Beside it `PanelLearns`: a panel
  that offers a stop has the end of the run queued, still to come, or a stop under way.
* **MacroProofs**, MacroList: `EditsKeepList`, `ScriptRoundTrip`, `ButtonsRenewed`, `ListTypeOK`. A move goes
  through the selected rows one after the other; `Recursion` shows that the function the model computes it with exists
  and keeps, at each index, that the rows passed so far are those from before, each once, the selected ones
  one row on (`Arrangements`). So the select-all box still sums up the rows (`BoxIsKept`). `ButtonsLow` is the
  invariant behind the buttons; `RowsOK` and `FilesOK` behind what is saved and loaded.
* **PortTabsProofs.** `TabIsTrue`, `ControlsFollow`, `EveryTabIsListed` and the types. A tab that shows a
  connection is backed by a thread or by the queue: an "opened" that waits there comes from a
  thread at work or has the end of that thread behind it (`OpenedIsFollowed`, `EventsOfStarted`), and a panel
  not made yet says nothing (`FreshIsQuiet`). For the lists: the scan the presenter waits for has its
  result ahead of it or in the queue (`ScanReports`).
* **FileTransferProofs.** All four safety properties and their parts. `BackpressureInv` counts, for each port,
  the transfers that have looked at the queue and not yet sent, which is what can overrun the
  threshold; `CancelInv` and `WholeInv` tie the count of chunks to the place in `run()`.
* **DataLoggingProofs.** `FileIsFaithful` and `RegisteredIsLogging`. File, hand and queue together are what
  was accepted (`Contents`), in every place of the writer; `Lives` ties flag, thread and file of a logger
  together, `Registry` says that two names never share a logger and where a stop that is under way has got to.
* **ReceivePathProofs.** `Conserved`, `EventsReachAll` and `PacketsAreRecent`. A handler that publishes a sent payload
  is on the stack alone until the router has counted it (`SentAlone`), so the counters may
  be short by exactly that one (`Uncounted`). For the bus, each event has been seen by a subscriber, or a
  dispatch on the stack still owes it, and never both (`BusInv`): nested dispatches push whole frames, which
  keeps it. The inspector's rows are a suffix of the captured packets
  (`Recent`), which survives both the drop of the oldest and a buffer of another size.
* **ReceivePathProofs**, LogView: `LogIsRecent` by `Limits`, the arithmetic of one trim (the same lemma,
  `RemovedOfMany`, shows that the guard of the code against removing too much is never taken);
  `FilterFollows` by `FilterInv`, which adds that the current row is shown; `FindIsCyclic` from the smallest
  and largest match.
* **ReceivePathProofs**, PacketParsing: `BuffersKeepBytes`, for any streams and sizes. `RingHolds` says
  which cell of the ring holds which element of the queue; every write, read and clear keeps it (`RingWrites`,
  `RingReads`, `Cleared`), by the arithmetic of one turn round the ring (`Slots`). For the
  parsers, what was read before and what comes now may as well be read at once (`SplitJoined`); packets and
  rest put together are the stream (`PacketsAndRest`), and the rest is its end (`RestIsEnd`). The matcher goes
  on with the end of what it has seen, which is all a text may still need (`FoundIs`). The recursion over
  bytes, chunks and calls is shown to be a function once (`Recursion`, `Iterates`) and used for each.
* **SessionProofs.** `LossIsReported`, `HistoryRecent`, `EchoFollows`, `ComesBack`, `AppearanceAgrees`. `SaveOK` says
  what each save goes on with. `LossInv` compares the file, the document being saved and the settings in
  force with the last document written; `EchoInv` does it for the flag at each level of the nested handlers;
  `LeftInv` and `CloseInv` keep what a window showed when it closed, with the splitter's width of a
  shown section and the kept width of a hidden one, through file, save and start; `LooksInv` keeps
  theme, mark and style sheet together, and the colours with the theme of the last switch, or with
  dark before one.

Only model-checked: the liveness properties (`WorkerProgresses`, `RunEnds`, `StarvedMacroEnds`,
`NobodyWaitsForEver`, `LoaderRecovers`, `WriterEnds`, `HandedOn`), because fairness and ENABLED are out of the
prover's reach. The induction theorems of the library take an operator, which none of the
installed provers can instantiate; where a proof needs induction it goes by a least counterexample
(`NatLessThanWellFounded` and `WFMin`, which take sets; `UpFromZero` and `BytesUp` put it for numbers and sequences). No module has a RECURSIVE operator.

## 5. Plan

Done: every component that has a state of its own. Worth doing next, in this order:

1. DataLogging with two loggers given the same file.
2. Sending a single row of the table while a macro runs, in MacroSession.
3. The input widgets (`SmartNumberEdit`, `QSmartLineEdit`) as functions of a text and a key.

### Not modelled

* `model/connection_manager.py`: a registry nothing in the program uses.
* `core/error_handler.py`, `core/logger.py`, `core/resource_path.py`: they report and find
  files; no other part reads their state.
* `common/`: constants and records without behaviour; what matters of them is in the modules that use them.
* Layout, texts, icons, palettes, style sheets, painting, counters: no state any other part depends on.
* The tools for translators, which are no part of the program.

## 6. Seen while modelling

Behaviour of the code the models contain, or leave out because it never gets that far, and no
run but `received_unshown` is spent on.

Connections:

* `stop()` between `start()` and the point where `run()` sets `_is_running` is undone, and the caller waits
  for ever (`model/connection_worker.py:80`). `WorkerProgresses` excepts exactly this.
* `run()` leaves its loop without emitting what is in the batch. A non-blocking write may take only
  part of a payload, and `write()` does not look.
* A late closed signal removes the entry of the port whoever holds it, so a port that was reopened can be
  opened a second time (`model/connection_controller.py:234`), and it may drop the last reference to a
  thread that is still in `run()`.
* `send_data_to_connection` ignores the answer of the worker: a payload refused because the port is
  still opening is published as sent, echoed and counted.
* `ConnectionWorker.__init__` assigns an attribute `broadcast_enabled` over the method of that
  name; `send_broadcast_data` calls it and raises at the first running worker, so broadcasting
  never sends (`model/connection_worker.py:60`, `model/connection_controller.py:386`); a broadcast macro
  reports an error for every command and goes on.

Tabs and windows:

* A tab added or closed from the menu, with the signals blocked, leaves the presenter's
  `current_port_panel` and the lock of the controls as they were: sends go to the port of another tab.
* A combo box is locked from the opened event on, not from the click: the name can change while the
  port is opening, and the open port then has no tab (`SelectPort`).
* `set_port_list` promises to keep a name the scan does not list, and selects the first of the list
  instead (`view/widgets/port_settings.py:373`), in the tab of an open connection too.
* The error "already open" goes to the tab of the open connection and shows it as closed.
* `ManualControlPanel` has no `set_enabled`: whenever a port opens or closes an error box appears
  and the macro panel is not enabled.
* `DataLogWidget` starts with broadcasting allowed and its box unchecked. Tabs and macros are never saved.

Macros:

* `on_port_closed` compares the closed port with that of the current tab, not of the macro: after a change of
  tab the macro goes on without its port (`presenter/main_presenter.py:433`).
* A pattern that `re.compile` refuses with OverflowError leaves the macro mutex locked, and
  `stop()` waits for ever (`_wait_for_expect`).
* `start()` of a macro whose thread is just ending starts nothing but sets the flags, and lifts a pause
  without a wake.
* The rows below an added one send the row above them. Moving several rows restores the selection of one
  only; a step of a run replaces the user's selection. A script that breaks off loads in part or
  empties the list.

Files and logs:

* `update_progress` of the file dialog reads `eta_seconds`, which the DTO does not have, so the
  cancel button is never enabled; Escape closes the dialog and the transfer goes on unseen.
* The transfer registry is keyed by port: of two transfers to a port, one is not cancelled when
  it closes. A transfer to a port whose thread died with a full queue polls for ever.
* `DataLogger.stop_logging` waits one second "until the thread has emptied the queue", then
  closes the file whatever the thread does; nothing ever calls `stop_all`.
* Cancelling the file dialog when it was opened over a running logger, or selecting another port,
  switches the button off while the logger runs.
* What was received in the last 30 ms before `stop()` is not shown; data of a port no tab shows is dropped
  when the buffer is flushed. After the failing `append_bytes` the rest of a flush is lost too, and a change of the
  display mode clears the log and raises.
* A chunk larger than the buffer of a parser loses packets. `FixedLengthParser` of length 0 never returns.

Settings and appearance:

* `on_settings_change_requested` publishes SETTINGS_CHANGED, whose router signal is connected to it: every
  save of the preferences calls itself until the stack ends, saving at each level; the last level may
  be cut off after it emptied the file.
* Saving empties the file first, without a copy: killed there, everything is lost (the next
  start says so). A start killed after it wrote the defaults and before its message leaves them in silence. A torn file
  gets no backup; a file that fails validation is backed up after its migration.
* Migration renames `ui.saved_right_section_width` to a key no code reads. The default language "ko" of
  `create_fallback_settings` is under a key no code reads.
* The colour manager starts dark whatever the theme, until a theme is chosen or the preferences are saved
  (the comment at `color_manager.py:142` calls that following the current theme), and takes every theme but "light" for dark;
  `ThemeManager.apply_theme` says it updates it and does not. The rules of the system log are tuples, which
  `ColorService.apply_rules` passes over.
* Theme and language of the menu are not saved; Apply in the font dialog applies without saving; the
  font size of the preferences waits for the next start, and is clamped to 8..24 where the font dialog clamps to 6..16.
* Rebuilding the menu in another language checks "right section" also when it is hidden: the next click
  hides it again, and then keeps whatever width the layout has left of it. A section hidden while the
  window is maximized keeps no width at all, so an older saved one, or none, stays in the settings.
* The box "local echo" of the panel does nothing; the flag decides, and the echo is shown whatever became
  of the command.
