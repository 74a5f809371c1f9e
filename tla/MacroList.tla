------------------------------ MODULE MacroList ------------------------------
(***************************************************************************)
(* The list of macro commands (view/widgets/macro_list.py) behind its      *)
(* panel (view/panels/macro_panel.py), and the part of MacroPresenter that *)
(* saves, loads and starts it: rows are added, removed, moved, checked and *)
(* edited while a run highlights rows and a thread reads a script file.    *)
(*                                                                         *)
(* A row number counts from 1 here. The prefix, suffix and HEX boxes of a  *)
(* row are carried like its delay and left out. The run itself is          *)
(* MacroRunner's: here it is the set of row numbers it was started with,   *)
(* which on_step_started highlights in any order.                          *)
(***************************************************************************)
EXTENDS Integers, SequencesExt

CONSTANTS
    Command,    \* texts of commands
    Typed,      \* bound: what a user types
    Blank,      \* the empty command
    NotANumber, \* a delay text int() refuses
    NewDelay,   \* the delay text of a first row
    Script,     \* bound: command lists of script files made elsewhere
    Own,        \* stands for the file that is saved here
    Broken,     \* what no JSON object can be read from; an element that is no object
    MaxRows,    \* bound: rows
    MaxEdits,   \* bound: changes by the user
    MaxLoads    \* bound: script loading threads

Delay == Int \cup {NotANumber}
Entries == [command : Command \cup {Blank}, enabled : BOOLEAN, delay : Delay]

ASSUME ListAssumption == /\ Blank \notin Command /\ Typed \subseteq Command /\ NewDelay \in Nat
                         /\ MaxRows \in Nat /\ MaxEdits \in Nat /\ MaxLoads \in Nat

ASSUME ScriptAssumption == /\ NotANumber \notin Int
                           /\ Broken \notin Entries /\ Broken \notin Seq(Entries \cup {Broken})
                           /\ \A s \in Script : s \in Seq(Entries \cup {Broken})

VARIABLES
    rows,         \* the rows of the model, with the send button of each
    selected,     \* selected row numbers
    select_all,   \* the tristate box: "none", "some" or "all"
    send_enabled, \* _send_enabled
    plan,         \* row numbers of the run in progress, {} when there is none
    load_worker,  \* _load_worker, 0 for None
    loader,       \* thread -> where it is
    target,       \* thread -> the script it reads, or Own
    loaded,       \* load_finished and load_failed in the GUI event queue
    file,         \* the file scripts are saved to
    saving,       \* the GUI thread has opened the file and not written it yet
    alive,        \* no QThread was destroyed while it ran
    edits         \* bounded count

rowVars == <<rows, selected, select_all, send_enabled>>
loadVars == <<load_worker, loader, target, loaded>>
fileVars == <<file, saving>>
listVars == <<rowVars, plan, loadVars, fileVars, alive, edits>>

Loads == 1..MaxLoads
None == 0

-----------------------------------------------------------------------------
(* Rows *)

\* update_select_all_state
BoxOf(rs) == IF \A i \in DOMAIN rs : ~rs[i].enabled THEN "none"
             ELSE IF \A i \in DOMAIN rs : rs[i].enabled THEN "all" ELSE "some"

\* _set_send_button: the button of a row is made for the number the row has now.
Button(i) == [row |-> i, armed |-> send_enabled]

\* _refresh_send_buttons
RefreshNothing(rs) == rs                                   \* mutant: buttons not renewed
RefreshSendButtons(rs) == [i \in DOMAIN rs |-> [rs[i] EXCEPT !.button = Button(i)]]

\* _insert_row: only the new row gets a button.
InsertRow(rs, i, command, enabled, delay) ==
    InsertAt(rs, i, [command |-> command, enabled |-> enabled, delay |-> delay,
                     button |-> Button(i)])

\* _move_row: take the row out, put it in again.
MoveRow(rs, from, to) == InsertAt(RemoveAt(rs, from), to, rs[from])

\* The selected rows one after the other: from the first to the last, after[n] when row n had
\* its turn, or from the last to the first, when n rows had theirs.
\* move_up_selected_row from above, move_down_selected_row from below.
MovedUpFromBelow(rs, S) ==                                 \* mutant: wrong order
    LET after[n \in 0..Len(rs)] ==
            IF n = 0 THEN rs
            ELSE LET i == Len(rs) + 1 - n
                 IN IF i \in S THEN MoveRow(after[n - 1], i, i - 1) ELSE after[n - 1]
    IN after[Len(rs)]
MovedUp(rs, S) ==
    LET after[n \in 0..Len(rs)] ==
            IF n = 0 THEN rs
            ELSE IF n \in S THEN MoveRow(after[n - 1], n, n - 1) ELSE after[n - 1]
    IN after[Len(rs)]
MovedDown(rs, S) ==
    LET after[n \in 0..Len(rs)] ==
            IF n = 0 THEN rs
            ELSE LET i == Len(rs) + 1 - n
                 IN IF i \in S THEN MoveRow(after[n - 1], i, i + 1) ELSE after[n - 1]
    IN after[Len(rs)]

\* remove_selected_rows, from below.
RowsLeft(rs, S) ==
    LET after[n \in 0..Len(rs)] ==
            IF n = 0 THEN rs
            ELSE LET i == Len(rs) + 1 - n
                 IN IF i \in S THEN RemoveAt(after[n - 1], i) ELSE after[n - 1]
    IN after[Len(rs)]

CanMoveUp == selected # {} /\ 1 \notin selected
CanMoveDown == selected # {} /\ Len(rows) \notin selected

-----------------------------------------------------------------------------
(* Scripts *)

DelayOf(text) == IF text = NotANumber THEN 0 ELSE text

\* get_entry_at and MacroEntry.to_dict
ExportText(row) == [command |-> row.command, enabled |-> row.enabled, delay |-> row.delay]
                                                           \* mutant: the text itself
Export(row) ==
    [command |-> row.command, enabled |-> row.enabled, delay |-> DelayOf(row.delay)]

ExportMacros == [i \in DOMAIN rows |-> Export(rows[i])]

\* import_macros makes rows until an element is no object and raises there. Control settings
\* that raise after the list stand for a last element that is no object.
Readable(es) == CHOOSE n \in 0..Len(es) :
                    /\ \A i \in 1..n : es[i] # Broken
                    /\ n < Len(es) => es[n + 1] = Broken

ImportMacros(es) ==
    [i \in 1..Readable(es) |-> [command |-> es[i].command, enabled |-> es[i].enabled,
                                delay |-> DelayOf(es[i].delay), button |-> Button(i)]]

Raises(es) == Readable(es) < Len(es)

-----------------------------------------------------------------------------
(* The user edits the list *)

RowsInit ==
    /\ rows = <<>> /\ selected = {}
    /\ select_all = "none" /\ send_enabled = FALSE

ListInit ==
    /\ RowsInit
    /\ plan = {}
    /\ load_worker = None /\ loaded = <<>>
    /\ loader = [w \in Loads |-> "unused"] /\ target = [w \in Loads |-> Own]
    /\ file = Broken /\ saving = FALSE
    /\ alive = TRUE /\ edits = 0

\* The GUI thread is free to handle an event.
Ready == alive /\ ~saving

Edited == Ready /\ edits < MaxEdits /\ edits' = edits + 1
OnlyList == UNCHANGED <<plan, loadVars, fileVars, alive>>

Select(S) ==
    /\ Ready /\ S # selected
    /\ selected' = S
    /\ UNCHANGED <<rows, select_all, send_enabled, edits>> /\ OnlyList

\* add_macro_row: below the last of the selected rows in the order they were selected,
\* with its options, or at the end.
AddMacroRow ==
    /\ Edited /\ Len(rows) < MaxRows
    /\ \E from \in IF selected = {} THEN {Len(rows)} ELSE selected :
         LET r == IF from > 0 THEN rows[from] ELSE [enabled |-> TRUE, delay |-> NewDelay]
         IN /\ rows' = InsertRow(rows, from + 1, Blank, r.enabled, r.delay)
            /\ selected' = {from + 1}
    /\ select_all' = BoxOf(rows')
    /\ UNCHANGED send_enabled /\ OnlyList

RemoveSelectedRows ==
    /\ Edited /\ selected # {}
    /\ rows' = RefreshSendButtons(RowsLeft(rows, selected))
    /\ selected' = {}
    /\ select_all' = BoxOf(rows')
    /\ UNCHANGED send_enabled /\ OnlyList

\* _restore_selection: selectRow replaces the selection, so the row moved last stays.
MoveUpSelectedRow ==
    /\ Edited /\ CanMoveUp
    /\ rows' = RefreshSendButtons(MovedUp(rows, selected))
    /\ selected' = {Max(selected) - 1}
    /\ UNCHANGED <<select_all, send_enabled>> /\ OnlyList

MoveDownSelectedRow ==
    /\ Edited /\ CanMoveDown
    /\ rows' = RefreshSendButtons(MovedDown(rows, selected))
    /\ selected' = {Min(selected) + 1}
    /\ UNCHANGED <<select_all, send_enabled>> /\ OnlyList

\* on_item_changed: the check box of a row.
BoxAfterItem(rs) == BoxOf(rs)

CheckRow(i) ==
    /\ Edited
    /\ rows' = [rows EXCEPT ![i].enabled = ~@]
    /\ select_all' = BoxAfterItem(rows')
    /\ UNCHANGED <<selected, send_enabled>> /\ OnlyList

EditRow(i) ==
    /\ Edited
    /\ \/ \E c \in Typed \ {rows[i].command} : rows' = [rows EXCEPT ![i].command = c]
       \/ rows[i].delay # NotANumber /\ rows' = [rows EXCEPT ![i].delay = NotANumber]
    /\ UNCHANGED <<selected, select_all, send_enabled>> /\ OnlyList

\* A click leads from "none" over "some" straight to "all", and from "all" to "none".
OnSelectAllChanged ==
    /\ Edited
    /\ rows' = [i \in DOMAIN rows |-> [rows[i] EXCEPT !.enabled = select_all # "all"]]
    /\ select_all' = BoxOf(rows')
    /\ UNCHANGED <<selected, send_enabled>> /\ OnlyList

\* set_controls_enabled of the panel. MainPresenter means to call it whenever a port opens
\* or closes; its own call raises before (see MacroSession).
SetSendEnabled ==
    /\ Edited
    /\ send_enabled' = ~send_enabled
    /\ rows' = [i \in DOMAIN rows |-> [rows[i] EXCEPT !.button.armed = send_enabled']]
    /\ UNCHANGED <<selected, select_all>> /\ OnlyList

-----------------------------------------------------------------------------
(* A run of the list *)

\* on_repeat_start_requested: the checked rows.
\* get_selected_indices
SelectedIndices == {i \in DOMAIN rows : rows[i].enabled}

OnRepeatStart ==
    /\ Ready /\ plan = {}
    /\ plan' = SelectedIndices
    /\ plan' # {}
    /\ UNCHANGED <<rowVars, loadVars, fileVars, alive, edits>>

\* set_current_row replaces the user's selection, by the row that has the number now.
SetCurrentRow(i) == selected' = {i} \cap DOMAIN rows

OnStepStarted ==
    /\ Ready
    /\ \E i \in plan : SetCurrentRow(i)
    /\ UNCHANGED <<rows, select_all, send_enabled, plan, loadVars, fileVars, alive, edits>>

OnMacroFinished ==
    /\ Ready /\ plan # {}
    /\ plan' = {}
    /\ SetCurrentRow(-1)
    /\ UNCHANGED <<rows, select_all, send_enabled, loadVars, fileVars, alive, edits>>

-----------------------------------------------------------------------------
(* Saving and loading *)

\* _save_script_file cuts the file when it opens it, and may fail to write it.
OpenToSave ==
    /\ Ready /\ edits < MaxEdits
    /\ file' = Broken /\ saving' = TRUE
    /\ edits' = edits + 1
    /\ UNCHANGED <<rowVars, plan, loadVars, alive>>

Save ==
    /\ alive /\ saving
    /\ file' \in {ExportMacros, Broken}
    /\ saving' = FALSE
    /\ UNCHANGED <<rowVars, plan, loadVars, alive, edits>>

Running(w) == loader[w] \in {"reading", "emitted"}

\* on_script_load refuses while the thread of the last request runs.
RefusesWhileHeld == load_worker # None                     \* mutant: isRunning() not asked
LoadInProgress == load_worker # None /\ Running(load_worker)

\* The program ends when the last reference to a running QThread goes.
SetLoadWorker(w) ==
    /\ load_worker' = w
    /\ alive' = (load_worker = None \/ ~Running(load_worker))

OnScriptLoad ==
    /\ Ready /\ ~LoadInProgress
    /\ \E w \in Loads : /\ loader[w] = "unused" /\ \A v \in 1..(w-1) : loader[v] # "unused"
                        /\ loader' = [loader EXCEPT ![w] = "reading"]
                        /\ \E s \in Script \cup {Own} : target' = [target EXCEPT ![w] = s]
                        /\ SetLoadWorker(w)
    /\ UNCHANGED <<rowVars, plan, loaded, fileVars, edits>>

\* ScriptLoadWorker.run: what it reads is the file of this moment.
ReadScript(w) ==
    /\ alive /\ loader[w] = "reading"
    /\ loader' = [loader EXCEPT ![w] = "emitted"]
    /\ loaded' = Append(loaded, IF target[w] = Own THEN file ELSE target[w])
    /\ UNCHANGED <<rowVars, plan, load_worker, target, fileVars, alive, edits>>

LoaderEnds(w) ==
    /\ alive /\ loader[w] = "emitted"
    /\ loader' = [loader EXCEPT ![w] = "ended"]
    /\ UNCHANGED <<rowVars, plan, load_worker, target, loaded, fileVars, alive, edits>>

\* _on_load_failed
OnLoadFailed ==
    /\ Ready /\ loaded # <<>> /\ Head(loaded) = Broken
    /\ loaded' = Tail(loaded)
    /\ SetLoadWorker(None)
    /\ UNCHANGED <<rowVars, plan, loader, target, fileVars, edits>>

\* A list that raises at its first element leaves the box as it was.
ShowScript(es) ==
    IF es = <<>> THEN UNCHANGED rowVars
    ELSE /\ rows' = ImportMacros(es)
         /\ selected' = {}
         /\ select_all' = IF rows' = <<>> THEN select_all ELSE BoxOf(rows')
         /\ UNCHANGED send_enabled

\* _on_load_success: a script that raises leaves _load_worker as it is.
OnLoadSuccess ==
    /\ Ready /\ loaded # <<>> /\ Head(loaded) # Broken
    /\ loaded' = Tail(loaded)
    /\ ShowScript(Head(loaded))
    /\ IF Raises(Head(loaded)) THEN UNCHANGED <<load_worker, alive>> ELSE SetLoadWorker(None)
    /\ UNCHANGED <<plan, loader, target, fileVars, edits>>

ListNext ==
    \/ \E S \in SUBSET DOMAIN rows : Select(S)
    \/ \E i \in DOMAIN rows : CheckRow(i) \/ EditRow(i)
    \/ AddMacroRow \/ RemoveSelectedRows \/ MoveUpSelectedRow \/ MoveDownSelectedRow
    \/ OnSelectAllChanged \/ SetSendEnabled
    \/ OnRepeatStart \/ OnStepStarted \/ OnMacroFinished
    \/ OpenToSave \/ Save \/ OnScriptLoad \/ OnLoadFailed \/ OnLoadSuccess
    \/ \E w \in Loads : ReadScript(w) \/ LoaderEnds(w)

ListSpec == ListInit /\ [][ListNext]_listVars

\* The loading threads run, and the event loop serves what waits.
ListFairSpec ==
    /\ ListSpec
    /\ WF_listVars(\E w \in Loads : ReadScript(w)) /\ WF_listVars(\E w \in Loads : LoaderEnds(w))
    /\ WF_listVars(Save) /\ SF_listVars(OnLoadFailed) /\ SF_listVars(OnLoadSuccess)

-----------------------------------------------------------------------------
(* Properties *)

Rows == [command : Command \cup {Blank}, enabled : BOOLEAN, delay : Delay,
         button : [row : Nat \ {0}, armed : BOOLEAN]]
Scripts == Seq(Entries \cup {Broken}) \cup {Broken}

ListTypeOK ==
    /\ rows \in Seq(Rows)
    /\ selected \subseteq DOMAIN rows /\ plan \subseteq Nat \ {0}
    /\ select_all \in {"none", "some", "all"} /\ send_enabled \in BOOLEAN
    /\ load_worker \in 0..MaxLoads
    /\ loader \in [Loads -> {"unused", "reading", "emitted", "ended"}]
    /\ target \in [Loads -> Script \cup {Own}]
    /\ loaded \in Seq(Scripts) /\ file \in Scripts
    /\ alive \in BOOLEAN /\ saving \in BOOLEAN /\ edits \in 0..MaxEdits

\* The select-all box says what the rows say, whatever was added, removed, moved, checked
\* or loaded; only a script that raises at its first element leaves an empty list under an
\* old box (update_select_all_state, on_item_changed, import_macros).
SelectAllShows == rows # <<>> => select_all = BoxOf(rows)

\* Removing, moving and loading rows gives every row a button that sends this row. Adding
\* one above others does not, so a button may send a row above its own, but never one below
\* or one that is not there (_refresh_send_buttons, _insert_row, _on_send_clicked).
ButtonsRenewed ==
    [][/\ \A i \in DOMAIN rows' : rows'[i].button.row <= i
       /\ Len(rows') <= Len(rows) /\ [i \in DOMAIN rows' |-> rows'[i].command]
                                     # [i \in DOMAIN rows |-> rows[i].command]
          => \/ \A i \in DOMAIN rows' : rows'[i].button.row = i
             \/ \A i \in DOMAIN rows : rows'[i].button = rows[i].button]_rows

\* moved has each row of rs once: those of S by d further, the others in their order.
Shifted(rs, S, moved, d) ==
    \E from \in [DOMAIN rs -> DOMAIN rs] :
        /\ IsInjective(from)
        /\ moved = [i \in DOMAIN rs |-> rs[from[i]]]
        /\ \A i \in S : from[i + d] = i
        /\ \A i, j \in DOMAIN rs :
              i < j /\ from[i] \notin S /\ from[j] \notin S => from[i] < from[j]

\* Moving several rows, adjacent or not, moves each by one and leaves the others in their
\* order: the rows are taken in the order that keeps the numbers of the rest valid
\* (move_up_selected_row, move_down_selected_row).
MovesSelected ==
    /\ CanMoveUp => Shifted(rows, selected, MovedUp(rows, selected), -1)
    /\ CanMoveDown => Shifted(rows, selected, MovedDown(rows, selected), 1)

\* What moves rows and what ticks them keep the list and its select-all box together.
EditsKeepList == MovesSelected /\ SelectAllShows

\* A list that is saved can be loaded, and what is loaded is saved again as it was: the only
\* loss is at the first save, of delays that are no numbers (export_macros, import_macros).
ScriptRoundTrip ==
    LET es == ExportMacros
        again == ImportMacros(es)
    IN /\ Len(again) = Len(rows)
       /\ \A i \in DOMAIN rows :
            /\ again[i].command = rows[i].command /\ again[i].enabled = rows[i].enabled
            /\ again[i].delay \in Int
            /\ rows[i].delay \in Int => again[i].delay = rows[i].delay
            /\ Export(again[i]) = es[i]

\* However a load ends, with a list, an error box or an exception in the middle of the list,
\* another one can be asked for (on_script_load, _on_load_success, _on_load_failed).
LoaderRecovers == alive ~> (~alive \/ ~LoadInProgress)

=============================================================================
