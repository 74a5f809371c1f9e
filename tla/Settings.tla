------------------------------ MODULE Settings ------------------------------
(***************************************************************************)
(* The settings file of core/settings_manager.py.  A document is a record  *)
(* of a version, whether it satisfies the schema, and a value or None for  *)
(* every key.  Writing is two steps, as in the code: the file is opened    *)
(* and thereby emptied (Torn), then the document is dumped into it; either *)
(* may fail and the program may be killed between them.                    *)
(***************************************************************************)
EXTENDS Naturals

CONSTANTS
    None,           \* an absent key
    Edit            \* the documents a user or another version may leave
Key == {"theme", "language", "echo", "size", "shown", "splitter", "saved_width", "right_width",
        "rx_max_lines", "max_log_lines", "manual"}
\* the renamings of _migrate_settings a document of the model can need
OldName == [right_width |-> "saved_width", max_log_lines |-> "rx_max_lines"]
Lines == 2000
NoManual == [text |-> "", broadcast |-> FALSE, echo |-> FALSE]

Doc(current, valid, at) == [current |-> current, valid |-> valid, at |-> at]
Fallback == Doc(TRUE, TRUE, [k \in Key |->
    CASE k = "shown" -> TRUE [] k = "max_log_lines" -> Lines [] k = "manual" -> NoManual [] OTHER -> None])

VARIABLES
    file,           \* settings.json: [kind |-> "missing"|"torn"|"list"] or kind "doc" with the document
    backup,         \* settings.json.bak: a document or None
    settings,       \* SettingsManager.settings: key -> value
    reset,          \* config_was_reset
    save,           \* what _save_to_file is writing, and what follows it
    written         \* the last document that got to the disk in one piece, before its migration

settingsVars == <<file, backup, settings, reset, save, written>>

Missing == [kind |-> "missing"]
Torn == [kind |-> "torn"]
NotObject == [kind |-> "list"]
File(d) == [kind |-> "doc", doc |-> d]
NoSave == [then |-> "none"]
Saving(d, then) == [doc |-> d, open |-> FALSE, then |-> then]

\* _migrate_settings: an old name is removed; its value goes to a new name that has none
\* mutant: the value of the old name replaces the one of the new name
MigratedOver(d) == Doc(TRUE, d.valid, [k \in Key |->
    IF k \in {OldName[n] : n \in DOMAIN OldName} THEN None
    ELSE IF k \in DOMAIN OldName /\ d.at[OldName[k]] # None THEN d.at[OldName[k]]
    ELSE d.at[k]])
Migrated(d) == Doc(TRUE, d.valid, [k \in Key |->
    IF k \in {OldName[n] : n \in DOMAIN OldName} THEN None
    ELSE IF k \in DOMAIN OldName /\ d.at[k] = None THEN d.at[OldName[k]]
    ELSE d.at[k]])

\* _merge_settings into a copy of the fallback settings
Merged(d) == [k \in Key |-> IF d.at[k] # None THEN d.at[k] ELSE Fallback.at[k]]
Get(k, default) == IF settings[k] # None THEN settings[k] ELSE default

SettingsInit ==
    /\ \/ \E d \in Edit : file = File(d) /\ written = d
       \/ file = Missing /\ written = Fallback
    /\ backup = None /\ settings = Fallback.at /\ reset = FALSE /\ save = NoSave

StartSave(d, then) == save' = Saving(d, then)

\* open(config_path, 'w') empties the file
OpenFile ==
    /\ save.then # "none" /\ ~save.open
    /\ file' = Torn /\ save' = [save EXCEPT !.open = TRUE]
    /\ UNCHANGED <<backup, settings, reset, written>>

\* json.dump, and the file is closed
DumpFile ==
    /\ save.then # "none" /\ save.open
    /\ file' = File(save.doc) /\ save' = NoSave
    /\ written' = IF save.then = "validate" THEN written ELSE save.doc
    /\ reset' = (reset \/ save.then = "reset")
    /\ UNCHANGED <<backup, settings>>

\* open or the writing raises OSError: save_settings swallows it, load_settings gives up the document
WriteFails ==
    /\ save.then # "none"
    /\ save' = NoSave
    /\ settings' = IF save.then = "validate" THEN Fallback.at ELSE settings
    /\ reset' = (reset \/ save.then \in {"reset", "validate"})
    /\ UNCHANGED <<file, backup, written>>

\* load_settings up to the first thing it writes
LoadUnreadable ==
    /\ file.kind \in {"missing", "torn"}
    /\ settings' = Fallback.at /\ StartSave(Fallback, "reset")
    /\ UNCHANGED <<file, backup, reset, written>>
LoadNotObject ==
    /\ file.kind = "list"
    /\ settings' = Fallback.at /\ reset' = TRUE
    /\ UNCHANGED <<file, backup, save, written>>
LoadOld ==
    /\ file.kind = "doc" /\ ~file.doc.current
    /\ StartSave(Migrated(file.doc), "validate")
    /\ UNCHANGED <<file, backup, settings, reset, written>>
LoadCurrent ==
    /\ file.kind = "doc" /\ file.doc.current
    /\ UNCHANGED settingsVars

Accept ==
    /\ file.doc.valid
    /\ settings' = Merged(file.doc) /\ reset' = FALSE
    /\ UNCHANGED <<file, backup, save, written>>
\* the rename may fail, and is ignored then: a backup is there already and the system does not replace it
Reject ==
    /\ ~file.doc.valid
    /\ settings' = Fallback.at /\ StartSave(Fallback, "reset")
    /\ \/ file' = Missing /\ backup' = file.doc
       \/ backup # None /\ UNCHANGED <<file, backup>>
    /\ UNCHANGED <<reset, written>>
=============================================================================
