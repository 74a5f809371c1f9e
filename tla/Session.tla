------------------------------ MODULE Session -------------------------------
(***************************************************************************)
(* A user's sessions with the program: main.py and                         *)
(* presenter/lifecycle_manager.py start it from the settings file,         *)
(* main_presenter.py saves the preferences, the fonts and, at the end, the *)
(* state of the window.  Saving the preferences publishes an event whose   *)
(* handler saves the preferences: the calls nest until the interpreter's   *)
(* stack ends (Depth), which may be in the middle of a write.  The program *)
(* may be killed at any step and a write may fail.                         *)
(***************************************************************************)
EXTENDS Settings, Appearance, ManualControl

CONSTANTS
    Depth,          \* nested calls of the handler the stack has room for
    Width,          \* widths the user gives the right section
    Size,           \* font sizes the user chooses
    MaxStarts, MaxActs, MaxSends, MaxFaults       \* bounds of the runs

\* The stack has room for two calls: with one, the echo of the preferences could be saved and
\* not be in force.  A width that is given is not the mark of an absent one.
ASSUME SessionAssumption ==
    /\ Depth \in Nat \ {0, 1} /\ {"dark", "light"} \subseteq Themes
    /\ "en" \in Language /\ Width \subseteq Nat \ {0}
\* What the schema does not look at has the types the program writes.
ASSUME DocumentsAssumption ==
    /\ None \notin BOOLEAN \cup Nat \cup ManualState
    /\ \A d \in Edit : /\ d.current \in BOOLEAN /\ d.valid \in BOOLEAN
                       /\ d.at["echo"] \in BOOLEAN \cup {None} /\ d.at["shown"] \in BOOLEAN \cup {None}
                       /\ d.at["manual"] \in ManualState \cup {None}

VARIABLES
    pc,             \* what the GUI thread is doing
    level,          \* nested calls of on_settings_change_requested
    pref,           \* their argument
    alert,          \* the "Settings Reset" message was shown
    left,           \* what the user saw when the last session ended as it should, or None
    starts, acts, faults

lifeVars == <<pc, level, pref, alert, left, starts, acts, faults>>
vars == <<settingsVars, appearanceVars, manualVars, lifeVars>>

NoPref == [echo |-> FALSE]
Init ==
    /\ SettingsInit /\ AppearanceInit /\ ManualInit
    /\ pc = "off" /\ level = 0 /\ pref = NoPref /\ alert = FALSE /\ left = None
    /\ starts = 0 /\ acts = 0 /\ faults = 0

\* main: the managers are made, the settings first
Launch ==
    /\ pc = "off" /\ starts < MaxStarts
    /\ starts' = starts + 1
    /\ \/ LoadUnreadable /\ pc' = "saving"
       \/ LoadNotObject /\ pc' = "start"
       \/ LoadOld /\ pc' = "saving"
       \/ LoadCurrent /\ pc' = "validate"
    /\ UNCHANGED <<appearanceVars, manualVars, level, pref, alert, left, acts, faults>>

Validate ==
    /\ pc = "validate"
    /\ \/ Accept /\ pc' = "start"
       \/ Reject /\ pc' = "saving"
    /\ UNCHANGED <<appearanceVars, manualVars, level, pref, alert, left, starts, acts, faults>>

\* get_window_state: the width of a hidden section is that of the last time it was hidden
WindowWidth == IF shown THEN width ELSE savedWidth

\* what follows a write
After == [reset |-> "start", validate |-> "validate", prefs |-> "apply", font |-> "running", close |-> "exit"]
Open ==
    /\ pc = "saving" /\ OpenFile
    /\ left' = None
    /\ UNCHANGED <<appearanceVars, manualVars, pc, level, pref, alert, starts, acts, faults>>
Dump ==
    /\ pc = "saving" /\ DumpFile
    /\ pc' = After[save.then]
    /\ left' = IF save.then = "close"
               THEN [panel |-> [panel EXCEPT !.echo = flag], shown |-> shown, width |-> WindowWidth] ELSE None
    /\ UNCHANGED <<appearanceVars, manualVars, level, pref, alert, starts, acts, faults>>
Fail ==
    /\ pc = "saving" /\ faults < MaxFaults /\ WriteFails
    /\ pc' = IF save.then = "validate" THEN "start" ELSE After[save.then]
    /\ faults' = faults + 1
    /\ UNCHANGED <<appearanceVars, manualVars, level, pref, alert, left, starts, acts>>

\* the window and the presenters are made, and the alert is shown when the settings were not taken
Start ==
    /\ pc = "start" /\ pc' = "running"
    /\ alert' = reset
    /\ NewWindow(Get("theme", "dark"), Get("language", "en"), Get("size", 9), Get("shown", TRUE),
                 Get("splitter", NoWidth), Get("saved_width", NoWidth))
    /\ NewPanel(Get("manual", Off), Get("echo", FALSE))
    /\ UNCHANGED <<settingsVars, level, pref, left, starts, acts, faults>>

Act == pc = "running" /\ acts < MaxActs /\ acts' = acts + 1 /\ UNCHANGED <<starts, faults>>

UseWindow ==
    /\ Act /\ UNCHANGED <<settingsVars, manualVars, pc, level, pref, alert, left>>
    /\ \/ \E t \in Themes : MenuTheme(t)
       \/ \E l \in Language : MenuLanguage(l)
       \/ \E m \in BOOLEAN : ToggleRightSection(m)
       \/ \E w \in Width : DragSection(w)
UsePanel ==
    /\ Act /\ UNCHANGED <<settingsVars, appearanceVars, pc, level, pref, alert, left>>
    /\ \/ \E c \in Command : Type(c)
       \/ \E b \in {"broadcast", "echo"} : ToggleBox(b)
       \/ HistoryUp
       \/ HistoryDown
SendCommand ==
    /\ pc = "running" /\ Len(sent) < MaxSends
    /\ \E valid \in BOOLEAN, link \in Link : Send(valid, link)
    /\ UNCHANGED <<settingsVars, appearanceVars, lifeVars>>

\* FontSettingsDialog starts from the font shown, as its boxes can show it, or is reset to 9; OK applies
\* the fonts and saves them, Apply and Cancel only applies them
Clamp(n, low, high) == IF n < low THEN low ELSE IF n > high THEN high ELSE n
FontChoices == {font, 9} \cup Size
AcceptFont ==
    /\ Act /\ pc' = "saving"
    /\ \E n \in FontChoices : LET s == Clamp(n, 6, 16) IN
           /\ SetFont(s)
           /\ settings' = [settings EXCEPT !["size"] = s]
           /\ StartSave(Doc(TRUE, TRUE, settings'), "font")
    /\ UNCHANGED <<file, backup, reset, written, theme, rules, colorFile, language, mark, shown, shownMark, width, savedWidth, switched,
                   manualVars, level, pref, alert, left>>
ApplyFont ==
    /\ Act
    /\ \E n \in FontChoices : SetFont(Clamp(n, 6, 16))
    /\ UNCHANGED <<settingsVars, theme, rules, colorFile, language, mark, shown, shownMark, width, savedWidth, switched,
                   manualVars, pc, level, pref, alert, left>>

\* PreferencesDialog shows the settings as its widgets can, and OK returns what they show
Dialog == [theme |-> IF Get("theme", "dark") \in Themes THEN Get("theme", "dark") ELSE Theme[1],
           language |-> IF Get("language", "en") \in Language THEN Get("language", "en") ELSE CHOOSE l \in Language : TRUE,
           size |-> Clamp(Get("size", 10), 8, 24),
           echo |-> Get("echo", FALSE)]
Chosen == {Dialog, [Dialog EXCEPT !.echo = ~@]}
          \cup {[Dialog EXCEPT !.theme = t] : t \in Themes}
          \cup {[Dialog EXCEPT !.language = l] : l \in Language}
          \cup {[Dialog EXCEPT !.size = Clamp(n, 8, 24)] : n \in Size}
Preferences ==
    /\ Act /\ pc' = "setting" /\ level' = 1
    /\ pref' \in Chosen
    /\ UNCHANGED <<settingsVars, appearanceVars, manualVars, alert, left>>

\* on_settings_change_requested: set and save, apply, publish
SetSettings ==
    /\ pc = "setting" /\ pc' = "saving"
    /\ settings' = [k \in Key |-> IF k \in DOMAIN pref THEN pref[k] ELSE settings[k]]
    /\ StartSave(Doc(TRUE, TRUE, settings'), "prefs")
    /\ UNCHANGED <<file, backup, reset, written, appearanceVars, manualVars, level, pref, alert, left, starts, acts, faults>>
ApplySettings ==
    /\ pc = "apply" /\ pc' = "publish"
    /\ SwitchTheme(pref.theme)
    /\ language' = NewLanguage(pref.language)
    /\ MenuAfter(pref.language, pref.theme)
    /\ EchoSetting(pref.echo)
    /\ UNCHANGED <<settingsVars, colorFile, font, shown, width, savedWidth, history, index, sent, said,
                   level, pref, alert, left, starts, acts, faults>>
\* the event's subscriber emits the signal this handler is connected to
PublishSettings ==
    /\ pc = "publish" /\ level < Depth
    /\ pc' = "setting" /\ level' = level + 1
    /\ UNCHANGED <<settingsVars, appearanceVars, manualVars, pref, alert, left, starts, acts, faults>>
\* RecursionError anywhere in the innermost call: it stops there, and all the others return
StackEnds ==
    /\ level = Depth
    /\ \/ pc \in {"setting", "apply", "publish"}
       \/ pc = "saving" /\ save.then = "prefs"
    /\ pc' = "running" /\ level' = 0 /\ save' = NoSave /\ pref' = NoPref
    /\ UNCHANGED <<file, backup, settings, reset, written, appearanceVars, manualVars, alert, left, starts, acts, faults>>

\* on_close_requested
Close ==
    /\ pc = "running" /\ pc' = "saving"
    /\ settings' = [settings EXCEPT !["shown"] = shown, !["manual"] = State, !["splitter"] = width,
                       !["saved_width"] = IF WindowWidth # NoWidth THEN WindowWidth ELSE @]
    /\ StartSave(Doc(TRUE, TRUE, settings'), "close")
    /\ UNCHANGED <<file, backup, reset, written, appearanceVars, manualVars, level, pref, alert, left, starts, acts, faults>>

\* what only the process has is gone with it
Gone ==
    /\ pc' = "off" /\ level' = 0 /\ pref' = NoPref /\ alert' = FALSE
    /\ settings' = Fallback.at /\ reset' = FALSE /\ save' = NoSave
    /\ theme' = "dark" /\ rules' = <<>> /\ language' = "en" /\ font' = 9 /\ sheet' = Sheet("dark", 9) /\ mark' = "dark"
    /\ shown' = TRUE /\ shownMark' = TRUE /\ width' = EvenWidth /\ savedWidth' = NoWidth /\ switched' = FALSE
    /\ panel' = Off /\ flag' = FALSE /\ history' = <<>> /\ index' = 0 /\ sent' = <<>> /\ said' = Unsaid
    /\ UNCHANGED <<file, backup, written, colorFile, left, starts, acts>>

\* the connections are closed, the event loop ends
Exit == pc = "exit" /\ Gone /\ UNCHANGED faults

\* the program is killed
Crash == pc \notin {"off", "exit"} /\ faults < MaxFaults /\ faults' = faults + 1 /\ Gone

\* the user, or another version of the program, changes the file between two sessions
EditFile ==
    /\ pc = "off" /\ starts > 0 /\ faults < MaxFaults
    /\ faults' = faults + 1
    /\ \/ \E d \in Edit : file' = File(d) /\ written' = d
       \/ file' \in {Torn, NotObject, Missing} /\ UNCHANGED written
    /\ left' = None
    /\ UNCHANGED <<backup, settings, reset, save, appearanceVars, manualVars, pc, level, pref, alert, starts, acts>>

Next ==
    \/ Launch \/ Validate \/ Open \/ Dump \/ Fail \/ Start
    \/ UseWindow \/ UsePanel \/ SendCommand \/ AcceptFont \/ ApplyFont \/ Preferences
    \/ SetSettings \/ ApplySettings \/ PublishSettings \/ StackEnds
    \/ Close \/ Exit \/ Crash \/ EditFile

-----------------------------------------------------------------------------
(***************************************************************************)
(* A start takes the settings from the last document a session, an older   *)
(* version or the user left in one piece, every value under its new name   *)
(* if it has one, or the user is told that they were reset, whatever was   *)
(* killed or failed before.  (The defaults of a reset count as left once   *)
(* they are on the disk: killed before the message, they stay in silence.) *)
(***************************************************************************)
Known(d, k) ==
    CASE d.at[k] # None /\ (d.current \/ k \notin {OldName[n] : n \in DOMAIN OldName}) -> d.at[k]
      [] ~d.current /\ d.at[k] = None /\ k \in DOMAIN OldName /\ d.at[OldName[k]] # None -> d.at[OldName[k]]
      [] OTHER -> Fallback.at[k]
LossIsReported == [][(pc = "start" /\ pc' = "running" /\ ~alert') => \A k \in Key : settings'[k] = Known(written, k)]_vars

(***************************************************************************)
(* What the user left when the state of the window was saved at the end of *)
(* a session is what the next session begins with: the command typed, its  *)
(* boxes, the local echo that was in force, the right section, shown in    *)
(* its width or hidden with the width it will be shown in.  (One that was  *)
(* hidden while the window was maximized has no width of its own.)         *)
(***************************************************************************)
ComesBack == [][(pc = "start" /\ pc' = "running" /\ left # None) =>
    /\ panel' = left.panel /\ shown' = left.shown
    /\ left.shown => width' = left.width
    /\ ~left.shown /\ left.width # NoWidth => savedWidth' = left.width]_vars

(***************************************************************************)
(* The local echo in force is the saved setting whenever the program is at *)
(* rest, whatever the nested handlers of the preferences were doing when   *)
(* their stack ended, and a command is echoed only then.                   *)
(***************************************************************************)
EchoFollows == [][(pc' = "running" => flag' = (settings'["echo"] = TRUE))
    /\ (sent' # sent /\ said'.echoed => settings["echo"] = TRUE /\ said'.counted)]_vars

(***************************************************************************)
(* The theme the menu checks is the one shown, also after the menu was     *)
(* rebuilt in another language, and every colour rule shows the colour it  *)
(* has for that theme from the first switch of a session on; until then it *)
(* shows the dark one, since a start colours for a dark theme whichever is *)
(* shown.  The style sheet has the font shown.                             *)
(***************************************************************************)
AppearanceAgrees == pc = "running" =>
    /\ mark = theme /\ sheet = Sheet(theme, font)
    /\ \A i \in DOMAIN rules :
          LET shade == IF switched THEN theme ELSE "dark"
              own == IF shade = "light" THEN rules[i].light ELSE rules[i].dark
          IN  own # "" => rules[i].color = own

(***************************************************************************)
(* The history holds the last commands of this session, each once, in the  *)
(* order of their last use; a command of the session it does not hold was  *)
(* last used before all it holds, and it is full then.  The entry shown is *)
(* one of them.                                                            *)
(***************************************************************************)
UsedAfter(c, d) == \E j \in DOMAIN sent : sent[j] = d /\ \A i \in DOMAIN sent : sent[i] = c => i < j
HistoryRecent ==
    /\ Range(history) \subseteq Range(sent) /\ Len(history) <= MaxHistory
    /\ \A i, j \in DOMAIN history : i < j => UsedAfter(history[i], history[j])
    /\ \A c \in Range(sent) \ Range(history) :
          Len(history) = MaxHistory /\ \A i \in DOMAIN history : UsedAfter(c, history[i])
    /\ index \in 0..Len(history)

Spec == Init /\ [][Next]_vars
=============================================================================
