--------------------------- MODULE SessionProofs ---------------------------
(***************************************************************************)
(* Proofs about Session, for any documents, any stack of two calls or more *)
(* and any number of starts, actions, commands and faults.                 *)
(***************************************************************************)
EXTENDS Session, SequenceTheorems, WellFoundedInduction, TLAPS

Then == {"reset", "validate", "prefs", "font", "close"}

SaveOK ==
    /\ \/ save = NoSave
       \/ save.then \in Then /\ save = [doc |-> save.doc, open |-> save.open, then |-> save.then]
    /\ pc # "saving" <=> save = NoSave
    /\ pc \in {"off", "validate", "start", "running", "exit", "saving", "setting", "apply", "publish"}

\* What a save becomes.
LEMMA SaveSteps ==
    /\ NoSave.then = "none" /\ \A t \in Then : t # "none"
    /\ \A d, t : /\ Saving(d, t).doc = d /\ Saving(d, t).open = FALSE /\ Saving(d, t).then = t
                 /\ Saving(d, t) = [doc |-> d, open |-> FALSE, then |-> t]
                 /\ Saving(d, t) = NoSave => t = "none"
  BY DEF NoSave, Saving, Then

\* Nothing is being saved.
LEMMA NotSaving ==
    ASSUME NEW p \in {"off", "validate", "start", "running", "exit", "setting", "apply", "publish"},
           save' = NoSave, pc' = p
    PROVE  SaveOK'
<1>1. p # "saving"
  OBVIOUS
<1> QED
  BY <1>1 DEF SaveOK

LEMMA SaveInit == Init => SaveOK
<1> SUFFICES ASSUME Init PROVE SaveOK
  OBVIOUS
<1>1. pc = "off" /\ save = NoSave
  BY DEF Init, SettingsInit
<1> QED
  BY <1>1 DEF SaveOK

LEMMA SaveStep == SaveOK /\ [Next]_vars => SaveOK'
<1> SUFFICES ASSUME SaveOK, [Next]_vars PROVE SaveOK'
  OBVIOUS
<1>1. CASE Launch
  BY <1>1, SaveSteps DEF Launch, SaveOK, LoadUnreadable, LoadNotObject, LoadOld, LoadCurrent, StartSave, settingsVars, Then
<1>2. CASE Validate
  BY <1>2, SaveSteps DEF Validate, SaveOK, Accept, Reject, StartSave, Then
<1>3. CASE Open
  <2>1. /\ pc = "saving" /\ pc' = pc /\ save' = [save EXCEPT !.open = TRUE]
        /\ save = [doc |-> save.doc, open |-> save.open, then |-> save.then] /\ save.then \in Then
    BY <1>3 DEF Open, OpenFile, SaveOK
  <2>2. save' = [doc |-> save.doc, open |-> TRUE, then |-> save.then]
    BY <2>1
  <2>3. save'.doc = save.doc /\ save'.open = TRUE /\ save'.then = save.then
    BY <2>2
  <2> QED
    BY <2>1, <2>2, <2>3, SaveSteps DEF SaveOK
<1>4. CASE Dump
  <2>1. save' = NoSave /\ save.then \in Then /\ pc' = After[save.then]
    BY <1>4 DEF Dump, DumpFile, SaveOK
  <2> QED
    BY <2>1, NotSaving DEF Then, After
<1>5. CASE Fail
  <2>1. /\ save' = NoSave /\ save.then \in Then
        /\ pc' = IF save.then = "validate" THEN "start" ELSE After[save.then]
    BY <1>5 DEF Fail, WriteFails, SaveOK
  <2> QED
    BY <2>1, NotSaving DEF Then, After
<1>6. CASE Start
  BY <1>6 DEF Start, SaveOK, settingsVars
<1>7. CASE UseWindow \/ UsePanel \/ SendCommand \/ ApplyFont
  BY <1>7 DEF UseWindow, UsePanel, SendCommand, ApplyFont, Act, SaveOK, settingsVars, lifeVars
<1>8. CASE AcceptFont
  <2>1. PICK d : save' = Saving(d, "font") /\ pc' = "saving"
    BY <1>8 DEF AcceptFont, StartSave
  <2> QED
    BY <2>1, SaveSteps DEF SaveOK, Then
<1>9. CASE Preferences
  BY <1>9 DEF Preferences, Act, SaveOK, settingsVars
<1>10. CASE SetSettings
  BY <1>10, SaveSteps DEF SetSettings, SaveOK, StartSave, Then
<1>11. CASE ApplySettings \/ PublishSettings
  BY <1>11 DEF ApplySettings, PublishSettings, SaveOK, settingsVars
<1>12. CASE StackEnds
  BY <1>12, NotSaving DEF StackEnds
<1>13. CASE Close
  BY <1>13, SaveSteps DEF Close, SaveOK, StartSave, Then
<1>14. CASE Exit \/ Crash
  BY <1>14, NotSaving DEF Exit, Crash, Gone
<1>15. CASE EditFile
  BY <1>15 DEF EditFile, SaveOK
<1>16. CASE UNCHANGED vars
  BY <1>16 DEF vars, settingsVars, lifeVars, SaveOK
<1> QED
  BY <1>1, <1>2, <1>3, <1>4, <1>5, <1>6, <1>7, <1>8, <1>9, <1>10, <1>11, <1>12, <1>13, <1>14, <1>15, <1>16 DEF Next

-----------------------------------------------------------------------------
(* The settings a start takes *)

\* What a document that needs no migration says is what is known of the last one written; one
\* that needs it is that document.
IsKnown(at, d) == \A k \in Key : at[k] = Known(d, k)
Tells(d) == /\ d.current \in BOOLEAN /\ d.valid \in BOOLEAN
            /\ IF d.current THEN IsKnown(Merged(d), written) ELSE d = written
FileTells == file.kind = "doc" => Tells(file.doc)
SaveTells ==
    pc = "saving" => /\ save.doc.current = TRUE /\ save.doc.valid \in BOOLEAN
                     /\ save.then = "validate" => Tells(save.doc)
StartTells ==
    /\ pc = "validate" => file.kind = "doc" /\ file.doc.current
    /\ pc = "start" /\ ~reset => IsKnown(settings, written)
LossInv == FileTells /\ SaveTells /\ StartTells

LEMMA CurrentIsKnown ==
    ASSUME NEW d, d.current
    PROVE  IsKnown(Merged(d), d)
  BY DEF Merged, Known, IsKnown

LEMMA MigratedIsKnown ==
    ASSUME NEW d, ~d.current
    PROVE  /\ IsKnown(Merged(Migrated(d)), d)
           /\ Migrated(d).current = TRUE /\ Migrated(d).valid = d.valid
<1>1. \A k \in Key : Migrated(d).at[k] =
        IF k \in {"saved_width", "rx_max_lines"} THEN None
        ELSE IF k = "right_width" /\ d.at[k] = None THEN d.at["saved_width"]
        ELSE IF k = "max_log_lines" /\ d.at[k] = None THEN d.at["rx_max_lines"]
        ELSE d.at[k]
  BY DEF Migrated, Doc, OldName
<1>2. \A k \in Key : Known(d, k) =
        IF k \in {"saved_width", "rx_max_lines"} THEN Fallback.at[k]
        ELSE IF d.at[k] # None THEN d.at[k]
        ELSE IF k = "right_width" /\ d.at["saved_width"] # None THEN d.at["saved_width"]
        ELSE IF k = "max_log_lines" /\ d.at["rx_max_lines"] # None THEN d.at["rx_max_lines"]
        ELSE Fallback.at[k]
  BY DEF Known, OldName
<1>3. \A k \in Key : Merged(Migrated(d))[k] = Known(d, k)
  BY <1>1, <1>2 DEF Merged
<1> QED
  BY <1>3 DEF IsKnown, Migrated, Doc

LEMMA LossInit == Init => LossInv
<1> SUFFICES ASSUME Init PROVE LossInv
  OBVIOUS
<1>1. SaveTells /\ StartTells
  <2>1. pc = "off" 
    BY DEF Init, SettingsInit
  <2> QED
    BY <2>1 DEF SaveTells, StartTells
<1>2. CASE file = Missing
  BY <1>1, <1>2 DEF LossInv, FileTells, Missing
<1>3. CASE \E d \in Edit : file = File(d) /\ written = d
  BY <1>1, <1>3, CurrentIsKnown, DocumentsAssumption DEF LossInv, FileTells, Tells, File
<1> QED
  BY <1>2, <1>3 DEF Init, SettingsInit

LEMMA LossStep == SaveOK /\ LossInv /\ [Next]_vars => LossInv'
<1> SUFFICES ASSUME SaveOK, LossInv, [Next]_vars PROVE LossInv'
  OBVIOUS
<1> USE SaveSteps
<1>1. CASE Launch
  <2>0. pc = "off" /\ file' = file /\ written' = written
    BY <1>1 DEF Launch, LoadUnreadable, LoadNotObject, LoadOld, LoadCurrent, settingsVars
  <2>1. CASE LoadUnreadable /\ pc' = "saving"
    BY <2>0, <2>1 DEF LossInv, FileTells, Tells, SaveTells, StartTells, LoadUnreadable, StartSave, Fallback, Doc
  <2>2. CASE LoadNotObject /\ pc' = "start"
    BY <2>0, <2>2 DEF LossInv, FileTells, Tells, SaveTells, StartTells, LoadNotObject
  <2>3. CASE LoadOld /\ pc' = "saving"
    <3>1. file.doc = written /\ ~written.current /\ written.valid \in BOOLEAN
      BY <2>3 DEF LoadOld, LossInv, FileTells, Tells
    <3>2. save'.doc = Migrated(written)
      BY <2>3, <3>1 DEF LoadOld, StartSave
    <3>3. save'.doc.current = TRUE /\ save'.doc.valid \in BOOLEAN /\ IsKnown(Merged(save'.doc), written')
      <4>1. /\ IsKnown(Merged(Migrated(written)), written)
            /\ Migrated(written).current = TRUE /\ Migrated(written).valid = written.valid
        BY <3>1, MigratedIsKnown
      <4> QED
        BY <2>0, <3>1, <3>2, <4>1
    <3>4. SaveTells'
      BY <3>3 DEF SaveTells, Tells
    <3> QED
      BY <2>0, <2>3, <3>4 DEF LossInv, FileTells, Tells, StartTells
  <2>4. CASE LoadCurrent /\ pc' = "validate"
    BY <2>0, <2>4 DEF LossInv, FileTells, Tells, SaveTells, StartTells, LoadCurrent, settingsVars
  <2> QED
    BY <1>1, <2>1, <2>2, <2>3, <2>4 DEF Launch
<1>2. CASE Validate
  <2>1. CASE Accept /\ pc' = "start"
    BY <1>2, <2>1 DEF Validate, LossInv, FileTells, Tells, SaveTells, StartTells, Accept
  <2>2. CASE Reject /\ pc' = "saving"
    <3>1. save'.doc = Fallback /\ save'.then = "reset" /\ Fallback.current = TRUE /\ Fallback.valid = TRUE
      BY <2>2 DEF Reject, StartSave, Fallback, Doc
    <3>2. (file'.kind = "missing" \/ file' = file) /\ written' = written
      BY <2>2 DEF Reject, Missing
    <3> QED
      BY <2>2, <3>1, <3>2 DEF LossInv, FileTells, Tells, SaveTells, StartTells
  <2> QED
    BY <1>2, <2>1, <2>2 DEF Validate
<1>3. CASE Open
  BY <1>3, SaveStep DEF Open, OpenFile, SaveOK, LossInv, FileTells, Tells, SaveTells, StartTells, Torn
<1>4. CASE Dump
  <2>1. /\ pc = "saving" /\ file'.kind = "doc" /\ file'.doc = save.doc /\ pc' = After[save.then] /\ save.then \in Then
        /\ written' = IF save.then = "validate" THEN written ELSE save.doc
        /\ reset' = (reset \/ save.then = "reset") /\ settings' = settings
    BY <1>4 DEF Dump, DumpFile, File, SaveOK
  <2>2. save.doc.current = TRUE /\ save.doc.valid \in BOOLEAN /\ (save.then = "validate" => Tells(save.doc))
    BY <2>1 DEF LossInv, SaveTells
  <2>3. FileTells'
    <3>1. IsKnown(Merged(save.doc), written')
      BY <2>1, <2>2, CurrentIsKnown DEF Tells
    <3> QED
      BY <2>1, <2>2, <3>1 DEF FileTells, Tells
  <2>4. pc' # "saving" /\ (pc' = "validate" => save.then = "validate") /\ (pc' = "start" => save.then = "reset")
    BY <2>1 DEF After, Then
  <2> QED
    BY <2>1, <2>2, <2>3, <2>4 DEF LossInv, SaveTells, StartTells
<1>5. CASE Fail
  <2>1. /\ save.then \in Then /\ UNCHANGED <<file, written>>
        /\ pc' = IF save.then = "validate" THEN "start" ELSE After[save.then]
        /\ reset' = (reset \/ save.then \in {"reset", "validate"})
    BY <1>5 DEF Fail, WriteFails, SaveOK
  <2>2. pc' \notin {"saving", "validate"} /\ (pc' = "start" => reset')
    <3>1. pc' \notin {"saving", "validate"} /\ (pc' = "start" => save.then \in {"reset", "validate"})
      BY <2>1 DEF After, Then
    <3>2. save.then \in {"reset", "validate"} => reset' = TRUE
      BY <2>1
    <3> QED
      BY <3>1, <3>2
  <2> QED
    BY <2>1, <2>2 DEF LossInv, FileTells, Tells, SaveTells, StartTells
<1>6. CASE Start
  BY <1>6 DEF Start, LossInv, FileTells, Tells, SaveTells, StartTells, settingsVars
<1>7. CASE UseWindow \/ UsePanel \/ SendCommand \/ ApplyFont \/ Preferences
  BY <1>7 DEF UseWindow, UsePanel, SendCommand, ApplyFont, Preferences, Act, settingsVars, lifeVars,
              LossInv, FileTells, Tells, SaveTells, StartTells
<1>8. CASE AcceptFont \/ SetSettings \/ Close
  <2>1. PICK then \in {"font", "prefs", "close"} : save' = Saving(Doc(TRUE, TRUE, settings'), then)
    BY <1>8 DEF AcceptFont, SetSettings, Close, StartSave
  <2>2. pc' = "saving" /\ UNCHANGED <<file, written>>
    BY <1>8 DEF AcceptFont, SetSettings, Close
  <2>3. save'.doc.current = TRUE /\ save'.doc.valid = TRUE /\ save'.then # "validate"
    BY <2>1 DEF Doc, Saving
  <2> QED
    BY <2>2, <2>3 DEF LossInv, FileTells, Tells, SaveTells, StartTells
<1>9. CASE ApplySettings \/ PublishSettings \/ StackEnds \/ Exit \/ Crash
  BY <1>9 DEF ApplySettings, PublishSettings, StackEnds, Exit, Crash, Gone, settingsVars,
              LossInv, FileTells, Tells, SaveTells, StartTells
<1>10. CASE EditFile
  <2>1. pc = "off" /\ pc' = pc
    BY <1>10 DEF EditFile
  <2>2. CASE \E d \in Edit : file' = File(d) /\ written' = d
    BY <2>1, <2>2, CurrentIsKnown, DocumentsAssumption DEF LossInv, FileTells, Tells, SaveTells, StartTells, File
  <2>3. CASE file' \in {Torn, NotObject, Missing} /\ UNCHANGED written
    BY <2>1, <2>3 DEF LossInv, FileTells, SaveTells, StartTells, Torn, NotObject, Missing
  <2> QED
    BY <1>10, <2>2, <2>3 DEF EditFile
<1>11. CASE UNCHANGED vars
  BY <1>11 DEF vars, settingsVars, lifeVars, LossInv, FileTells, Tells, SaveTells, StartTells
<1> QED
  BY <1>1, <1>2, <1>3, <1>4, <1>5, <1>6, <1>7, <1>8, <1>9, <1>10, <1>11 DEF Next

\* A start takes the settings from the last document that was left in one piece, under their new
\* names, or the user is told that they were reset (settings_manager.py, lifecycle_manager.py).
THEOREM LossAlwaysReported == Spec => LossIsReported
<1>1. SaveOK /\ LossInv /\ [Next]_vars =>
        (pc = "start" /\ pc' = "running" /\ ~alert' => \A k \in Key : settings'[k] = Known(written, k))
  <2> SUFFICES ASSUME LossInv, [Next]_vars, pc = "start", pc' = "running", ~alert'
               PROVE  \A k \in Key : settings'[k] = Known(written, k)
    OBVIOUS
  <2>1. Start
    BY DEF Next, Launch, Validate, Open, Dump, Fail, UseWindow, UsePanel, SendCommand, AcceptFont, ApplyFont, Act,
           Preferences, SetSettings, ApplySettings, PublishSettings, StackEnds, Close, Exit, Crash, Gone, EditFile,
           vars, lifeVars
  <2> QED
    BY <2>1 DEF Start, LossInv, StartTells, IsKnown, settingsVars
<1> QED
  BY <1>1, SaveInit, SaveStep, LossInit, LossStep, PTL DEF Spec, LossIsReported

-----------------------------------------------------------------------------
(* The history *)

\* A nonempty set of numbers has a least one.
LEMMA LeastOf ==
    ASSUME NEW T, T \subseteq Nat, T # {}
    PROVE  \E x \in T : \A y \in T : x <= y
<1>1. PICK x \in T : \A y \in T : <<y, x>> \notin OpToRel(<, Nat)
  BY WFMin, NatLessThanWellFounded, Zenon
<1>2. \A y \in T : ~(y < x)
  BY <1>1, Zenon DEF OpToRel
<1> QED
  BY <1>2

LEMMA Removed ==
    ASSUME NEW S, NEW s \in Seq(S), NEW i \in 1..Len(s)
    PROVE  /\ RemoveAt(s, i) \in Seq(S) /\ Len(RemoveAt(s, i)) = Len(s) - 1
           /\ \A j \in 1..(Len(s) - 1) : RemoveAt(s, i)[j] = IF j < i THEN s[j] ELSE s[j + 1]
<1>1. Len(s) \in Nat
  BY LenProperties, Zenon
<1> DEFINE a == SubSeq(s, 1, i - 1)
           b == SubSeq(s, i + 1, Len(s))
<1>2. a \in Seq(S) /\ Len(a) = i - 1 /\ \A j \in 1..(i - 1) : a[j] = s[j]
  BY <1>1
<1>3. b \in Seq(S) /\ Len(b) = Len(s) - i /\ \A j \in 1..(Len(s) - i) : b[j] = s[i + j]
  BY <1>1
<1>4. RemoveAt(s, i) = a \o b
  BY DEF RemoveAt
<1> HIDE DEF a, b
<1>5. /\ a \o b \in Seq(S) /\ Len(a \o b) = Len(a) + Len(b)
      /\ \A j \in 1..(Len(a) + Len(b)) : (a \o b)[j] = IF j <= Len(a) THEN a[j] ELSE b[j - Len(a)]
  BY <1>2, <1>3, ConcatProperties
<1>6. /\ a \o b \in Seq(S) /\ Len(a \o b) = Len(s) - 1
      /\ \A j \in 1..(Len(s) - 1) : (a \o b)[j] = IF j <= i - 1 THEN a[j] ELSE b[j - (i - 1)]
  <2>1. Len(a) = i - 1 /\ Len(a) + Len(b) = Len(s) - 1
    BY <1>1, <1>2, <1>3
  <2> QED
    BY <1>5, <2>1
<1>7. ASSUME NEW j \in 1..(Len(s) - 1)
      PROVE  (a \o b)[j] = IF j < i THEN s[j] ELSE s[j + 1]
  <2>1. CASE j < i
    BY <1>1, <1>2, <1>6, <2>1
  <2>2. CASE ~(j < i)
    <3> DEFINE k == j - (i - 1)
    <3>1. (a \o b)[j] = b[k]
      BY <1>1, <1>6, <2>2
    <3>2. k \in 1..(Len(s) - i) /\ i + k = j + 1
      BY <1>1, <2>2
    <3> HIDE DEF k
    <3>3. b[k] = s[i + k]
      BY <1>3, <3>2
    <3> QED
      BY <2>2, <3>1, <3>2, <3>3
  <2> QED
    BY <2>1, <2>2
<1> QED
  BY <1>4, <1>6, <1>7

\* A history in which every entry is another one.
Distinct(h) == \A i, j \in DOMAIN h : i # j => h[i] # h[j]

\* Without a command: the order of the others stays.
LEMMA WithoutCommand ==
    ASSUME NEW S, NEW h \in Seq(S), Distinct(h), NEW c
    PROVE  \E r \in Seq(S) :
              /\ r = RemoveFirst(h, c)
              /\ Len(r) = Len(h) \/ (Len(r) = Len(h) - 1 /\ c \in Range(h))
              /\ Range(r) = Range(h) \ {c}
              /\ \A i \in DOMAIN r : \E k \in DOMAIN h :
                    r[i] = h[k] /\ \A j \in DOMAIN r : j > i => \E l \in DOMAIN h : r[j] = h[l] /\ l > k
<1>1. Len(h) \in Nat /\ DOMAIN h = 1..Len(h)
  BY LenProperties, Zenon
<1>2. CASE ~\E i \in 1..Len(h) : h[i] = c
  <2>1. RemoveFirst(h, c) = h
    BY <1>2 DEF RemoveFirst
  <2>2. Range(h) = Range(h) \ {c}
    BY <1>1, <1>2 DEF Range
  <2> QED
    BY <1>1, <2>1, <2>2, Zenon
<1>3. CASE \E i \in 1..Len(h) : h[i] = c
  <2> DEFINE I == {i \in 1..Len(h) : h[i] = c}
  <2>1. I # {} /\ I \subseteq Nat
    BY <1>1, <1>3
  <2>2. PICK m : m = SelectInSeq(h, LAMBDA v : v = c)
    OBVIOUS
  <2>3. m \in I
    <3>1. m = Min(I)
      BY <2>1, <2>2 DEF SelectInSeq
    <3>2. \E x \in I : \A y \in I : x <= y
      BY <2>1, LeastOf
    <3> QED
      BY <3>1, <3>2, Zenon DEF Min
  <2> DEFINE r == RemoveAt(h, m)
  <2>4. RemoveFirst(h, c) = r
    BY <1>3, <2>2 DEF RemoveFirst
  <2>5. /\ r \in Seq(S) /\ Len(r) = Len(h) - 1 /\ m \in 1..Len(h) /\ h[m] = c
        /\ \A j \in 1..(Len(h) - 1) : r[j] = IF j < m THEN h[j] ELSE h[j + 1]
    BY <2>3, Removed
  <2>6. DOMAIN r = 1..(Len(h) - 1)
    BY <1>1, <2>5
  <2> HIDE DEF r
  <2> DEFINE at(j) == IF j < m THEN j ELSE j + 1
  <2>7. \A j \in DOMAIN r : at(j) \in DOMAIN h /\ at(j) # m /\ r[j] = h[at(j)]
    BY <1>1, <2>5, <2>6
  <2>8. \A i, j \in DOMAIN r : j > i => at(j) > at(i)
    BY <2>5, <2>6
  <2>9. ASSUME NEW k \in DOMAIN h, k # m PROVE \E j \in DOMAIN r : r[j] = h[k]
    <3>1. CASE k < m
      BY <1>1, <2>5, <2>6, <3>1
    <3>2. CASE k > m
      <4>1. k - 1 \in DOMAIN r /\ r[k - 1] = h[k]
        BY <1>1, <2>5, <2>6, <3>2
      <4> QED
        BY <4>1
    <3> QED
      BY <1>1, <2>5, <2>9, <3>1, <3>2
  <2> HIDE DEF at
  <2>10. c \in Range(h) /\ m \in DOMAIN h
    BY <1>1, <2>5 DEF Range
  <2>11. Range(r) \subseteq Range(h) \ {c}
    BY <2>5, <2>7, <2>10 DEF Range, Distinct
  <2>12. Range(h) \ {c} \subseteq Range(r)
    BY <2>5, <2>9 DEF Range
  <2>13. \A i \in DOMAIN r : \E k \in DOMAIN h :
            r[i] = h[k] /\ \A j \in DOMAIN r : j > i => \E l \in DOMAIN h : r[j] = h[l] /\ l > k
    BY <2>7, <2>8
  <2> QED
    BY <2>4, <2>5, <2>10, <2>11, <2>12, <2>13
<1> QED
  BY <1>2, <1>3

\* HistoryRecent, of a history h and the commands s.
After2(s, c, d) == \E j \in DOMAIN s : s[j] = d /\ \A i \in DOMAIN s : s[i] = c => i < j
Recent(h, s) ==
    /\ Range(h) \subseteq Range(s) /\ Len(h) <= MaxHistory
    /\ \A i, j \in DOMAIN h : i < j => After2(s, h[i], h[j])
    /\ \A c \in Range(s) \ Range(h) :
          Len(h) = MaxHistory /\ \A i \in DOMAIN h : After2(s, c, h[i])

LEMMA RecentAreDistinct ==
    ASSUME NEW S, NEW h \in Seq(S), NEW s, DOMAIN s \subseteq Nat, Recent(h, s)
    PROVE  Distinct(h)
<1> SUFFICES ASSUME NEW i \in DOMAIN h, NEW j \in DOMAIN h, i # j, h[i] = h[j] PROVE FALSE
  BY DEF Distinct
<1>1. i \in Nat /\ j \in Nat
  BY LenProperties
<1>2. After2(s, h[i], h[j])
  BY <1>1 DEF Recent
<1> QED
  BY <1>2 DEF After2

\* A command is used once more: it becomes the last of the history.
LEMMA AddedIsRecent ==
    ASSUME NEW S, NEW s \in Seq(S), NEW h \in Seq(S), NEW x \in S, Recent(h, s)
    PROVE  Added(h, x) \in Seq(S) /\ Recent(Added(h, x), Append(s, x))
<1>0. /\ Len(s) \in Nat /\ DOMAIN s = 1..Len(s) /\ Len(h) \in Nat /\ DOMAIN h = 1..Len(h)
      /\ MaxHistory \in Nat \ {0}
  BY LenProperties, HistoryAssumption
<1> DEFINE t == Append(s, x)
<1>1. /\ DOMAIN t = 1..(Len(s) + 1) /\ t[Len(s) + 1] = x /\ \A i \in 1..Len(s) : t[i] = s[i]
  BY <1>0, AppendProperties
<1> HIDE DEF t
<1>2. Range(t) = Range(s) \cup {x}
  <2>1. x \in Range(t) /\ Range(t) \subseteq Range(s) \cup {x}
    BY <1>0, <1>1 DEF Range
  <2>2. \A i \in DOMAIN s : t[i] = s[i] /\ i \in DOMAIN t
    BY <1>0, <1>1
  <2> QED
    BY <2>1, <2>2 DEF Range
<1>3. ASSUME NEW c, NEW d, c # x, After2(s, c, d) PROVE After2(t, c, d)
  <2>1. PICK j \in DOMAIN s : s[j] = d /\ \A i \in DOMAIN s : s[i] = c => i < j
    BY <1>3 DEF After2
  <2>2. j \in DOMAIN t /\ t[j] = d
    BY <1>0, <1>1, <2>1
  <2>3. \A i \in DOMAIN t : t[i] = c => i < j
    BY <1>0, <1>1, <1>3, <2>1
  <2> QED
    BY <2>2, <2>3 DEF After2
<1>4. ASSUME NEW c, c # x PROVE After2(t, c, x)
  <2> DEFINE n == Len(s) + 1
  <2>1. n \in DOMAIN t /\ t[n] = x /\ \A i \in DOMAIN t : t[i] = c => i < n
    BY <1>0, <1>1, <1>4
  <2> HIDE DEF n
  <2> QED
    BY <2>1 DEF After2
<1>5. Distinct(h)
  BY <1>0, RecentAreDistinct
<1>6. PICK r \in Seq(S) :
         /\ r = RemoveFirst(h, x)
         /\ Len(r) = Len(h) \/ (Len(r) = Len(h) - 1 /\ x \in Range(h))
         /\ Range(r) = Range(h) \ {x}
         /\ \A i \in DOMAIN r : \E k \in DOMAIN h :
               r[i] = h[k] /\ \A j \in DOMAIN r : j > i => \E l \in DOMAIN h : r[j] = h[l] /\ l > k
  BY <1>5, WithoutCommand
<1> DEFINE m == Append(r, x)
<1>7. /\ m \in Seq(S) /\ Len(m) = Len(r) + 1 /\ DOMAIN m = 1..(Len(r) + 1) /\ m[Len(r) + 1] = x
      /\ \A i \in 1..Len(r) : m[i] = r[i]
      /\ DOMAIN r = 1..Len(r) /\ Len(r) \in Nat
  BY AppendProperties, LenProperties
<1>8. Added(h, x) = IF Len(m) > MaxHistory THEN Tail(m) ELSE m
  BY <1>6 DEF Added
<1> HIDE DEF m
<1>a. Len(r) = Len(h) \/ Len(r) = Len(h) - 1
  BY <1>6
<1>9. Range(m) = Range(h) \cup {x} /\ \A i \in DOMAIN r : r[i] \in Range(h) /\ r[i] # x
  <2>1. \A i \in DOMAIN r : r[i] \in Range(h) /\ r[i] # x
    BY <1>6 DEF Range
  <2>2. x \in Range(m) /\ Range(m) \subseteq Range(h) \cup {x}
    <3> DEFINE n == Len(r) + 1
    <3>1. n \in DOMAIN m /\ m[n] = x /\ \A i \in DOMAIN m : i = n \/ (i \in DOMAIN r /\ m[i] = r[i])
      BY <1>7
    <3> HIDE DEF n
    <3> QED
      BY <2>1, <3>1 DEF Range
  <2>3. \A i \in DOMAIN r : m[i] = r[i] /\ i \in DOMAIN m
    BY <1>7
  <2>4. Range(r) \subseteq Range(m)
    BY <2>3 DEF Range
  <2> QED
    BY <1>6, <2>1, <2>2, <2>4
<1>10. ASSUME NEW i \in DOMAIN m, NEW j \in DOMAIN m, i < j PROVE After2(t, m[i], m[j])
  <2>1. i \in DOMAIN r /\ m[i] = r[i] /\ r[i] # x
    BY <1>7, <1>9, <1>10
  <2>2. CASE j = Len(r) + 1
    BY <1>4, <1>7, <2>1, <2>2
  <2>3. CASE j # Len(r) + 1
    <3>1. j \in DOMAIN r /\ m[j] = r[j]
      BY <1>7, <2>3
    <3>2. PICK k \in DOMAIN h : r[i] = h[k] /\ \E l \in DOMAIN h : r[j] = h[l] /\ l > k
      BY <1>6, <1>7, <1>10, <2>1, <3>1
    <3>3. After2(s, r[i], r[j])
      BY <1>0, <3>2 DEF Recent
    <3> QED
      BY <1>3, <2>1, <3>1, <3>3
  <2> QED
    BY <2>2, <2>3
<1>11. ASSUME NEW c \in Range(t) \ Range(m)
       PROVE  Len(h) = MaxHistory /\ \A i \in DOMAIN m : After2(t, c, m[i])
  <2>1. c \in Range(s) \ Range(h) /\ c # x
    BY <1>2, <1>9
  <2>2. Len(h) = MaxHistory /\ \A k \in DOMAIN h : After2(s, c, h[k])
    BY <2>1 DEF Recent
  <2>3. ASSUME NEW i \in DOMAIN m PROVE After2(t, c, m[i])
    <3>1. CASE i = Len(r) + 1
      BY <1>4, <1>7, <2>1, <3>1
    <3>2. CASE i # Len(r) + 1
      <4>1. i \in DOMAIN r /\ m[i] = r[i]
        BY <1>7, <3>2
      <4>2. PICK k \in DOMAIN h : r[i] = h[k]
        BY <1>6, <4>1
      <4> QED
        BY <1>3, <2>1, <2>2, <4>1, <4>2
    <3> QED
      BY <3>1, <3>2
  <2> QED
    BY <2>2, <2>3
<1>12. Len(h) <= MaxHistory /\ Range(h) \subseteq Range(s)
  BY DEF Recent
<1>b. /\ MaxHistory \in Nat /\ Len(h) \in Nat /\ Len(r) \in Nat /\ Len(m) = Len(r) + 1
      /\ Len(h) <= MaxHistory
  BY <1>0, <1>7, <1>12
<1>13. CASE Len(m) <= MaxHistory
  <2>1. Added(h, x) = m
    BY <1>0, <1>7, <1>8, <1>13
  <2>2. Len(h) = MaxHistory => Len(m) = MaxHistory
    BY <1>a, <1>b, <1>13
  <2>3. Recent(m, t)
    BY <1>2, <1>9, <1>10, <1>11, <1>12, <1>13, <2>2 DEF Recent
  <2> QED
    BY <1>7, <2>1, <2>3 DEF t
<1>14. CASE Len(m) > MaxHistory
  <2>1. Len(r) = MaxHistory /\ Len(h) = MaxHistory
    BY <1>a, <1>b, <1>14
  <2> DEFINE g == Tail(m)
  <2>2. Added(h, x) = g
    BY <1>8, <1>14
  <2>3. /\ g \in Seq(S) /\ Len(g) = MaxHistory /\ DOMAIN g = 1..MaxHistory /\ DOMAIN m = 1..(MaxHistory + 1)
        /\ \A i \in 1..MaxHistory : g[i] = m[i + 1]
    BY <1>0, <1>7, <2>1
  <2> HIDE DEF g
  <2>4. \A i \in DOMAIN g : g[i] = m[i + 1] /\ i + 1 \in DOMAIN m
    BY <1>0, <2>3
  <2>5. Range(g) \subseteq Range(t)
    <3>1. \A i \in DOMAIN g : g[i] \in Range(m)
      BY <2>4 DEF Range
    <3>2. Range(m) \subseteq Range(t)
      BY <1>2, <1>9, <1>12
    <3>3. \A i \in DOMAIN g : g[i] \in Range(t)
      BY <3>1, <3>2
    <3> QED
      BY <3>3 DEF Range
  <2>6. \A i, j \in DOMAIN g : i < j => After2(t, g[i], g[j])
    BY <1>0, <1>10, <2>3, <2>4
  <2>7. ASSUME NEW c \in Range(t) \ Range(g) PROVE \A i \in DOMAIN g : After2(t, c, g[i])
    <3>1. CASE c \notin Range(m)
      BY <1>11, <2>4, <3>1
    <3>2. CASE c \in Range(m)
      <4>1. PICK k \in DOMAIN m : m[k] = c
        BY <3>2 DEF Range
      <4>2. k = 1
        <5>1. SUFFICES ASSUME k # 1 PROVE FALSE
          OBVIOUS
        <5>2. k - 1 \in DOMAIN g /\ g[k - 1] = c
          BY <1>0, <2>3, <4>1, <5>1
        <5> QED
          BY <5>2 DEF Range
      <4>3. \A i \in DOMAIN g : 1 < i + 1
        BY <2>3
      <4> QED
        BY <1>10, <2>4, <4>1, <4>2, <4>3
    <3> QED
      BY <3>1, <3>2
  <2>8. Recent(g, t)
    <3>1. Len(g) <= MaxHistory /\ Len(g) = MaxHistory
      BY <1>0, <2>3
    <3> QED
      BY <2>5, <2>6, <2>7, <3>1, Zenon DEF Recent
  <2> QED
    BY <2>2, <2>3, <2>8 DEF t
<1> QED
  BY <1>0, <1>7, <1>13, <1>14

-----------------------------------------------------------------------------
(* The types of what is saved, shown and typed *)

TypedAt(at) == /\ at["echo"] \in BOOLEAN \cup {None} /\ at["shown"] \in BOOLEAN \cup {None}
               /\ at["manual"] \in ManualState \cup {None}
DocsTyped == /\ settings = [k \in Key |-> settings[k]] /\ TypedAt(settings)
             /\ file.kind = "doc" => TypedAt(file.doc.at)
             /\ pc = "saving" => TypedAt(save.doc.at)
WindowTyped == /\ shown \in BOOLEAN /\ shownMark \in BOOLEAN
               /\ width \notin {None, NoWidth} /\ savedWidth # None
PanelTyped == /\ panel \in ManualState /\ flag \in BOOLEAN
              /\ history \in Seq(Command) /\ sent \in Seq(Command)
Recents == Recent(history, sent) /\ index \in 0..Len(history)
IsPreferences(p) == /\ p = [theme |-> p.theme, language |-> p.language, size |-> p.size, echo |-> p.echo]
                    /\ p.echo \in BOOLEAN /\ p.theme \in Themes
InPreferences == \/ pc \in {"setting", "apply", "publish"}
                 \/ pc = "saving" /\ save.then = "prefs"
PrefTyped == InPreferences => IsPreferences(pref)
TypesInv == DocsTyped /\ WindowTyped /\ PanelTyped /\ Recents /\ PrefTyped

LEMMA TypedValues ==
    /\ TypedAt(Fallback.at) /\ Fallback.at = [k \in Key |-> Fallback.at[k]]
    /\ \A d : TypedAt(d.at) => TypedAt(Merged(d)) /\ TypedAt(Migrated(d).at)
    /\ \A d \in Edit : TypedAt(d.at)
    /\ \A d : Merged(d) = [k \in Key |-> Merged(d)[k]]
<1>1. TypedAt(Fallback.at) /\ Fallback.at = [k \in Key |-> Fallback.at[k]]
  BY DEF TypedAt, Fallback, Doc, Key, NoManual, ManualState, NoText
<1>2. ASSUME NEW d, TypedAt(d.at) PROVE TypedAt(Merged(d)) /\ TypedAt(Migrated(d).at)
  <2>1. TypedAt(Merged(d))
    BY <1>1, <1>2 DEF TypedAt, Merged, Key
  <2>2. TypedAt(Migrated(d).at)
    BY <1>2 DEF TypedAt, Migrated, Doc, Key, OldName
  <2> QED
    BY <2>1, <2>2
<1>3. \A d \in Edit : TypedAt(d.at)
  BY DocumentsAssumption DEF TypedAt
<1>4. \A d : Merged(d) = [k \in Key |-> Merged(d)[k]]
  BY DEF Merged
<1> QED
  BY <1>1, <1>2, <1>3, <1>4

LEMMA GetTyped ==
    ASSUME TypedAt(settings)
    PROVE  /\ Get("echo", FALSE) \in BOOLEAN /\ (Get("echo", FALSE) = TRUE <=> settings["echo"] = TRUE)
           /\ Get("shown", TRUE) \in BOOLEAN /\ Get("manual", Off) \in ManualState
           /\ Get("saved_width", NoWidth) # None
           /\ SplitterRestored(Get("splitter", NoWidth)) \notin {None, NoWidth}
<1>1. None \notin BOOLEAN /\ None # NoWidth /\ None # EvenWidth /\ EvenWidth # NoWidth
  BY DocumentsAssumption DEF NoWidth, EvenWidth
<1>2. settings["echo"] = None => settings["echo"] # TRUE
  BY <1>1
<1>3. Get("echo", FALSE) \in BOOLEAN /\ (Get("echo", FALSE) = TRUE <=> settings["echo"] = TRUE)
  BY <1>1, <1>2 DEF TypedAt, Get
<1>4. Get("shown", TRUE) \in BOOLEAN
  BY DEF TypedAt, Get
<1>5. Get("manual", Off) \in ManualState
  BY DEF TypedAt, Get, Off, ManualState
<1>6. Get("saved_width", NoWidth) # None /\ Get("splitter", NoWidth) # None
  BY <1>1 DEF Get
<1>7. SplitterRestored(Get("splitter", NoWidth)) \notin {None, NoWidth}
  BY <1>1, <1>6 DEF SplitterRestored
<1> QED
  BY <1>3, <1>4, <1>5, <1>6, <1>7

LEMMA PreferencesTyped ==
    ASSUME TypedAt(settings), NEW p \in Chosen
    PROVE  IsPreferences(p)
<1>1. Theme[1] \in Themes
  <2>1. Theme \in Seq(STRING) /\ Themes # {}
    BY AppearanceAssumption, SessionAssumption
  <2>2. 1 \in DOMAIN Theme
    BY <2>1, LenProperties DEF Themes
  <2> QED
    BY <2>2 DEF Themes
<1> DEFINE t == Dialog.theme  l == Dialog.language  z == Dialog.size  e == Dialog.echo
<1>2. Dialog = [theme |-> t, language |-> l, size |-> z, echo |-> e] /\ t \in Themes /\ e \in BOOLEAN
  <2>1. t = IF Get("theme", "dark") \in Themes THEN Get("theme", "dark") ELSE Theme[1]
    BY DEF Dialog
  <2>2. e = Get("echo", FALSE)
    BY DEF Dialog
  <2>3. Dialog = [theme |-> t, language |-> l, size |-> z, echo |-> e]
    BY DEF Dialog
  <2> QED
    BY <1>1, <2>1, <2>2, <2>3, GetTyped
<1> HIDE DEF t, l, z, e
<1>3. CASE p = Dialog
  BY <1>2, <1>3 DEF IsPreferences
<1>4. CASE p = [Dialog EXCEPT !.echo = ~@]
  <2>1. p = [theme |-> t, language |-> l, size |-> z, echo |-> ~e]
    BY <1>2, <1>4
  <2> QED
    BY <1>2, <2>1 DEF IsPreferences
<1>5. CASE \E u \in Themes : p = [Dialog EXCEPT !.theme = u]
  <2>1. PICK u \in Themes : p = [theme |-> u, language |-> l, size |-> z, echo |-> e]
    BY <1>2, <1>5
  <2> QED
    BY <1>2, <2>1 DEF IsPreferences
<1>6. CASE \E u : p = [Dialog EXCEPT !.language = u]
  <2>1. PICK u : p = [theme |-> t, language |-> u, size |-> z, echo |-> e]
    BY <1>2, <1>6
  <2> QED
    BY <1>2, <2>1 DEF IsPreferences
<1>7. CASE \E u : p = [Dialog EXCEPT !.size = u]
  <2>1. PICK u : p = [theme |-> t, language |-> l, size |-> u, echo |-> e]
    BY <1>2, <1>7
  <2> QED
    BY <1>2, <2>1 DEF IsPreferences
<1> QED
  BY <1>3, <1>4, <1>5, <1>6, <1>7 DEF Chosen

LEMMA TypesInit == Init => TypesInv
<1> SUFFICES ASSUME Init PROVE TypesInv
  OBVIOUS
<1>1. DocsTyped
  <2>1. settings = Fallback.at /\ pc = "off" /\ (file = Missing \/ \E d \in Edit : file = File(d))
    BY DEF Init, SettingsInit
  <2> QED
    BY <2>1, TypedValues DEF DocsTyped, Missing, File
<1>2. WindowTyped
  BY DocumentsAssumption DEF Init, AppearanceInit, WindowTyped, EvenWidth, NoWidth
<1>3. PanelTyped /\ Recents
  <2>1. panel = Off /\ flag = FALSE /\ history = <<>> /\ index = 0 /\ sent = <<>>
    BY DEF Init, ManualInit
  <2>2. Recent(<<>>, <<>>)
    BY HistoryAssumption DEF Recent, Range
  <2> QED
    <3>1. Off \in ManualState /\ <<>> \in Seq(Command) /\ Len(<<>>) = 0
      BY DEF Off, ManualState, NoText
    <3>2. PanelTyped
      BY <2>1, <3>1 DEF PanelTyped
    <3>3. Recents
      BY <2>1, <2>2, <3>1 DEF Recents
    <3> QED
      BY <3>2, <3>3
<1>4. PrefTyped
  BY DEF Init, PrefTyped, InPreferences
<1> QED
  BY <1>1, <1>2, <1>3, <1>4 DEF TypesInv

\* What the actions of the user leave typed.
LEMMA WindowUsed ==
    ASSUME WindowTyped, UseWindow
    PROVE  WindowTyped'
<1>1. CASE \E t \in Themes : MenuTheme(t)
  BY <1>1 DEF MenuTheme, WindowTyped
<1>2. CASE \E l \in Language : MenuLanguage(l)
  BY <1>2 DEF MenuLanguage, MenuRebuilt, WindowTyped
<1>3. CASE \E m \in BOOLEAN : ToggleRightSection(m)
  BY <1>3, DocumentsAssumption DEF ToggleRightSection, WindowTyped, NoWidth, DefaultWidth, Squeezed
<1>4. CASE \E w \in Width : DragSection(w)
  BY <1>4, DocumentsAssumption, SessionAssumption DEF DragSection, WindowTyped, NoWidth
<1> QED
  BY <1>1, <1>2, <1>3, <1>4 DEF UseWindow

LEMMA PanelUsed ==
    ASSUME PanelTyped, Recents, UsePanel
    PROVE  PanelTyped' /\ Recents'
<1>1. CASE \E c \in Command : Type(c)
  BY <1>1 DEF Type, PanelTyped, Recents, ManualState
<1>2. CASE \E b \in {"broadcast", "echo"} : ToggleBox(b)
  BY <1>2 DEF ToggleBox, PanelTyped, Recents, ManualState
<1>3. CASE HistoryUp
  <2>1. history \in Seq(Command) /\ Len(history) \in Nat \ {0} /\ DOMAIN history = 1..Len(history)
    BY <1>3, LenProperties, EmptySeq DEF HistoryUp, PanelTyped
  <2>2. index' \in 1..Len(history)
    BY <1>3, <2>1 DEF HistoryUp, Recents
  <2>3. history[index'] \in Command
    BY <2>1, <2>2
  <2> QED
    BY <1>3, <2>2, <2>3 DEF HistoryUp, PanelTyped, Recents, ManualState
<1>4. CASE HistoryDown
  <2>1. history \in Seq(Command) /\ Len(history) \in Nat \ {0} /\ DOMAIN history = 1..Len(history)
    BY <1>4, LenProperties, EmptySeq DEF HistoryDown, PanelTyped
  <2>2. index' \in 0..Len(history)
    BY <1>4, <2>1 DEF HistoryDown, Recents
  <2>3. index' # 0 => history[index'] \in Command
    BY <2>1, <2>2
  <2> QED
    BY <1>4, <2>2, <2>3 DEF HistoryDown, PanelTyped, Recents, ManualState
<1> QED
  BY <1>1, <1>2, <1>3, <1>4 DEF UsePanel

LEMMA PanelSent ==
    ASSUME PanelTyped, Recents, SendCommand
    PROVE  PanelTyped' /\ Recents'
<1>1. PICK x : x = panel.text
  OBVIOUS
<1>2. x \in Command /\ history' = Added(history, x) /\ sent' = Append(sent, x) /\ index' = 0 /\ UNCHANGED <<panel, flag>>
  BY <1>1 DEF SendCommand, Send, PanelTyped, ManualState
<1>3. /\ Added(history, x) \in Seq(Command) /\ Recent(Added(history, x), Append(sent, x))
      /\ Append(sent, x) \in Seq(Command)
  BY <1>2, AddedIsRecent DEF PanelTyped, Recents
<1>4. Len(Added(history, x)) \in Nat
  BY <1>3, LenProperties
<1> QED
  BY <1>2, <1>3, <1>4 DEF PanelTyped, Recents

\* A new process has what a new panel and the fallback settings have.
LEMMA GoneTyped ==
    ASSUME DocsTyped, Gone
    PROVE  DocsTyped' /\ WindowTyped' /\ PanelTyped' /\ Recents' /\ PrefTyped'
<1>1. /\ settings' = Fallback.at /\ pc' = "off" /\ file' = file
      /\ shown' = TRUE /\ shownMark' = TRUE /\ width' = EvenWidth /\ savedWidth' = NoWidth
      /\ panel' = Off /\ flag' = FALSE /\ history' = <<>> /\ index' = 0 /\ sent' = <<>>
  BY DEF Gone
<1>2. DocsTyped'
  BY <1>1, TypedValues DEF DocsTyped
<1>3. WindowTyped'
  BY <1>1, DocumentsAssumption DEF WindowTyped, EvenWidth, NoWidth
<1>4. Off \in ManualState /\ <<>> \in Seq(Command) /\ Len(<<>>) = 0
  BY DEF Off, ManualState, NoText
<1>5. Recent(<<>>, <<>>)
  BY HistoryAssumption DEF Recent, Range
<1>6. PanelTyped'
  BY <1>1, <1>4 DEF PanelTyped
<1>7. Recents'
  BY <1>1, <1>4, <1>5 DEF Recents
<1>8. PrefTyped'
  BY <1>1 DEF PrefTyped, InPreferences
<1> QED
  BY <1>2, <1>3, <1>6, <1>7, <1>8

LEMMA StartTyped ==
    ASSUME DocsTyped, Start
    PROVE  DocsTyped' /\ WindowTyped' /\ PanelTyped' /\ Recents' /\ PrefTyped'
<1>1. /\ pc' = "running" /\ UNCHANGED settingsVars
      /\ NewWindow(Get("theme", "dark"), Get("language", "en"), Get("size", 9), Get("shown", TRUE),
                   Get("splitter", NoWidth), Get("saved_width", NoWidth))
      /\ NewPanel(Get("manual", Off), Get("echo", FALSE))
  BY DEF Start
<1>2. TypedAt(settings)
  BY DEF DocsTyped
<1>3. WindowTyped'
  BY <1>1, <1>2, GetTyped DEF NewWindow, WindowTyped
<1>4. <<>> \in Seq(Command) /\ Len(<<>>) = 0
  OBVIOUS
<1>5. Recent(<<>>, <<>>)
  BY HistoryAssumption DEF Recent, Range
<1>6. PanelTyped'
  BY <1>1, <1>2, <1>4, GetTyped DEF NewPanel, PanelTyped
<1>7. Recents'
  BY <1>1, <1>4, <1>5 DEF NewPanel, Recents
<1>8. DocsTyped' /\ PrefTyped'
  BY <1>1 DEF settingsVars, DocsTyped, PrefTyped, InPreferences
<1> QED
  BY <1>3, <1>6, <1>7, <1>8

\* Saving and loading move typed documents.
LEMMA LoadTyped ==
    ASSUME SaveOK, LossInv, DocsTyped, Launch \/ Validate \/ Open \/ Dump \/ Fail
    PROVE  DocsTyped'
<1> USE SaveSteps, TypedValues
<1>1. CASE Launch
  <2>1. pc = "off" /\ file' = file
    BY <1>1 DEF Launch, LoadUnreadable, LoadNotObject, LoadOld, LoadCurrent, settingsVars
  <2>2. settings' = settings \/ settings' = Fallback.at
    BY <1>1 DEF Launch, LoadUnreadable, LoadNotObject, LoadOld, LoadCurrent, settingsVars
  <2>3. \/ pc' # "saving"
        \/ save'.doc = Fallback
        \/ save'.doc = Migrated(file.doc) /\ file.kind = "doc"
    BY <1>1 DEF Launch, LoadUnreadable, LoadOld, StartSave
  <2> QED
    BY <2>1, <2>2, <2>3 DEF DocsTyped
<1>2. CASE Validate
  <2>1. CASE Accept /\ pc' = "start" /\ file.kind = "doc"
    BY <2>1 DEF Accept, DocsTyped
  <2>2. CASE Reject /\ pc' = "saving"
    <3>1. /\ settings' = Fallback.at /\ save'.doc = Fallback
          /\ file' = file \/ file'.kind = "missing"
      BY <2>2 DEF Reject, StartSave, Missing
    <3> QED
      BY <3>1 DEF DocsTyped
  <2> QED
    BY <1>2, <2>1, <2>2 DEF Validate, LossInv, StartTells
<1>3. CASE Open
  <2>1. file'.kind = "torn" /\ settings' = settings /\ save'.doc = save.doc /\ pc = "saving"
    BY <1>3 DEF Open, OpenFile, SaveOK, Torn
  <2> QED
    BY <2>1 DEF DocsTyped
<1>4. CASE Dump
  <2>1. /\ file'.doc = save.doc /\ settings' = settings /\ pc = "saving" /\ save.then \in Then
        /\ pc' = After[save.then]
    BY <1>4 DEF Dump, DumpFile, SaveOK, File
  <2>2. pc' # "saving"
    BY <2>1 DEF After, Then
  <2> QED
    BY <2>1, <2>2 DEF DocsTyped
<1>5. CASE Fail
  <2>1. /\ file' = file /\ pc = "saving" /\ save.then \in Then
        /\ settings' = settings \/ settings' = Fallback.at
        /\ pc' = IF save.then = "validate" THEN "start" ELSE After[save.then]
    BY <1>5 DEF Fail, WriteFails, SaveOK
  <2>2. pc' # "saving"
    BY <2>1 DEF After, Then
  <2> QED
    BY <2>1, <2>2 DEF DocsTyped
<1> QED
  BY <1>1, <1>2, <1>3, <1>4, <1>5

\* The settings are set and saved.
LEMMA SettingTyped ==
    ASSUME DocsTyped, WindowTyped, PanelTyped, PrefTyped, AcceptFont \/ SetSettings \/ Close
    PROVE  DocsTyped'
<1>1. settings = [k \in Key |-> settings[k]] /\ TypedAt(settings)
  BY DEF DocsTyped
<1>2. settings' = [k \in Key |-> settings'[k]] /\ TypedAt(settings')
  <2>1. CASE AcceptFont
    <3>1. PICK z : settings' = [settings EXCEPT !["size"] = z]
      BY <2>1 DEF AcceptFont
    <3>2. settings' = [k \in Key |-> IF k = "size" THEN z ELSE settings[k]]
      BY <1>1, <3>1
    <3> QED
      BY <1>1, <3>2 DEF TypedAt, Key
  <2>2. CASE SetSettings
    <3>1. IsPreferences(pref)
      BY <2>2 DEF SetSettings, PrefTyped, InPreferences
    <3>2. DOMAIN pref = {"theme", "language", "size", "echo"} /\ pref["echo"] = pref.echo /\ pref.echo \in BOOLEAN
      BY <3>1 DEF IsPreferences
    <3>3. settings' = [k \in Key |-> IF k \in DOMAIN pref THEN pref[k] ELSE settings[k]]
      BY <2>2 DEF SetSettings
    <3> QED
      BY <1>1, <3>2, <3>3 DEF TypedAt, Key
  <2>3. CASE Close
    <3>1. settings' = [settings EXCEPT !["shown"] = shown, !["manual"] = State, !["splitter"] = width,
                         !["saved_width"] = IF WindowWidth # NoWidth THEN WindowWidth ELSE @]
      BY <2>3 DEF Close
    <3>2. PICK w : settings' = [k \in Key |-> IF k = "shown" THEN shown ELSE IF k = "manual" THEN State
                                          ELSE IF k = "splitter" THEN width
                                          ELSE IF k = "saved_width" THEN w ELSE settings[k]]
      BY <1>1, <3>1
    <3>3. State \in ManualState
      BY DEF State, PanelTyped, ManualState
    <3> QED
      BY <1>1, <3>2, <3>3 DEF TypedAt, Key, WindowTyped
  <2> QED
    BY <2>1, <2>2, <2>3
<1>3. file' = file /\ save'.doc.at = settings'
  BY DEF AcceptFont, SetSettings, Close, StartSave, Saving, Doc
<1> QED
  BY <1>2, <1>3 DEF DocsTyped

LEMMA TypesStep == SaveOK /\ LossInv /\ TypesInv /\ [Next]_vars => TypesInv'
<1> SUFFICES ASSUME SaveOK, LossInv, TypesInv, [Next]_vars PROVE TypesInv'
  OBVIOUS
<1> USE SaveSteps DEF TypesInv
<1>0. UNCHANGED <<appearanceVars, manualVars>> => WindowTyped' /\ PanelTyped' /\ Recents'
  BY DEF appearanceVars, manualVars, WindowTyped, PanelTyped, Recents
<1>1. CASE Launch \/ Validate \/ Open \/ Dump \/ Fail
  <2>1. UNCHANGED <<appearanceVars, manualVars>> /\ pref' = pref
    BY <1>1 DEF Launch, Validate, Open, Dump, Fail
  <2>2. PrefTyped'
    <3>1. CASE Launch \/ Validate
      <4>1. pc' \in {"saving", "start", "validate"} /\ (pc' = "saving" => save'.then \in {"reset", "validate"})
        BY <3>1 DEF Launch, Validate, LoadUnreadable, LoadOld, Reject, StartSave
      <4> QED
        BY <4>1 DEF PrefTyped, InPreferences
    <3>2. CASE Open
      <4>1. pc = "saving" /\ save'.then = save.then /\ pc' = pc
        BY <3>2 DEF Open, OpenFile, SaveOK
      <4> QED
        BY <2>1, <4>1 DEF PrefTyped, InPreferences
    <3>3. CASE Dump \/ Fail
      <4>1. /\ pc = "saving" /\ save.then \in Then
            /\ pc' = After[save.then] \/ pc' = "start"
        BY <3>3 DEF Dump, DumpFile, Fail, WriteFails, SaveOK
      <4>2. pc' \in {"start", "validate", "running", "exit"} \/ (pc' = "apply" /\ save.then = "prefs")
        BY <4>1 DEF After, Then
      <4> QED
        BY <2>1, <4>1, <4>2 DEF PrefTyped, InPreferences
    <3> QED
      BY <1>1, <3>1, <3>2, <3>3
  <2> QED
    BY <1>0, <1>1, <2>1, <2>2, LoadTyped
<1>2. CASE Start
  BY <1>2, StartTyped
<1>3. CASE UseWindow
  <2>1. /\ UNCHANGED <<settingsVars, manualVars, pc, pref>> /\ WindowTyped'
    BY <1>3, WindowUsed DEF UseWindow
  <2> QED
    BY <2>1 DEF settingsVars, manualVars, DocsTyped, PanelTyped, Recents, PrefTyped, InPreferences
<1>4. CASE UsePanel \/ SendCommand
  <2>1. /\ UNCHANGED <<settingsVars, appearanceVars, pc, pref>> /\ PanelTyped' /\ Recents'
    BY <1>4, PanelUsed, PanelSent DEF UsePanel, SendCommand, lifeVars
  <2> QED
    BY <2>1 DEF settingsVars, appearanceVars, DocsTyped, WindowTyped, PrefTyped, InPreferences
<1>5. CASE AcceptFont \/ SetSettings \/ Close
  <2>1. UNCHANGED <<shown, shownMark, width, savedWidth, manualVars, pref>> /\ pc' = "saving"
    BY <1>5 DEF AcceptFont, SetSettings, Close, appearanceVars
  <2>2. save'.then = "prefs" => SetSettings
    <3>1. ASSUME AcceptFont PROVE save'.then = "font"
      <4>1. PICK d : save' = Saving(d, "font")
        BY <3>1 DEF AcceptFont, StartSave
      <4> QED
        BY <4>1
    <3>2. ASSUME Close PROVE save'.then = "close"
      <4>1. PICK d : save' = Saving(d, "close")
        BY <3>2 DEF Close, StartSave
      <4> QED
        BY <4>1
    <3> QED
      BY <1>5, <3>1, <3>2
  <2>3. PrefTyped'
    BY <2>1, <2>2 DEF PrefTyped, InPreferences, SetSettings
  <2>4. WindowTyped' /\ PanelTyped' /\ Recents'
    BY <2>1 DEF manualVars, WindowTyped, PanelTyped, Recents
  <2> QED
    BY <1>5, <2>3, <2>4, SettingTyped
<1>6. CASE ApplyFont
  BY <1>6 DEF ApplyFont, Act, settingsVars, manualVars, DocsTyped, WindowTyped, PanelTyped, Recents, PrefTyped, InPreferences
<1>7. CASE Preferences
  <2>1. /\ UNCHANGED <<settingsVars, appearanceVars, manualVars>> /\ pc' = "setting" /\ pref' \in Chosen
    BY <1>7 DEF Preferences
  <2>2. DocsTyped'
    BY <2>1 DEF settingsVars, DocsTyped
  <2>3. IsPreferences(pref')
    BY <2>1, PreferencesTyped DEF DocsTyped
  <2> QED
    BY <1>0, <2>1, <2>2, <2>3 DEF PrefTyped
<1>8. CASE ApplySettings
  <2>1. /\ UNCHANGED <<settingsVars, shown, width, savedWidth, history, index, sent, pref>>
        /\ pc = "apply" /\ pc' = "publish"
        /\ shownMark' = TRUE \/ shownMark' = shownMark
        /\ panel' = [panel EXCEPT !.echo = pref.echo] /\ flag' = pref.echo
    BY <1>8 DEF ApplySettings, MenuAfter, MenuRebuilt, EchoSetting
  <2>2. IsPreferences(pref)
    BY <2>1 DEF PrefTyped, InPreferences
  <2>3. PanelTyped' /\ Recents'
    BY <2>1, <2>2 DEF IsPreferences, PanelTyped, Recents, ManualState
  <2>4. WindowTyped' /\ DocsTyped' /\ PrefTyped'
    BY <2>1, <2>2 DEF WindowTyped, settingsVars, DocsTyped, PrefTyped, InPreferences
  <2> QED
    BY <2>3, <2>4
<1>9. CASE PublishSettings
  BY <1>0, <1>9 DEF PublishSettings, settingsVars, DocsTyped, PrefTyped, InPreferences
<1>10. CASE StackEnds
  BY <1>0, <1>10 DEF StackEnds, DocsTyped, PrefTyped, InPreferences
<1>11. CASE Exit \/ Crash
  BY <1>11, GoneTyped DEF Exit, Crash
<1>12. CASE EditFile
  <2>1. /\ UNCHANGED <<settings, appearanceVars, manualVars>> /\ pc = "off" /\ pc' = pc
        /\ (\E d \in Edit : file' = File(d)) \/ file'.kind \in {"torn", "list", "missing"}
    BY <1>12 DEF EditFile, Torn, NotObject, Missing
  <2>2. DocsTyped'
    BY <2>1, TypedValues DEF DocsTyped, File
  <2> QED
    BY <1>0, <2>1, <2>2 DEF PrefTyped, InPreferences
<1>13. CASE UNCHANGED vars
  BY <1>0, <1>13 DEF vars, settingsVars, lifeVars, DocsTyped, PrefTyped, InPreferences
<1> QED
  BY <1>1, <1>2, <1>3, <1>4, <1>5, <1>6, <1>7, <1>8, <1>9, <1>10, <1>11, <1>12, <1>13 DEF Next

\* The history holds the last commands of the session, each once, in the order of their last use,
\* however many were sent and whatever was chosen from it (manual_control.py).
THEOREM HistoryAlwaysRecent == Spec => []HistoryRecent
<1>1. TypesInv => HistoryRecent
  BY DEF TypesInv, Recents, Recent, HistoryRecent, After2, UsedAfter
<1> QED
  BY <1>1, SaveInit, SaveStep, LossInit, LossStep, TypesInit, TypesStep, PTL DEF Spec

-----------------------------------------------------------------------------
(* The local echo *)

EchoAgrees == flag = (settings["echo"] = TRUE)
EchoInv ==
    /\ pc = "running" \/ (pc = "saving" /\ save.then = "font") => EchoAgrees
    /\ InPreferences =>
          /\ level \in Nat \ {0}
          /\ level > 1 \/ pc # "setting" => settings["echo"] = pref.echo
          /\ level > 1 \/ pc = "publish" => flag = pref.echo

LEMMA EchoInit == Init => EchoInv
  BY DEF Init, EchoInv, InPreferences

LEMMA EchoStep == SaveOK /\ TypesInv /\ EchoInv /\ [Next]_vars => EchoInv'
<1> SUFFICES ASSUME SaveOK, TypesInv, EchoInv, [Next]_vars PROVE EchoInv'
  OBVIOUS
<1> USE SaveSteps
<1>1. CASE Launch \/ Validate
  <2>1. pc' \in {"saving", "start", "validate"} /\ (pc' = "saving" => save'.then \in {"reset", "validate"})
    BY <1>1 DEF Launch, Validate, LoadUnreadable, LoadOld, Reject, StartSave
  <2> QED
    BY <2>1 DEF EchoInv, InPreferences
<1>2. CASE Open
  <2>1. UNCHANGED <<pc, settings, flag, level, pref>> /\ save'.then = save.then
    BY <1>2 DEF Open, OpenFile, SaveOK, manualVars
  <2> QED
    BY <2>1 DEF EchoInv, InPreferences, EchoAgrees
<1>3. CASE Dump \/ Fail
  <2>1. /\ pc = "saving" /\ save.then \in Then /\ UNCHANGED <<flag, level, pref>>
        /\ pc' = After[save.then] \/ (pc' = "start" /\ save.then = "validate")
        /\ save.then # "validate" => settings' = settings
    BY <1>3 DEF Dump, DumpFile, Fail, WriteFails, SaveOK, manualVars
  <2>2. \/ pc' \in {"start", "validate", "exit"}
        \/ pc' = "running" /\ save.then = "font"
        \/ pc' = "apply" /\ save.then = "prefs"
    BY <2>1 DEF After, Then
  <2> QED
    BY <2>1, <2>2 DEF EchoInv, InPreferences, EchoAgrees
<1>4. CASE Start
  <2>1. pc' = "running" /\ settings' = settings /\ flag' = Get("echo", FALSE)
    BY <1>4 DEF Start, NewPanel, settingsVars
  <2>2. flag' \in BOOLEAN /\ (flag' = TRUE <=> settings'["echo"] = TRUE)
    BY <2>1, GetTyped DEF TypesInv, DocsTyped
  <2> QED
    BY <2>1, <2>2 DEF EchoInv, InPreferences, EchoAgrees
<1>5. CASE UseWindow \/ UsePanel \/ SendCommand \/ ApplyFont
  <2>1. UNCHANGED <<pc, save, settings, flag, level, pref>>
    BY <1>5 DEF UseWindow, UsePanel, SendCommand, ApplyFont, settingsVars, manualVars, lifeVars, Type, ToggleBox,
                HistoryUp, HistoryDown, Send
  <2> QED
    BY <2>1 DEF EchoInv, InPreferences, EchoAgrees
<1>6. CASE AcceptFont
  <2>a. PICK z : settings' = [settings EXCEPT !["size"] = z]
    BY <1>6 DEF AcceptFont
  <2>b. PICK d : save' = Saving(d, "font")
    BY <1>6 DEF AcceptFont, StartSave
  <2>2. pc = "running" /\ pc' = "saving" /\ flag' = flag
    BY <1>6 DEF AcceptFont, Act, manualVars
  <2>3. settings'["echo"] = settings["echo"]
    <3>1. settings = [k \in Key |-> settings[k]]
      BY DEF TypesInv, DocsTyped
    <3>2. settings' = [k \in Key |-> IF k = "size" THEN z ELSE settings[k]]
      BY <2>a, <3>1
    <3> QED
      BY <3>2 DEF Key
  <2> QED
    BY <2>b, <2>2, <2>3 DEF EchoInv, InPreferences, EchoAgrees
<1>7. CASE Preferences
  BY <1>7 DEF Preferences, EchoInv, InPreferences
<1>8. CASE SetSettings
  <2>1. IsPreferences(pref) /\ level \in Nat \ {0} /\ (level > 1 => flag = pref.echo)
    BY <1>8 DEF SetSettings, TypesInv, PrefTyped, InPreferences, EchoInv
  <2>2. DOMAIN pref = {"theme", "language", "size", "echo"} /\ pref["echo"] = pref.echo
    BY <2>1 DEF IsPreferences
  <2>3. settings'["echo"] = pref.echo
    BY <1>8, <2>2 DEF SetSettings, Key
  <2>4. PICK d : save' = Saving(d, "prefs")
    BY <1>8 DEF SetSettings, StartSave
  <2>5. pc' = "saving" /\ UNCHANGED <<level, pref, flag>>
    BY <1>8 DEF SetSettings, manualVars
  <2> QED
    BY <2>1, <2>3, <2>4, <2>5 DEF EchoInv, InPreferences
<1>9. CASE ApplySettings
  BY <1>9 DEF ApplySettings, EchoSetting, settingsVars, EchoInv, InPreferences
<1>10. CASE PublishSettings
  BY <1>10 DEF PublishSettings, settingsVars, manualVars, EchoInv, InPreferences
<1>11. CASE StackEnds
  <2>1. InPreferences /\ level > 1 /\ pc' = "running" /\ settings' = settings /\ flag' = flag
    BY <1>11, SessionAssumption DEF StackEnds, InPreferences, manualVars
  <2>2. settings["echo"] = pref.echo /\ flag = pref.echo /\ pref.echo \in BOOLEAN
    BY <2>1 DEF EchoInv, TypesInv, PrefTyped, IsPreferences
  <2>3. EchoAgrees'
    BY <2>1, <2>2 DEF EchoAgrees
  <2> QED
    BY <2>1, <2>3 DEF EchoInv, InPreferences
<1>12. CASE Close
  <2>1. PICK d : save' = Saving(d, "close") /\ pc' = "saving"
    BY <1>12 DEF Close, StartSave
  <2> QED
    BY <2>1 DEF EchoInv, InPreferences
<1>13. CASE Exit \/ Crash \/ EditFile
  <2>1. pc' = "off"
    BY <1>13 DEF Exit, Crash, Gone, EditFile
  <2> QED
    BY <2>1 DEF EchoInv, InPreferences
<1>14. CASE UNCHANGED vars
  BY <1>14 DEF vars, settingsVars, manualVars, lifeVars, EchoInv, InPreferences, EchoAgrees
<1> QED
  BY <1>1, <1>2, <1>3, <1>4, <1>5, <1>6, <1>7, <1>8, <1>9, <1>10, <1>11, <1>12, <1>13, <1>14 DEF Next

\* The local echo in force is the saved setting whenever the program is at rest, wherever the stack
\* of the nested handlers ended, and a command is echoed only when it is on and the command was
\* counted as sent (main_presenter.py, manual_control_presenter.py).
THEOREM EchoAlwaysFollows == Spec => EchoFollows
<1> DEFINE AtRest == pc' = "running" => flag' = (settings'["echo"] = TRUE)
           Echoed == sent' # sent /\ said'.echoed => settings["echo"] = TRUE /\ said'.counted
<1>1. EchoInv' => AtRest
  BY DEF EchoInv, EchoAgrees
<1>2. EchoInv /\ [Next]_vars => Echoed
  <2> SUFFICES ASSUME EchoInv, [Next]_vars, sent' # sent, said'.echoed PROVE settings["echo"] = TRUE /\ said'.counted
    OBVIOUS
  <2>1. CASE Start \/ Exit \/ Crash
    <3>1. said' = Unsaid
      BY <2>1 DEF Start, NewPanel, Exit, Crash, Gone
    <3> QED
      BY <3>1 DEF Unsaid
  <2>2. CASE SendCommand
    <3>1. PICK valid \in BOOLEAN, link \in Link : said' = Outcome(valid, link) /\ pc = "running"
      BY <2>2 DEF SendCommand, Send
    <3>2. flag /\ IsConnectionOpen(link)
      BY <3>1 DEF Outcome, Unsaid, BroadcastSent
    <3>3. said'.counted = TRUE
      BY <3>1, <3>2 DEF Outcome, Unsaid, BroadcastSent, SendData, SendDataToConnection
    <3> QED
      BY <3>1, <3>2, <3>3 DEF EchoInv, EchoAgrees
  <2>3. \/ Start \/ Exit \/ Crash \/ SendCommand
        \/ UNCHANGED sent
    BY DEF Next, Launch, Validate, Open, Dump, Fail, UseWindow, UsePanel, Type, ToggleBox, HistoryUp, HistoryDown,
           AcceptFont, ApplyFont, Preferences, SetSettings, ApplySettings, PublishSettings, StackEnds, Close,
           EditFile, vars, manualVars
  <2> QED
    BY <2>1, <2>2, <2>3
<1>3. EchoInv /\ EchoInv' /\ [Next]_vars => AtRest /\ Echoed
  BY <1>1, <1>2
<1> QED
  BY <1>3, SaveInit, SaveStep, LossInit, LossStep, TypesInit, TypesStep, EchoInit, EchoStep, PTL DEF Spec, EchoFollows

-----------------------------------------------------------------------------
(* What a session left *)

\* A document that says what the user saw.
Leaves(at, l) ==
    /\ at["manual"] = l.panel /\ at["shown"] = l.shown
    /\ l.panel \in ManualState /\ l.shown \in BOOLEAN
    /\ l.shown => at["splitter"] = l.width
    /\ ~l.shown /\ l.width # NoWidth => at["saved_width"] = l.width
    /\ l.width # None /\ (l.shown => l.width # NoWidth)
Seen == [panel |-> State, shown |-> shown, width |-> WindowWidth]
Complete(d) == d.current = TRUE /\ d.valid = TRUE
LeftInv ==
    left # None => /\ file.kind = "doc" /\ Complete(file.doc) /\ Leaves(file.doc.at, left)
                   /\ pc = "start" => settings = Merged(file.doc)
                   /\ pc = "saving" => save.then \notin {"reset", "validate"}
CloseInv ==
    pc = "saving" /\ save.then = "close" => Complete(save.doc) /\ Leaves(save.doc.at, Seen)

LEMMA LeftInit == Init => LeftInv /\ CloseInv
  BY DEF Init, LeftInv, CloseInv

\* What is written at the end is what is seen then.
LEMMA CloseTold ==
    ASSUME TypesInv, Close
    PROVE  Complete(save'.doc) /\ Leaves(save'.doc.at, Seen) /\ Seen' = Seen /\ save'.then = "close"
<1>1. /\ settings' = [settings EXCEPT !["shown"] = shown, !["manual"] = State, !["splitter"] = width,
                        !["saved_width"] = IF WindowWidth # NoWidth THEN WindowWidth ELSE @]
      /\ save' = Saving(Doc(TRUE, TRUE, settings'), "close") /\ UNCHANGED <<shown, width, savedWidth, panel, flag>>
  BY DEF Close, StartSave, appearanceVars, manualVars
<1>2. settings = [k \in Key |-> settings[k]]
  BY DEF TypesInv, DocsTyped
<1>3. settings' = [k \in Key |-> IF k = "shown" THEN shown ELSE IF k = "manual" THEN State
                             ELSE IF k = "splitter" THEN width
                             ELSE IF k = "saved_width" THEN (IF WindowWidth # NoWidth THEN WindowWidth ELSE settings[k])
                             ELSE settings[k]]
  BY <1>1, <1>2
<1>4. /\ settings'["shown"] = shown /\ settings'["manual"] = State /\ settings'["splitter"] = width
      /\ settings'["saved_width"] = IF WindowWidth # NoWidth THEN WindowWidth ELSE settings["saved_width"]
  BY <1>3 DEF Key
<1>5. State \in ManualState /\ shown \in BOOLEAN /\ width \notin {None, NoWidth} /\ savedWidth # None
  BY DEF TypesInv, PanelTyped, WindowTyped, State, ManualState
<1>6. /\ shown => WindowWidth = width /\ settings'["splitter"] = WindowWidth
      /\ ~shown /\ WindowWidth # NoWidth => settings'["saved_width"] = WindowWidth
      /\ WindowWidth # None /\ (shown => WindowWidth # NoWidth)
  BY <1>4, <1>5 DEF WindowWidth
<1>7. Leaves(settings', Seen)
  BY <1>4, <1>5, <1>6 DEF Leaves, Seen
<1>8. save'.doc = Doc(TRUE, TRUE, settings') /\ save'.then = "close"
  BY <1>1, SaveSteps
<1>9. Complete(save'.doc) /\ save'.doc.at = settings'
  BY <1>8 DEF Complete, Doc
<1>10. Seen' = Seen
  BY <1>1 DEF Seen, State, WindowWidth
<1> QED
  BY <1>7, <1>8, <1>9, <1>10

LEMMA LeftStep == SaveOK /\ LossInv /\ TypesInv /\ LeftInv /\ CloseInv /\ [Next]_vars => LeftInv' /\ CloseInv'
<1> SUFFICES ASSUME SaveOK, LossInv, TypesInv, LeftInv, CloseInv, [Next]_vars PROVE LeftInv' /\ CloseInv'
  OBVIOUS
<1> USE SaveSteps
<1>1. CASE Launch
  <2>1. /\ pc = "off" /\ left' = left /\ file' = file /\ pc' \in {"saving", "start", "validate"}
        /\ file.kind = "doc" /\ file.doc.current => pc' = "validate"
        /\ pc' = "saving" => save'.then \in {"reset", "validate"}
    BY <1>1 DEF Launch, LoadUnreadable, LoadNotObject, LoadOld, LoadCurrent, settingsVars, StartSave
  <2> QED
    BY <2>1 DEF LeftInv, CloseInv, Complete
<1>2. CASE Validate
  <2>1. CASE Accept /\ pc' = "start"
    BY <1>2, <2>1 DEF Validate, Accept, LeftInv, CloseInv
  <2>2. CASE Reject /\ pc' = "saving"
    <3>1. ~file.doc.valid /\ left' = left /\ pc = "validate" /\ save'.then = "reset"
      BY <1>2, <2>2 DEF Validate, Reject, StartSave
    <3>2. left = None
      BY <3>1 DEF LeftInv, Complete
    <3> QED
      BY <2>2, <3>1, <3>2 DEF LeftInv, CloseInv
  <2> QED
    BY <1>2, <2>1, <2>2 DEF Validate
<1>3. CASE Open
  <2>1. /\ left' = None /\ UNCHANGED <<pc, shown, width, savedWidth, panel, flag>> /\ save'.then = save.then /\ save'.doc = save.doc
    BY <1>3 DEF Open, OpenFile, SaveOK, appearanceVars, manualVars
  <2>2. Seen' = Seen
    BY <2>1 DEF Seen, State, WindowWidth
  <2> QED
    BY <2>1, <2>2 DEF LeftInv, CloseInv, Complete
<1>4. CASE Dump
  <2>1. /\ pc = "saving" /\ file'.kind = "doc" /\ file'.doc = save.doc /\ pc' = After[save.then] /\ save.then \in Then
        /\ left' = IF save.then = "close" THEN Seen ELSE None
    BY <1>4 DEF Dump, DumpFile, File, SaveOK, Seen, State
  <2>2. pc' # "saving" /\ (save.then = "close" => pc' = "exit")
    BY <2>1 DEF After, Then
  <2> QED
    BY <2>1, <2>2 DEF LeftInv, CloseInv
<1>5. CASE Fail
  <2>1. /\ pc = "saving" /\ file' = file /\ save.then \in Then /\ left' = left
        /\ pc' = IF save.then = "validate" THEN "start" ELSE After[save.then]
    BY <1>5 DEF Fail, WriteFails, SaveOK
  <2>2. pc' # "saving" /\ (pc' = "start" => save.then \in {"reset", "validate"})
    BY <2>1 DEF After, Then
  <2> QED
    BY <2>1, <2>2 DEF LeftInv, CloseInv
<1>6. CASE \/ Start \/ UseWindow \/ UsePanel \/ SendCommand \/ ApplyFont \/ Preferences
           \/ ApplySettings \/ PublishSettings \/ StackEnds \/ Exit \/ Crash
  <2>1. UNCHANGED <<left, file>> /\ pc' \notin {"saving", "start"}
    BY <1>6 DEF Start, UseWindow, UsePanel, SendCommand, ApplyFont, Act, Preferences, ApplySettings, PublishSettings,
                StackEnds, Exit, Crash, Gone, settingsVars, lifeVars
  <2> QED
    BY <2>1 DEF LeftInv, CloseInv
<1>7. CASE AcceptFont
  <2>1. PICK d : save' = Saving(d, "font")
    BY <1>7 DEF AcceptFont, StartSave
  <2>2. UNCHANGED <<left, file>> /\ pc' = "saving"
    BY <1>7 DEF AcceptFont
  <2> QED
    BY <2>1, <2>2 DEF LeftInv, CloseInv
<1>8. CASE SetSettings
  <2>1. PICK d : save' = Saving(d, "prefs")
    BY <1>8 DEF SetSettings, StartSave
  <2>2. UNCHANGED <<left, file>> /\ pc' = "saving"
    BY <1>8 DEF SetSettings
  <2> QED
    BY <2>1, <2>2 DEF LeftInv, CloseInv
<1>9. CASE Close
  <2>1. UNCHANGED <<left, file>> /\ pc' = "saving"
    BY <1>9 DEF Close
  <2>2. CloseInv'
    BY <1>9, CloseTold DEF CloseInv, Complete
  <2>3. save'.then = "close"
    BY <1>9, CloseTold
  <2> QED
    BY <2>1, <2>2, <2>3 DEF LeftInv
<1>10. CASE EditFile
  BY <1>10 DEF EditFile, LeftInv, CloseInv
<1>11. CASE UNCHANGED vars
  <2>1. UNCHANGED <<left, file, pc, settings, save, shown, width, savedWidth, panel, flag>>
    BY <1>11 DEF vars, settingsVars, appearanceVars, manualVars, lifeVars
  <2>2. Seen' = Seen
    BY <2>1 DEF Seen, State, WindowWidth
  <2> QED
    BY <2>1, <2>2 DEF LeftInv, CloseInv
<1> QED
  BY <1>1, <1>2, <1>3, <1>4, <1>5, <1>6, <1>7, <1>8, <1>9, <1>10, <1>11 DEF Next

\* What the user left when the state of the window was saved at the end of a session is what the
\* next session begins with, the right section shown in its width or hidden with the width it will be
\* shown in (main_window.py, main_presenter.py, lifecycle_manager.py).
THEOREM AlwaysComesBack == Spec => ComesBack
<1> DEFINE Back == pc = "start" /\ pc' = "running" /\ left # None =>
                     /\ panel' = left.panel /\ shown' = left.shown
                     /\ left.shown => width' = left.width
                     /\ ~left.shown /\ left.width # NoWidth => savedWidth' = left.width
<1>1. LeftInv /\ [Next]_vars => Back
  <2> SUFFICES ASSUME LeftInv, [Next]_vars, pc = "start", pc' = "running", left # None
               PROVE  /\ panel' = left.panel /\ shown' = left.shown
                      /\ left.shown => width' = left.width
                      /\ ~left.shown /\ left.width # NoWidth => savedWidth' = left.width
    OBVIOUS
  <2>1. Start
    BY DEF Next, Launch, Validate, Open, Dump, Fail, UseWindow, UsePanel, SendCommand, AcceptFont, ApplyFont, Act,
           Preferences, SetSettings, ApplySettings, PublishSettings, StackEnds, Close, Exit, Crash, Gone, EditFile,
           vars, lifeVars
  <2>2. settings = Merged(file.doc) /\ Leaves(file.doc.at, left)
    BY DEF LeftInv
  <2>3. None \notin BOOLEAN \cup ManualState
    BY DocumentsAssumption
  <2>4. \A k \in Key : file.doc.at[k] # None => settings[k] = file.doc.at[k]
    BY <2>2 DEF Merged
  <2>5. Get("manual", Off) = left.panel /\ Get("shown", TRUE) = left.shown
    BY <2>2, <2>3, <2>4 DEF Get, Leaves, Key
  <2>6. left.shown => SplitterRestored(Get("splitter", NoWidth)) = left.width
    <3>1. left.shown => settings["splitter"] = left.width /\ left.width \notin {None, NoWidth}
      BY <2>2, <2>4 DEF Leaves, Key
    <3> QED
      BY <3>1 DEF Get, SplitterRestored
  <2>7. ~left.shown /\ left.width # NoWidth => Get("saved_width", NoWidth) = left.width
    BY <2>2, <2>4 DEF Get, Leaves, Key
  <2> QED
    BY <2>1, <2>5, <2>6, <2>7 DEF Start, NewWindow, NewPanel
<1> QED
  BY <1>1, SaveInit, SaveStep, LossInit, LossStep, TypesInit, TypesStep, LeftInit, LeftStep, PTL DEF Spec, ComesBack

-----------------------------------------------------------------------------
(* What the window looks like *)

AreRules(rs) == \A i \in DOMAIN rs : ColorRule(rs[i])
ShadeIs(rs, shade) == \A i \in DOMAIN rs :
    LET own == IF shade = "light" THEN rs[i].light ELSE rs[i].dark
    IN  own # "" => rs[i].color = own
Looks == /\ mark = theme /\ theme \in Themes /\ sheet = Sheet(theme, font)
         /\ AreRules(rules) /\ ShadeIs(rules, IF switched THEN theme ELSE "dark")
ColorFileTyped == colorFile.kind = "rules" => AreRules(colorFile.rules)
Up == pc = "running" \/ InPreferences \/ (pc = "saving" /\ save.then \in {"font", "close"})
LooksInv == ColorFileTyped /\ (Up => Looks)

\* Rules that were coloured for a theme show the colours they have for it.
LEMMA Coloured ==
    ASSUME NEW rs, AreRules(rs), NEW name
    PROVE  AreRules(RulesIn(rs, name)) /\ ShadeIs(RulesIn(rs, name), name)
<1>1. ASSUME NEW r, ColorRule(r)
      PROVE  /\ ColorRule(Recoloured(r, name))
             /\ LET own == IF name = "light" THEN Recoloured(r, name).light ELSE Recoloured(r, name).dark
                IN  own # "" => Recoloured(r, name).color = own
  <2>1. PICK c, l, d : r = [color |-> c, light |-> l, dark |-> d]
    BY <1>1 DEF ColorRule
  <2>2. PICK own : own = IF name = "light" THEN l ELSE d
    OBVIOUS
  <2>3. PICK n : n = IF own # "" THEN own ELSE c
    OBVIOUS
  <2>4. Recoloured(r, name) = [color |-> n, light |-> l, dark |-> d]
    <3>1. r.color = c /\ r.light = l /\ r.dark = d
      BY <2>1
    <3>2. Recoloured(r, name) = [r EXCEPT !.color = n]
      BY <2>2, <2>3, <3>1 DEF Recoloured
    <3> QED
      BY <2>1, <3>2
  <2>5. PICK q : q = Recoloured(r, name)
    OBVIOUS
  <2>6. q = [color |-> n, light |-> l, dark |-> d] /\ q.color = n /\ q.light = l /\ q.dark = d
    BY <2>4, <2>5
  <2>7. ColorRule(q)
    BY <2>6 DEF ColorRule
  <2>8. LET o == IF name = "light" THEN q.light ELSE q.dark IN o # "" => q.color = o
    BY <2>2, <2>3, <2>6
  <2> QED
    BY <2>5, <2>7, <2>8
<1>2. DOMAIN RulesIn(rs, name) = DOMAIN rs /\ \A i \in DOMAIN rs : RulesIn(rs, name)[i] = Recoloured(rs[i], name)
  BY DEF RulesIn
<1>3. ASSUME NEW i \in DOMAIN rs
      PROVE  /\ ColorRule(RulesIn(rs, name)[i])
             /\ LET own == IF name = "light" THEN RulesIn(rs, name)[i].light ELSE RulesIn(rs, name)[i].dark
                IN  own # "" => RulesIn(rs, name)[i].color = own
  <2>1. RulesIn(rs, name)[i] = Recoloured(rs[i], name) /\ ColorRule(rs[i])
    BY <1>2 DEF AreRules
  <2> QED
    BY <1>1, <2>1
<1> QED
  BY <1>2, <1>3 DEF AreRules, ShadeIs

\* A theme that is applied is one of the menu, and the menu checks it.
LEMMA ThemeListed == \A name : /\ ThemeApplied(name) \in Themes
                               /\ name \in Themes => ThemeApplied(name) = name
                               /\ \A before : name \in Themes => MarkTheme(name, before) = name
  BY SessionAssumption DEF ThemeApplied, ThemeFile, MarkTheme

\* Switching the theme.
LEMMA Switched ==
    ASSUME NEW name \in Themes, AreRules(rules), SwitchTheme(name)
    PROVE  /\ theme' = name /\ sheet' = Sheet(name, font) /\ switched' = TRUE
           /\ AreRules(rules') /\ ShadeIs(rules', name)
<1>1. theme' = name /\ sheet' = Sheet(name, font) /\ switched' = TRUE /\ rules' = RulesIn(rules, name)
  BY ThemeListed DEF SwitchTheme
<1>2. AreRules(RulesIn(rules, name)) /\ ShadeIs(RulesIn(rules, name), name)
  BY Coloured
<1> QED
  BY <1>1, <1>2

\* The rules of a new process.
LEMMA ManagerMade ==
    ASSUME ColorFileTyped, NewColorManager
    PROVE  ColorFileTyped' /\ AreRules(rules') /\ ShadeIs(rules', "dark")
<1>1. AreRules(DefaultRules)
  <2>1. PICK r : r = [color |-> "", light |-> "L", dark |-> "D"]
    OBVIOUS
  <2>2. ColorRule(r)
    BY <2>1 DEF ColorRule
  <2>3. DefaultRules = <<r>>
    BY <2>1 DEF DefaultRules
  <2> QED
    BY <2>2, <2>3 DEF AreRules
<1>2. ASSUME NEW rs, AreRules(rs)
      PROVE  AreRules([i \in DOMAIN rs |-> Loaded(rs[i])])
  BY DEF AreRules, ColorRule, Loaded
<1>3. PICK rs : AreRules(rs) /\ rules' = RulesIn(rs, "dark")
  <2>1. CASE colorFile.kind = "rules"
    <3>1. AreRules([i \in DOMAIN colorFile.rules |-> Loaded(colorFile.rules[i])])
      BY <1>2, <2>1 DEF ColorFileTyped
    <3>2. rules' = RulesIn([i \in DOMAIN colorFile.rules |-> Loaded(colorFile.rules[i])], "dark")
      BY <2>1 DEF NewColorManager
    <3> QED
      BY <3>1, <3>2
  <2>2. CASE colorFile.kind # "rules"
    <3>1. rules' = RulesIn(DefaultRules, "dark")
      BY <2>2 DEF NewColorManager
    <3> QED
      BY <1>1, <3>1
  <2> QED
    BY <2>1, <2>2
<1>4. AreRules(RulesIn(rs, "dark")) /\ ShadeIs(RulesIn(rs, "dark"), "dark")
  BY <1>3, Coloured
<1>5. ColorFileTyped'
  <2>1. CASE colorFile.kind = "missing"
    <3>1. colorFile' = Saved(DefaultRules)
      BY <2>1 DEF NewColorManager
    <3> QED
      BY <1>1, <3>1 DEF ColorFileTyped, Saved
  <2>2. CASE colorFile.kind # "missing"
    BY <2>2 DEF NewColorManager, ColorFileTyped
  <2> QED
    BY <2>1, <2>2
<1> QED
  BY <1>3, <1>4, <1>5

LEMMA LooksInit == Init => LooksInv
<1> SUFFICES ASSUME Init PROVE LooksInv
  OBVIOUS
<1>1. pc = "off" /\ colorFile \in ColorFile
  BY DEF Init, AppearanceInit
<1> QED
  BY <1>1, AppearanceAssumption DEF LooksInv, AreRules, ColorFileTyped, Up, InPreferences

\* A step that touches neither the theme nor the colours keeps them.
LEMMA LooksKept ==
    ASSUME Looks, UNCHANGED <<mark, theme, sheet, font, rules, switched>>
    PROVE  Looks'
  BY DEF Looks, AreRules, ShadeIs

LEMMA LooksStep == SaveOK /\ LossInv /\ TypesInv /\ LooksInv /\ [Next]_vars => LooksInv'
<1> SUFFICES ASSUME SaveOK, TypesInv, LooksInv, [Next]_vars PROVE LooksInv'
  OBVIOUS
<1>1. CASE Launch \/ Validate
  <2>1. /\ UNCHANGED colorFile /\ pc' \in {"saving", "start", "validate"}
        /\ pc' = "saving" => save'.then \in {"reset", "validate"}
    BY <1>1, SaveSteps DEF Launch, Validate, LoadUnreadable, LoadNotObject, LoadOld, LoadCurrent, Accept, Reject,
                           StartSave, appearanceVars
  <2> QED
    BY <2>1 DEF LooksInv, ColorFileTyped, Up, InPreferences
<1>2. CASE Open \/ Dump \/ Fail
  <2>1. UNCHANGED <<colorFile, mark, theme, sheet, font, rules, switched>> /\ pc = "saving" /\ save.then \in Then
    BY <1>2 DEF Open, Dump, Fail, OpenFile, DumpFile, WriteFails, appearanceVars, SaveOK
  <2>2. Up' => Up
    <3>1. CASE Open
      <4>1. /\ save' = [save EXCEPT !.open = TRUE] /\ pc' = pc
            /\ save = [doc |-> save.doc, open |-> save.open, then |-> save.then]
        BY <3>1, <2>1 DEF Open, OpenFile, SaveOK
      <4>2. save'.then = save.then
        BY <4>1
      <4> QED
        BY <2>1, <4>1, <4>2 DEF Up, InPreferences
    <3>2. CASE Dump \/ Fail
      <4>1. pc' = After[save.then] \/ pc' = "start"
        BY <3>2 DEF Dump, Fail
      <4>2. pc' \in {"running", "apply"} => save.then \in {"font", "prefs"}
        BY <2>1, <4>1 DEF After, Then
      <4>3. pc' \in {"start", "validate", "apply", "running", "exit"}
        BY <2>1, <4>1 DEF After, Then
      <4> QED
        BY <2>1, <4>2, <4>3 DEF Up, InPreferences
    <3> QED
      BY <1>2, <3>1, <3>2
  <2> QED
    BY <2>1, <2>2, LooksKept DEF LooksInv, ColorFileTyped
<1>3. CASE Start
  <2>1. PICK name, code, size, visible, split, w : NewWindow(name, code, size, visible, split, w)
    BY <1>3 DEF Start
  <2>2. /\ theme' = ThemeApplied(name) /\ font' = size /\ sheet' = Sheet(ThemeApplied(name), size)
        /\ mark' = MarkTheme(theme', "") /\ NewColorManager /\ switched' = FALSE
    BY <2>1 DEF NewWindow
  <2>3. theme' \in Themes /\ mark' = theme' /\ sheet' = Sheet(theme', font')
    <3>1. ThemeApplied(name) \in Themes
      BY ThemeListed
    <3>2. MarkTheme(ThemeApplied(name), "") = ThemeApplied(name)
      BY <3>1, ThemeListed
    <3> QED
      BY <2>2, <3>1, <3>2
  <2>4. ColorFileTyped' /\ AreRules(rules') /\ ShadeIs(rules', "dark")
    BY <2>2, ManagerMade DEF LooksInv
  <2> QED
    BY <2>2, <2>3, <2>4 DEF LooksInv, Looks, AreRules, ShadeIs, Sheet
<1>4. CASE UseWindow
  <2>1. pc = "running" /\ Looks /\ ColorFileTyped
    BY <1>4 DEF UseWindow, Act, LooksInv, Up
  <2>2. ASSUME NEW t \in Themes, MenuTheme(t) PROVE Looks' /\ colorFile' = colorFile
    <3>1. SwitchTheme(t) /\ mark' = MarkTheme(t, mark) /\ font' = font /\ colorFile' = colorFile
      BY <2>2 DEF MenuTheme
    <3>2. theme' = t /\ sheet' = Sheet(t, font) /\ switched' = TRUE /\ AreRules(rules') /\ ShadeIs(rules', t)
      BY <2>1, <3>1, Switched DEF Looks
    <3>3. mark' = t
      BY <3>1, ThemeListed
    <3> QED
      BY <3>1, <3>2, <3>3 DEF Looks, AreRules, ShadeIs, Sheet
  <2>3. ASSUME NEW l \in Language, MenuLanguage(l) PROVE Looks' /\ colorFile' = colorFile
    <3>1. UNCHANGED <<theme, rules, colorFile, font, sheet, switched>> /\ mark' = theme'
      BY <2>3 DEF MenuLanguage, MenuRebuilt
    <3> QED
      BY <2>1, <3>1 DEF Looks, AreRules, ShadeIs
  <2>4. ASSUME NEW m \in BOOLEAN, ToggleRightSection(m) PROVE Looks' /\ colorFile' = colorFile
    BY <2>1, <2>4, LooksKept DEF ToggleRightSection
  <2>5. ASSUME NEW w \in Width, DragSection(w) PROVE Looks' /\ colorFile' = colorFile
    BY <2>1, <2>5, LooksKept DEF DragSection
  <2>6. Looks' /\ colorFile' = colorFile
    BY <1>4, <2>2, <2>3, <2>4, <2>5 DEF UseWindow
  <2> QED
    BY <2>1, <2>6 DEF LooksInv, ColorFileTyped
<1>5. CASE UsePanel \/ SendCommand \/ Preferences \/ SetSettings \/ PublishSettings \/ StackEnds \/ Close
  <2>1. UNCHANGED <<mark, theme, sheet, font, rules, switched, colorFile>> /\ Up
    BY <1>5 DEF UsePanel, SendCommand, Preferences, SetSettings, PublishSettings, StackEnds, Close, Act, appearanceVars,
                Up, InPreferences
  <2> QED
    BY <2>1, LooksKept DEF LooksInv, ColorFileTyped
<1>6. CASE AcceptFont \/ ApplyFont
  <2>1. PICK n : SetFont(n)
    BY <1>6 DEF AcceptFont, ApplyFont
  <2>2. UNCHANGED <<mark, theme, rules, switched, colorFile>> /\ Up
    BY <1>6 DEF AcceptFont, ApplyFont, Act, Up
  <2> QED
    BY <2>1, <2>2 DEF LooksInv, ColorFileTyped, Looks, SetFont, AreRules, ShadeIs, Sheet
<1>7. CASE ApplySettings
  <2>1. /\ SwitchTheme(pref.theme) /\ MenuAfter(pref.language, pref.theme)
        /\ UNCHANGED <<colorFile, font>> /\ pc = "apply"
    BY <1>7 DEF ApplySettings
  <2>2. pref.theme \in Themes /\ Looks
    BY <2>1 DEF TypesInv, PrefTyped, InPreferences, IsPreferences, LooksInv, Up
  <2>3. /\ theme' = pref.theme /\ sheet' = Sheet(pref.theme, font) /\ switched' = TRUE
        /\ AreRules(rules') /\ ShadeIs(rules', pref.theme)
    BY <2>1, <2>2, Switched DEF Looks
  <2>4. mark' = theme'
    BY <2>1, <2>2, <2>3, ThemeListed DEF MenuAfter, MenuRebuilt
  <2> QED
    BY <2>1, <2>2, <2>3, <2>4 DEF LooksInv, ColorFileTyped, Looks, AreRules, ShadeIs, Sheet
<1>8. CASE Exit \/ Crash \/ EditFile
  <2>1. pc' = "off" /\ colorFile' = colorFile
    BY <1>8 DEF Exit, Crash, Gone, EditFile, appearanceVars
  <2> QED
    BY <2>1 DEF LooksInv, ColorFileTyped, Up, InPreferences
<1>9. CASE UNCHANGED vars
  BY <1>9, LooksKept DEF vars, settingsVars, appearanceVars, lifeVars, LooksInv, ColorFileTyped, Up, InPreferences
<1> QED
  BY <1>1, <1>2, <1>3, <1>4, <1>5, <1>6, <1>7, <1>8, <1>9 DEF Next

\* Whatever was clicked, saved or restored, the menu checks the theme shown, every colour rule shows
\* its colour for that theme once it was switched and for a dark one before, and the style sheet has
\* the font shown (main_window.py, theme_manager.py, color_manager.py).
THEOREM AppearanceAlwaysAgrees == Spec => []AppearanceAgrees
<1>1. LooksInv => AppearanceAgrees
  BY DEF LooksInv, Up, Looks, ShadeIs, AppearanceAgrees
<1> QED
  BY <1>1, SaveInit, SaveStep, LossInit, LossStep, TypesInit, TypesStep, LooksInit, LooksStep, PTL DEF Spec
=============================================================================
