----------------------------- MODULE MacroProofs -----------------------------
(***************************************************************************)
(* Safety of macros, for any rows, plans, options, ports, scripts and      *)
(* bounds. First MacroRunner: each property is made inductive by saying    *)
(* where in run() the thread can be when it holds. Then MacroSession: the  *)
(* invariant of the runner holds under the window that drives it; beside   *)
(* it, an end of the macro the panel has not heard of is still to come.    *)
(* Last MacroList: what a move does to the selected rows is computed by    *)
(* recursive functions, shown to exist and to rearrange the rows at each   *)
(* index they pass (Recursion, Arranged); the files a run has written are  *)
(* those of rows that were typed (RowsOK, FilesOK).                        *)
(***************************************************************************)
EXTENDS MacroSession, MacroList, SequenceTheorems, FiniteSetTheorems, WellFoundedInduction, TLAPS

\* Points of run() between the choice of a row and the emission of its command.
BeforeSend == {"pauseTest", "pausedWait", "begin"}

\* Points at which there is a row at hand.
AtRow == BeforeSend \cup {"expectTest", "expecting", "failed", "raised", "policy", "raisedStop"}

RowAtHand == pc \in AtRow => pos >= 1

\* A pause is a pause of a running macro: _stop_internal() clears both flags.
PausedRuns == paused => running

\* Once a stopped thread has sent it is past the point where it could send again.
StopInv == sinceStop = 0 \/ (sinceStop = 1 /\ ~running /\ pc \notin BeforeSend)

\* The same for a pause, of which only the emission itself is not protected.
PauseInv == /\ sincePause \in {0, 1}
            /\ paused /\ pc = "begin" => sincePause = 0

\* What the matcher found it found while the row at hand waited.
FoundIsHeard == pc = "expecting" /\ found => heard

Inv == TypeOK /\ RowAtHand /\ PausedRuns /\ StopInv /\ PauseInv /\ RowsInOrder /\ FoundIsHeard

LEMMA InvInit == Init => Inv
<1> SUFFICES ASSUME Init PROVE Inv
  OBVIOUS
<1>1. SubSeq(<<>>, 1, 0) = <<>>
  OBVIOUS
<1>2. TypeOK
  <2>1. opt \in Options
    BY DEF Init, Options
  <2>2. entries \in Seq(Row) /\ list \in Seq(Row) /\ sentRows \in Seq(Row)
        /\ signals \in Seq(Kinds \X (Row \cup {0}) \X BOOLEAN)
    BY EmptySeq DEF Init
  <2>3. pos \in 0 .. Len(list)
    BY EmptySeq DEF Init
  <2>4. loop \in 0 .. MaxLoop /\ starts \in 0 .. MaxStarts /\ pauses \in 0 .. MaxPauses
    BY BoundAssumption DEF Init
  <2>5. /\ running \in BOOLEAN /\ paused \in BOOLEAN /\ matcher \in BOOLEAN /\ found \in BOOLEAN
        /\ mutex \in {"free", "lost"} /\ pc \in Points /\ heard \in BOOLEAN
        /\ caller \in {"idle", "starting", "launching", "stopping", "waiting"}
        /\ sinceStop \in Nat /\ sincePause \in Nat
    BY DEF Init, Points
  <2> QED
    BY <2>1, <2>2, <2>3, <2>4, <2>5 DEF TypeOK
<1>3. RowsInOrder
  BY <1>1 DEF Init, RowsInOrder
<1> QED
  BY <1>2, <1>3 DEF Init, Inv, RowAtHand, AtRow, BeforeSend, PausedRuns, StopInv, PauseInv,
     FoundIsHeard

\* The emission of a command, the one step that adds to the history of a pass.
LEMMA BeginKeepsInv == ASSUME Inv, Begin PROVE Inv'
<1> USE DEF Inv, Begin, RowToSend, CurrentRow
<1>1. pos \in 1 .. Len(list) /\ list \in Seq(Row)
  BY DEF TypeOK, RowAtHand, AtRow, BeforeSend
<1>2. list[pos] \in Row
  BY <1>1
<1>3. signals' \in Seq(Kinds \X (Row \cup {0}) \X BOOLEAN)
  <2>1. <<"send", list[pos], opt.broadcast>> \in Kinds \X (Row \cup {0}) \X BOOLEAN
    BY <1>2 DEF TypeOK, Kinds, Options
  <2> QED
    BY <2>1, AppendProperties DEF TypeOK
<1>4. sentRows' \in Seq(Row)
  BY <1>2, AppendProperties DEF TypeOK
<1>5. pc' \in {"expectTest", "delay"}
  OBVIOUS
<1>6. TypeOK'
  BY <1>3, <1>4, <1>5 DEF TypeOK, shared, bounds, Points
<1>7. RowsInOrder'
  <2>1. sentRows = SubSeq(list, 1, pos - 1)
    BY DEF RowsInOrder
  <2>2. Append(SubSeq(list, 1, pos - 1), list[pos]) = SubSeq(list, 1, pos)
    BY <1>1
  <2> QED
    BY <1>5, <2>1, <2>2 DEF RowsInOrder
<1>8. RowAtHand' /\ PausedRuns'
  BY <1>1, <1>5 DEF RowAtHand, PausedRuns, shared
<1>9. StopInv' /\ PauseInv'
  BY <1>5 DEF StopInv, PauseInv, BeforeSend, TypeOK, PausedRuns, shared
<1>10. FoundIsHeard'
  BY <1>5 DEF FoundIsHeard
<1> QED
  BY <1>6, <1>7, <1>8, <1>9, <1>10

\* The other steps of the thread that change the row or the list.
LEMMA PassKeepsInv == ASSUME Inv, BeginLoop \/ RowTest \/ EmitError PROVE Inv'
<1> USE DEF Inv
<1>1. CASE BeginLoop
  <2>1. SubSeq(entries, 1, 0) = <<>> /\ Len(entries) \in Nat /\ 0 <= Len(entries)
    BY DEF TypeOK
  <2>2. TypeOK'
    <3>1. loop' \in 0 .. MaxLoop
      BY <1>1, BoundAssumption DEF BeginLoop, NextLoop, TypeOK
    <3>2. list' \in Seq(Row) /\ pos' \in 0 .. Len(list') /\ sentRows' \in Seq(Row)
      <4>1. CASE LoopsDone
        BY <1>1, <4>1 DEF BeginLoop, TypeOK
      <4>2. CASE ~LoopsDone
        <5>1. list' = entries /\ pos' = 0 /\ sentRows' = <<>>
          BY <1>1, <4>2 DEF BeginLoop, BeforeFirstRow
        <5> QED
          BY <2>1, <5>1, EmptySeq DEF TypeOK
      <4> QED
        BY <4>1, <4>2
    <3>3. pc' \in Points
      BY <1>1 DEF BeginLoop, Points
    <3> QED
      BY <1>1, <3>1, <3>2, <3>3 DEF BeginLoop, TypeOK, shared, bounds
  <2>3. RowsInOrder'
    BY <1>1, <2>1 DEF BeginLoop, BeforeFirstRow, RowsInOrder, shared
  <2> QED
    BY <1>1, <2>2, <2>3 DEF BeginLoop, shared, bounds, RowAtHand, PausedRuns, StopInv, PauseInv,
       FoundIsHeard, AtRow, BeforeSend
<1>2. CASE RowTest
  <2>1. TypeOK'
    BY <1>2 DEF RowTest, MoreRows, TypeOK, shared, bounds, history, Points
  <2>2. RowsInOrder'
    BY <1>2 DEF RowTest, MoreRows, RowsInOrder, TypeOK, shared, history
  <2> QED
    BY <1>2, <2>1, <2>2 DEF RowTest, MoreRows, TypeOK, shared, bounds, history, RowAtHand,
       PausedRuns, StopInv, PauseInv, FoundIsHeard, AtRow, BeforeSend
<1>3. CASE EmitError
  <2>1. pos \in 1 .. Len(list) /\ list \in Seq(Row)
    BY <1>3 DEF EmitError, TypeOK, RowAtHand, AtRow
  <2>2. list[pos] \in Row
    BY <2>1
  <2>3. signals' \in Seq(Kinds \X (Row \cup {0}) \X BOOLEAN)
    <3>1. <<"error", list[pos], FALSE>> \in Kinds \X (Row \cup {0}) \X BOOLEAN
      BY <2>2 DEF Kinds
    <3> QED
      BY <1>3, <3>1, AppendProperties DEF EmitError, CurrentRow, TypeOK
  <2>4. TypeOK'
    BY <1>3, <2>3 DEF EmitError, TypeOK, shared, bounds, history, Points
  <2> QED
    BY <1>3, <2>4 DEF EmitError, shared, bounds, history, RowAtHand, PausedRuns, StopInv,
       PauseInv, FoundIsHeard, AtRow, BeforeSend, RowsInOrder
<1> QED
  BY <1>1, <1>2, <1>3

LEMMA RunKeepsInv == ASSUME Inv, Run PROVE Inv'
<1> USE DEF Inv
<1>1. CASE LoopTest
  BY <1>1 DEF LoopTest, TypeOK, shared, bounds, history, Points, RowAtHand, PausedRuns, StopInv,
     PauseInv, FoundIsHeard, AtRow, BeforeSend, RowsInOrder
<1>2. CASE HandlePause
  BY <1>2 DEF HandlePause, MustPause, TypeOK, shared, bounds, history, Points, RowAtHand,
     PausedRuns, StopInv, PauseInv, FoundIsHeard, AtRow, BeforeSend, RowsInOrder
<1>3. CASE WaitForExpect
  BY <1>3 DEF WaitForExpect, TypeOK, shared, bounds, Points, RowAtHand,
     PausedRuns, StopInv, PauseInv, FoundIsHeard, AtRow, BeforeSend, RowsInOrder
<1>4. CASE ExpectReturns
  BY <1>4 DEF ExpectReturns, TypeOK, shared, bounds, history, Points, RowAtHand,
     PausedRuns, StopInv, PauseInv, FoundIsHeard, AtRow, BeforeSend, RowsInOrder
<1>5. CASE FailedRow
  <2>1. TypeOK'
    <3>1. running' \in BOOLEAN /\ paused' \in BOOLEAN /\ sinceStop' \in Nat /\ pc' \in Points
      <4>1. CASE opt.stopOnError \/ pc = "raisedStop"
        <5>1. running' = FALSE /\ pc' = "interval"
              /\ paused' = (IF running THEN FALSE ELSE paused)
              /\ sinceStop' = (IF running THEN 0 ELSE sinceStop)
          BY <1>5, <4>1 DEF FailedRow
        <5> QED
          BY <5>1 DEF TypeOK, Points
      <4>2. CASE ~(opt.stopOnError \/ pc = "raisedStop")
        BY <1>5, <4>2 DEF FailedRow, TypeOK, Points
      <4> QED
        BY <4>1, <4>2
    <3> QED
      BY <1>5, <3>1 DEF FailedRow, TypeOK, bounds
  <2> QED
    BY <1>5, <2>1 DEF FailedRow, TypeOK, bounds, RowAtHand, PausedRuns,
       StopInv, PauseInv, FoundIsHeard, AtRow, BeforeSend, RowsInOrder
<1>6. CASE Sleep
  BY <1>6 DEF Sleep, TypeOK, shared, bounds, history, Points, RowAtHand,
     PausedRuns, StopInv, PauseInv, FoundIsHeard, AtRow, BeforeSend, RowsInOrder
<1>7. CASE SleepEnds
  BY <1>7 DEF SleepEnds, Woken, TypeOK, shared, bounds, history, Points, RowAtHand,
     PausedRuns, StopInv, PauseInv, FoundIsHeard, AtRow, BeforeSend, RowsInOrder
<1>8. CASE Teardown
  BY <1>8 DEF Teardown, TypeOK, bounds, Points, RowAtHand,
     PausedRuns, StopInv, PauseInv, FoundIsHeard, AtRow, BeforeSend, RowsInOrder
<1>9. CASE EmitFinished
  <2>1. signals' \in Seq(Kinds \X (Row \cup {0}) \X BOOLEAN)
    <3>1. <<"finished", 0, FALSE>> \in Kinds \X (Row \cup {0}) \X BOOLEAN
      BY DEF Kinds
    <3> QED
      BY <1>9, <3>1, AppendProperties DEF EmitFinished, TypeOK
  <2>2. TypeOK'
    BY <1>9, <2>1 DEF EmitFinished, TypeOK, shared, bounds, history, Points
  <2> QED
    BY <1>9, <2>2 DEF EmitFinished, shared, bounds, history, RowAtHand,
       PausedRuns, StopInv, PauseInv, FoundIsHeard, AtRow, BeforeSend, RowsInOrder
<1>10. CASE ThreadEnds
  BY <1>10 DEF ThreadEnds, TypeOK, shared, bounds, history, Points, RowAtHand,
     PausedRuns, StopInv, PauseInv, FoundIsHeard, AtRow, BeforeSend, RowsInOrder
<1> QED
  BY <1>1, <1>2, <1>3, <1>4, <1>5, <1>6, <1>7, <1>8, <1>9, <1>10, BeginKeepsInv, PassKeepsInv
  DEF Run

LEMMA GuiKeepsInv == ASSUME Inv, Gui PROVE Inv'
<1> USE DEF Inv
<1>1. ASSUME NEW lines \in Plan, LoadMacro(lines) PROVE Inv'
  BY <1>1, PlanAssumption, BoundAssumption DEF LoadMacro, TypeOK, thread, history, Points,
     RowAtHand, PausedRuns, StopInv, PauseInv, FoundIsHeard, AtRow, BeforeSend, RowsInOrder
<1>2. ASSUME NEW o \in Option, StartFlags(o) PROVE Inv'
  BY <1>2, OptionAssumption, ZenonT(40) DEF StartFlags, TypeOK, thread, bounds, Points,
     RowAtHand, PausedRuns, StopInv, PauseInv, FoundIsHeard, AtRow, BeforeSend, RowsInOrder
<1>3. CASE Launch
  BY <1>3, BoundAssumption DEF Launch, IsRunning, TypeOK, shared, bounds, history, Points,
     RowAtHand, PausedRuns, StopInv, PauseInv, FoundIsHeard, AtRow, BeforeSend, RowsInOrder
<1>4. CASE StopCalled \/ StopReturn
  <2>1. TypeOK'
    BY <1>4 DEF StopCalled, StopReturn, TypeOK, shared, thread, bounds, history, Points
  <2> QED
    BY <1>4, <2>1 DEF StopCalled, StopReturn, TypeOK, shared, thread, bounds, history, RowAtHand, PausedRuns,
       StopInv, PauseInv, FoundIsHeard, AtRow, BeforeSend, RowsInOrder
<1>5. CASE StopInternal
  <2>1. TypeOK'
    BY <1>5 DEF StopInternal, ClearFlags, Woken, TypeOK, bounds, Points
  <2> QED
    BY <1>5, <2>1 DEF StopInternal, ClearFlags, Woken, TypeOK, bounds, RowAtHand, PausedRuns,
       StopInv, PauseInv, FoundIsHeard, AtRow, BeforeSend, RowsInOrder
<1>6. CASE Pause
  BY <1>6, BoundAssumption DEF Pause, TypeOK, thread, Points,
     RowAtHand, PausedRuns, StopInv, PauseInv, FoundIsHeard, AtRow, BeforeSend, RowsInOrder
<1>7. CASE Resume
  <2>1. TypeOK'
    BY <1>7 DEF Resume, Woken, TypeOK, bounds, history, Points
  <2> QED
    BY <1>7, <2>1 DEF Resume, Woken, TypeOK, bounds, history, RowAtHand, PausedRuns,
       StopInv, PauseInv, FoundIsHeard, AtRow, BeforeSend, RowsInOrder
<1>8. ASSUME NEW matches \in BOOLEAN, DataReceived(matches) PROVE Inv'
  <2>1. heard' \in BOOLEAN
    BY <1>8, Zenon DEF DataReceived
  <2>2. TypeOK'
    BY <1>8, <2>1 DEF DataReceived, TypeOK, thread, bounds
  <2>3. FoundIsHeard'
    BY <1>8 DEF DataReceived, TypeOK, thread, FoundIsHeard
  <2> QED
    BY <1>8, <2>2, <2>3 DEF DataReceived, thread, bounds, RowAtHand, PausedRuns, StopInv,
       PauseInv, RowsInOrder
<1>9. CASE Deliver
  <2>1. signals' \in Seq(Kinds \X (Row \cup {0}) \X BOOLEAN)
    BY <1>9, HeadTailProperties DEF Deliver, TypeOK
  <2>2. TypeOK'
    BY <1>9, <2>1 DEF Deliver, TypeOK, shared, thread, bounds, history
  <2> QED
    BY <1>9, <2>2 DEF Deliver, shared, thread, bounds, history, RowAtHand, PausedRuns, StopInv,
       PauseInv, FoundIsHeard, RowsInOrder
<1> QED
  BY <1>1, <1>2, <1>3, <1>4, <1>5, <1>6, <1>7, <1>8, <1>9 DEF Gui

LEMMA StutterKeepsInv == ASSUME Inv, UNCHANGED vars PROVE Inv'
  BY DEF Inv, vars, shared, thread, bounds, history, TypeOK, RowAtHand, PausedRuns, StopInv,
     PauseInv, FoundIsHeard, RowsInOrder

LEMMA Invariance == Spec => []Inv
<1>1. Inv /\ [Next]_vars => Inv'
  BY RunKeepsInv, GuiKeepsInv, StutterKeepsInv DEF Next
<1> QED
  BY InvInit, <1>1, PTL DEF Spec

\* Type correctness, with the place in the row list within the list (run).
THEOREM TypeCorrect == Spec => []TypeOK
<1>1. Inv => TypeOK
  BY DEF Inv
<1> QED
  BY <1>1, Invariance, PTL

\* After a stop the thread asks for at most one more command (run, _check_running).
THEOREM StopIsNearlyFinal == Spec => []StoppedSendsAtMostOne
<1>1. Inv => StoppedSendsAtMostOne
  BY DEF Inv, StopInv, StoppedSendsAtMostOne
<1> QED
  BY <1>1, Invariance, PTL

\* After a pause the thread asks for at most one more command (_handle_pause).
THEOREM PauseIsNearlyFinal == Spec => []PausedSendsAtMostOne
<1>1. Inv => PausedSendsAtMostOne
  BY DEF Inv, PauseInv, PausedSendsAtMostOne
<1> QED
  BY <1>1, Invariance, PTL

\* A pass asks for the rows of its list in order, once each (run).
THEOREM PassInOrder == Spec => []RowsInOrder
<1>1. Inv => RowsInOrder
  BY DEF Inv
<1> QED
  BY <1>1, Invariance, PTL

\* A row succeeds only on data that came while it waited (_wait_for_expect).
THEOREM SuccessWasHeard == Spec => ExpectAnswered
<1>1. Inv /\ [Next]_vars => [pc = "expecting" /\ pc' = "delay" => heard]_vars
  <2> SUFFICES ASSUME Inv, Next, pc = "expecting", pc' = "delay" PROVE heard
    BY DEF vars
  <2>1. CASE ExpectReturns
    BY <2>1 DEF ExpectReturns, Success, Inv, FoundIsHeard
  <2>2. CASE Run /\ ~ExpectReturns
    BY <2>2 DEF Run, LoopTest, BeginLoop, RowTest, HandlePause, Begin, WaitForExpect, EmitError,
       FailedRow, Sleep, SleepEnds, Teardown, EmitFinished, ThreadEnds
  <2>3. CASE Gui
    BY <2>3 DEF Gui, LoadMacro, StartFlags, Launch, IsRunning, StopCalled, StopInternal, ClearFlags,
       Woken, StopReturn, Pause, Resume, DataReceived, Deliver, thread
  <2> QED
    BY <2>1, <2>2, <2>3 DEF Next
<1> QED
  BY <1>1, Invariance, PTL DEF Spec, ExpectAnswered

\* For every plan and option, neither a stop nor a pause lets more than one command through.
THEOREM StopAndPauseAreNearlyFinal == Spec => []SendsAtMostOne
  BY StopIsNearlyFinal, PauseIsNearlyFinal, PTL DEF SendsAtMostOne

-----------------------------------------------------------------------------
(* The session *)

\* A signal that takes the panel out of its running state.
EndsPanel(s) == s[1] \in {"finished", "error"}
EndQueued == \E i \in 1 .. Len(signals) : EndsPanel(signals[i])

\* The thread has still to say that it ends.
EndToCome == pc \notin {"off", "ending"}

\* A panel that offers to stop a macro will learn of its end: macro_finished is queued or
\* still to be emitted, or stop() is under way. Otherwise a flag is up that only stop() clears.
PanelLearns ==
    /\ stoppable => running \/ EndQueued \/ EndToCome \/ caller \in {"stopping", "waiting"}
    /\ caller = "launching" => running \/ EndQueued \/ EndToCome \/ pc = "off"

ClosedIsOver == closed => ~IsRunning /\ caller = "idle"

SInv == Inv /\ PanelLearns /\ ClosedIsOver

-----------------------------------------------------------------------------
\* The handover of a command is a delivery that may begin a stop.
LEMMA SendKeepsInv == ASSUME Inv, TakeSend PROVE Inv'
<1>1. signals' \in Seq(Kinds \X (Row \cup {0}) \X BOOLEAN)
  BY HeadTailProperties DEF TakeSend, Inv, TypeOK
<1>2. TypeOK'
  BY <1>1 DEF TakeSend, Inv, TypeOK, shared, thread, bounds, history
<1> QED
  BY <1>2 DEF TakeSend, Inv, shared, thread, bounds, history, RowAtHand, PausedRuns, StopInv,
     PauseInv, FoundIsHeard, RowsInOrder

\* Every other step of the session is one of MacroRunner or none.
LEMMA SessionIsRunner == SessionNext => TakeSend \/ Next \/ UNCHANGED vars
<1> SUFFICES ASSUME SessionNext PROVE TakeSend \/ Next \/ UNCHANGED vars
  OBVIOUS
<1>1. CASE StartClicked
  BY <1>1 DEF StartClicked, Next, Gui
<1>2. CASE FlagsSet
  BY <1>2 DEF FlagsSet, Next, Gui
<1>3. CASE Started \/ StopClicked \/ FlagsCleared \/ Stopped
  BY <1>3 DEF Started, StopClicked, FlagsCleared, Stopped, Next, Gui
<1>4. CASE PauseClicked \/ TakeFinished \/ CloseWindow
  BY <1>4 DEF PauseClicked, TakeFinished, CloseWindow, Next, Gui
<1>5. ASSUME NEW p \in Port, PortClosed(p) PROVE Next \/ UNCHANGED vars
  BY <1>5 DEF PortClosed, Next, Gui
<1>6. ASSUME NEW p \in Port, PortOpened(p) \/ PortEnds(p) \/ TabChanged(p) PROVE UNCHANGED vars
  BY <1>6 DEF PortOpened, PortEnds, TabChanged
<1>7. CASE BroadcastToggled
  BY <1>7 DEF BroadcastToggled
<1>8. CASE Run
  BY <1>8 DEF Next
<1> QED
  BY <1>1, <1>2, <1>3, <1>4, <1>5, <1>6, <1>7, <1>8 DEF SessionNext

LEMMA RunnerInvKept == Inv /\ [SessionNext]_sessionVars => Inv'
<1>1. ASSUME Inv, Next PROVE Inv'
  BY <1>1, RunKeepsInv, GuiKeepsInv DEF Next
<1>2. UNCHANGED sessionVars => UNCHANGED vars
  BY DEF sessionVars
<1> QED
  BY <1>1, <1>2, SendKeepsInv, SessionIsRunner, StutterKeepsInv

-----------------------------------------------------------------------------
(* The panel *)

\* A step of the thread leaves the end of the macro queued or to come.
LEMMA RunTellsEnd ==
    ASSUME Inv, Run
    PROVE  /\ caller' = caller /\ pc # "off"
           /\ EndToCome => EndToCome' \/ EndQueued'
           /\ EndQueued => EndQueued'
           /\ running => running' \/ EndToCome'
           /\ pc = "ending" => pc' = "off"
<1> USE DEF EndToCome, Inv
<1>1. CASE EmitFinished
  <2> DEFINE s == <<"finished", 0, FALSE>>
  <2>1. signals \in Seq(Kinds \X (Row \cup {0}) \X BOOLEAN) /\ s \in Kinds \X (Row \cup {0}) \X BOOLEAN
        /\ s[1] = "finished"
    BY DEF TypeOK, Kinds
  <2>2. signals' = Append(signals, s)
    BY <1>1 DEF EmitFinished
  <2> HIDE DEF s
  <2>3. Len(signals') = Len(signals) + 1 /\ signals'[Len(signals) + 1] = s /\ Len(signals) \in Nat
    BY <2>1, <2>2, AppendProperties
  <2>4. EndQueued'
    BY <2>1, <2>3 DEF EndQueued, EndsPanel
  <2> QED BY <1>1, <2>4 DEF EmitFinished, shared
<1>2. CASE EmitError \/ Begin
  <2>1. pos \in 1 .. Len(list) /\ list \in Seq(Row) /\ list[pos] \in Row
    <3>1. pc \in AtRow
      BY <1>2 DEF EmitError, Begin, AtRow, BeforeSend
    <3>2. pos \in 0 .. Len(list) /\ list \in Seq(Row) /\ pos >= 1
      BY <3>1 DEF TypeOK, RowAtHand
    <3> QED BY <3>2
  <2>2. PICK s \in Kinds \X (Row \cup {0}) \X BOOLEAN : signals' = Append(signals, s)
    <3>1. CASE EmitError
      <4>1. <<"error", list[pos], FALSE>> \in Kinds \X (Row \cup {0}) \X BOOLEAN
        BY <2>1 DEF Kinds
      <4> QED BY <3>1, <4>1 DEF EmitError, CurrentRow
    <3>2. CASE Begin
      <4>1. <<"send", list[pos], opt.broadcast>> \in Kinds \X (Row \cup {0}) \X BOOLEAN
        BY <2>1 DEF Kinds, TypeOK, Options
      <4> QED BY <3>2, <4>1 DEF Begin, RowToSend, CurrentRow
    <3> QED BY <1>2, <3>1, <3>2
  <2>3. /\ Len(signals') = Len(signals) + 1 /\ Len(signals) \in Nat
        /\ \A i \in 1 .. Len(signals) : signals'[i] = signals[i]
    BY <2>2, AppendProperties DEF TypeOK
  <2>4. EndQueued => EndQueued'
    BY <2>3 DEF EndQueued
  <2> QED BY <1>2, <2>4 DEF EmitError, Begin, shared
<1>3. CASE ~(EmitFinished \/ EmitError \/ Begin)
  <2>1. signals' = signals
    BY <1>3 DEF Run, LoopTest, BeginLoop, RowTest, HandlePause, WaitForExpect, ExpectReturns,
       FailedRow, Sleep, SleepEnds, Teardown, ThreadEnds
  <2>2. EndQueued' <=> EndQueued
    BY <2>1 DEF EndQueued
  <2>3. CASE LoopTest \/ BeginLoop \/ RowTest \/ HandlePause
    BY <2>2, <2>3 DEF LoopTest, BeginLoop, RowTest, HandlePause, shared
  <2>4. CASE WaitForExpect \/ ExpectReturns \/ FailedRow
    BY <2>2, <2>4 DEF WaitForExpect, ExpectReturns, FailedRow, shared
  <2>5. CASE Sleep \/ SleepEnds \/ Teardown \/ ThreadEnds
    <3>1. CASE Sleep
      BY <2>2, <3>1 DEF Sleep, shared
    <3>2. CASE SleepEnds
      BY <2>2, <3>2 DEF SleepEnds, Woken, shared
    <3>3. CASE Teardown
      BY <2>2, <3>3 DEF Teardown
    <3>4. CASE ThreadEnds
      BY <2>2, <3>4 DEF ThreadEnds, shared
    <3> QED BY <2>5, <3>1, <3>2, <3>3, <3>4
  <2> QED BY <1>3, <2>3, <2>4, <2>5 DEF Run
<1> QED BY <1>1, <1>2, <1>3

LEMMA SendKeepsEnd == ASSUME Inv, TakeSend PROVE EndQueued => EndQueued'
<1>1. /\ signals # <<>> /\ Head(signals)[1] = "send" /\ signals' = Tail(signals)
      /\ signals \in Seq(Kinds \X (Row \cup {0}) \X BOOLEAN)
  BY DEF TakeSend, Inv, TypeOK
<1>2. /\ Len(signals') = Len(signals) - 1 /\ signals[1][1] = "send" /\ Len(signals) \in Nat
      /\ \A i \in 1 .. Len(signals) - 1 : signals'[i] = signals[i + 1]
  BY <1>1, HeadTailProperties
<1> SUFFICES ASSUME NEW i \in 1 .. Len(signals), EndsPanel(signals[i]) PROVE EndQueued'
  BY DEF EndQueued
<1>3. i # 1
  BY <1>2 DEF EndsPanel
<1>4. i - 1 \in 1 .. Len(signals') /\ signals'[i - 1] = signals[i]
  BY <1>2, <1>3
<1> QED BY <1>4 DEF EndQueued

LEMMA PanelStep == SInv /\ [SessionNext]_sessionVars => PanelLearns' /\ ClosedIsOver'
<1> SUFFICES ASSUME SInv, [SessionNext]_sessionVars PROVE PanelLearns' /\ ClosedIsOver'
  OBVIOUS
<1> USE DEF SInv
<1> USE DEF panel, ports, session, shared, thread, bounds, history, vars, sessionVars
<1>1. CASE UNCHANGED <<stoppable, running, signals, pc, caller, closed>>
  BY <1>1 DEF PanelLearns, ClosedIsOver, EndQueued, EndToCome, IsRunning
<1>2. CASE UNCHANGED sessionVars
  BY <1>1, <1>2
<1>3. CASE StartClicked
  BY <1>3 DEF StartClicked, LoadMacro, Idle, PanelLearns, ClosedIsOver, IsRunning, EndQueued, EndToCome
<1>4. CASE FlagsSet
  BY <1>4 DEF FlagsSet, StartFlags, PanelLearns, ClosedIsOver, IsRunning
<1>5. CASE Started
  BY <1>5 DEF Started, Launch, SetRunning, PanelLearns, ClosedIsOver, IsRunning, EndQueued, EndToCome
<1>6. CASE StopClicked
  BY <1>6 DEF StopClicked, StopCalled, Idle, PanelLearns, ClosedIsOver, IsRunning
<1>7. CASE FlagsCleared
  BY <1>7 DEF FlagsCleared, StopInternal, PanelLearns, ClosedIsOver, IsRunning
<1>8. CASE Stopped
  BY <1>8 DEF Stopped, StopReturn, ThreadEnded, PanelAfterStop, SetRunning, PanelLearns,
     ClosedIsOver, IsRunning
<1>9. CASE PauseClicked
  BY <1>9 DEF PauseClicked, Pause, Resume, Idle, Woken, PanelLearns, ClosedIsOver, IsRunning,
     EndQueued, EndToCome
<1>10. CASE BroadcastToggled
  BY <1>1, <1>10 DEF BroadcastToggled, UpdateControls
<1>11. CASE TakeFinished
  BY <1>11 DEF TakeFinished, Deliver, PanelOnFinished, SetRunning, Idle, PanelLearns, ClosedIsOver
<1>12. CASE TakeSend
  <2>1. /\ ~closed /\ UNCHANGED <<stoppable, running, pc, closed>>
        /\ caller = "idle" /\ caller' \in {"idle", "stopping"}
    BY <1>12 DEF TakeSend, Idle
  <2> QED BY <1>12, <2>1, SendKeepsEnd DEF PanelLearns, ClosedIsOver, EndToCome
<1>13. CASE CloseWindow
  BY <1>13 DEF CloseWindow, StopsOnClose, StopCalled, Idle, PanelLearns, ClosedIsOver, IsRunning,
     EndQueued, EndToCome
<1>14. ASSUME NEW p \in Port, PortOpened(p) \/ PortEnds(p) \/ TabChanged(p)
       PROVE  PanelLearns' /\ ClosedIsOver'
  BY <1>1, <1>14 DEF PortOpened, PortEnds, TabChanged, UpdateControls
<1>15. ASSUME NEW p \in Port, PortClosed(p) PROVE PanelLearns' /\ ClosedIsOver'
  BY <1>15 DEF PortClosed, StopCalled, UpdateControls, Idle, PanelLearns, ClosedIsOver, IsRunning,
     EndQueued, EndToCome
<1>16. CASE Run /\ UNCHANGED session
  <2>1. UNCHANGED <<stoppable, closed>>
    BY <1>16
  <2> QED BY <1>16, <2>1, RunTellsEnd DEF PanelLearns, ClosedIsOver, IsRunning, EndToCome
<1> QED
  BY <1>2, <1>3, <1>4, <1>5, <1>6, <1>7, <1>8, <1>9, <1>10, <1>11, <1>12, <1>13, <1>14, <1>15,
     <1>16 DEF SessionNext

-----------------------------------------------------------------------------
LEMMA SessionInvariance == SessionSpec => []SInv
<1>1. SessionInit => SInv
  BY InvInit DEF SessionInit, Init, SInv, PanelLearns, ClosedIsOver, IsRunning
<1>2. SInv /\ [SessionNext]_sessionVars => SInv'
  BY RunnerInvKept, PanelStep DEF SInv
<1> QED
  BY <1>1, <1>2, PTL DEF SessionSpec

\* When nothing of a macro goes on any more the panel does not offer to stop or pause one, in
\* whatever order the thread's end, stop() and the queued signals came, and a closed window has
\* left no thread behind, for any macro, ports and options (on_macro_finished,
\* on_repeat_stop, set_running_state, on_close_requested).
THEOREM PanelIsQuiet == SessionSpec => []QuietPanel
<1>1. SInv => QuietPanel
  <2> SUFFICES ASSUME SInv PROVE QuietPanel
    OBVIOUS
  <2>1. Quiet => ~EndQueued
    BY DEF Quiet, EndQueued
  <2> QED
    BY <2>1 DEF SInv, PanelLearns, ClosedIsOver, QuietPanel, Quiet, Idle, IsRunning, EndToCome
<1> QED
  BY SessionInvariance, <1>1, PTL

\* What MacroRunner promises of stops and pauses holds under the window as well, where commands
\* are refused, ports close and the window is closed while the thread runs (MainPresenter).
THEOREM SessionSendsAtMostOne == SessionSpec => []SendsAtMostOne
<1>1. SInv => SendsAtMostOne
  BY DEF SInv, Inv, StopInv, PauseInv, SendsAtMostOne, StoppedSendsAtMostOne, PausedSendsAtMostOne
<1> QED
  BY SessionInvariance, <1>1, PTL

-----------------------------------------------------------------------------
(* MacroList: least and greatest row numbers *)

LEMMA LeastNumber ==
    ASSUME NEW T, T \subseteq Nat, T # {}
    PROVE  \E x \in T : \A y \in T : x <= y
<1>1. PICK x \in T : \A y \in T : <<y, x>> \notin OpToRel(<, Nat)
  BY WFMin, NatLessThanWellFounded, Zenon
<1>2. \A y \in T : ~(y < x)
  BY <1>1, Zenon DEF OpToRel
<1> QED
  BY <1>2

LEMMA MaxFacts ==
    ASSUME NEW S, S \subseteq Nat, S # {}, NEW n \in Nat, \A y \in S : y <= n
    PROVE  Max(S) \in S /\ \A y \in S : y <= Max(S)
<1> DEFINE U == {u \in Nat : \A y \in S : y <= u}
<1>1. PICK u \in U : \A v \in U : u <= v
  <2>1. n \in U /\ U \subseteq Nat
    OBVIOUS
  <2> HIDE DEF U
  <2> QED
    BY <2>1, LeastNumber
<1>2. u \in S
  <2> SUFFICES ASSUME u \notin S PROVE FALSE
    OBVIOUS
  <2>1. PICK y \in S : TRUE
    OBVIOUS
  <2>2. u # 0
    BY <2>1, <1>1
  <2>3. u - 1 \in U
    BY <2>2, <1>1
  <2> QED
    BY <2>3, <1>1
<1>3. \E x \in S : \A y \in S : x >= y
  BY <1>1, <1>2
<1>4. Max(S) \in S /\ \A y \in S : Max(S) >= y
  BY <1>3, Zenon DEF Max
<1> QED
  BY <1>4

-----------------------------------------------------------------------------
(* One row taken out, put in, moved by one *)

LEMMA TakenOut ==
    ASSUME NEW S, NEW s \in Seq(S), NEW i \in 1..Len(s)
    PROVE  /\ RemoveAt(s, i) \in Seq(S) /\ Len(RemoveAt(s, i)) = Len(s) - 1
           /\ \A j \in 1..(Len(s) - 1) : RemoveAt(s, i)[j] = IF j < i THEN s[j] ELSE s[j + 1]
<1>1. Len(s) \in Nat
  BY LenProperties, Zenon
<1> DEFINE a == SubSeq(s, 1, i - 1)
           b == SubSeq(s, i + 1, Len(s))
<1>2. a \in Seq(S) /\ Len(a) = i - 1 /\ \A j \in 1..(i - 1) : a[j] = s[j]
  BY <1>1
<1>3. b \in Seq(S) /\ Len(b) = Len(s) - i /\ \A j \in 1..(Len(s) - i) : b[j] = s[i + j]
  BY <1>1
<1>4. RemoveAt(s, i) = a \o b
  BY DEF RemoveAt
<1> HIDE DEF a, b
<1>5. /\ a \o b \in Seq(S) /\ Len(a \o b) = Len(a) + Len(b)
      /\ \A j \in 1..(Len(a) + Len(b)) : (a \o b)[j] = IF j <= Len(a) THEN a[j] ELSE b[j - Len(a)]
  BY <1>2, <1>3, ConcatProperties
<1>6. ASSUME NEW j \in 1..(Len(s) - 1) PROVE (a \o b)[j] = IF j < i THEN s[j] ELSE s[j + 1]
  <2>1. CASE j < i
    BY <1>1, <1>2, <1>3, <1>5, <2>1
  <2>2. CASE j >= i
    <3>1. j - (i - 1) \in 1..(Len(s) - i) /\ i + (j - (i - 1)) = j + 1 /\ ~(j <= Len(a))
      BY <1>1, <1>2, <2>2
    <3>2. (a \o b)[j] = b[j - (i - 1)]
      BY <1>1, <1>2, <1>3, <1>5, <3>1
    <3>3. PICK k : k = j - (i - 1)
      OBVIOUS
    <3>4. b[k] = s[i + k]
      BY <1>3, <3>1, <3>3
    <3> QED
      BY <2>2, <3>1, <3>2, <3>3, <3>4
  <2>3. j < i \/ j >= i
    BY <1>1
  <2> QED
    BY <2>1, <2>2, <2>3
<1> QED
  BY <1>1, <1>2, <1>3, <1>4, <1>5, <1>6

WithEntry(t, S, s, i, e) ==
    /\ t \in Seq(S) /\ Len(t) = Len(s) + 1
    /\ \A j \in 1..(Len(s) + 1) : t[j] = IF j < i THEN s[j] ELSE IF j = i THEN e ELSE s[j - 1]

LEMMA PutIn ==
    ASSUME NEW S, NEW s \in Seq(S), NEW i \in 1..(Len(s) + 1), NEW e \in S
    PROVE  WithEntry(InsertAt(s, i, e), S, s, i, e)
<1>1. Len(s) \in Nat
  BY LenProperties, Zenon
<1> DEFINE a == SubSeq(s, 1, i - 1)
           b == SubSeq(s, i, Len(s))
<1>2. a \in Seq(S) /\ Len(a) = i - 1 /\ \A j \in 1..(i - 1) : a[j] = s[j]
  BY <1>1
<1>3. b \in Seq(S) /\ Len(b) = Len(s) - i + 1
      /\ \A j \in 1..(Len(s) - i + 1) : b[j] = s[i + j - 1]
  BY <1>1
<1>4. InsertAt(s, i, e) = (a \o <<e>>) \o b
  BY DEF InsertAt
<1> HIDE DEF a, b
<1>5. <<e>> \in Seq(S) /\ Len(<<e>>) = 1 /\ <<e>>[1] = e
  OBVIOUS
<1> DEFINE c == a \o <<e>>
<1>6. c \in Seq(S) /\ Len(c) = i /\ \A j \in 1..i : c[j] = IF j < i THEN s[j] ELSE e
  <2>1. /\ c \in Seq(S) /\ Len(c) = Len(a) + 1
        /\ \A j \in 1..(Len(a) + 1) : c[j] = IF j <= Len(a) THEN a[j] ELSE <<e>>[j - Len(a)]
    BY <1>2, <1>5, ConcatProperties
  <2>2. ASSUME NEW j \in 1..i PROVE c[j] = IF j < i THEN s[j] ELSE e
    <3>1. CASE j < i
      BY <1>1, <1>2, <2>1, <3>1
    <3>2. CASE j = i
      <4>1. j - Len(a) = 1 /\ ~(j <= Len(a)) /\ j \in 1..(Len(a) + 1)
        BY <1>1, <1>2, <3>2
      <4> QED
        BY <1>5, <2>1, <3>2, <4>1
    <3>3. j < i \/ j = i
      BY <1>1
    <3> QED
      BY <3>1, <3>2, <3>3
  <2> QED
    BY <1>1, <1>2, <2>1, <2>2
<1> HIDE DEF c
<1>7. /\ c \o b \in Seq(S) /\ Len(c \o b) = Len(c) + Len(b)
      /\ \A j \in 1..(Len(c) + Len(b)) : (c \o b)[j] = IF j <= Len(c) THEN c[j] ELSE b[j - Len(c)]
  BY <1>3, <1>6, ConcatProperties
<1>8. ASSUME NEW j \in 1..(Len(s) + 1)
      PROVE  (c \o b)[j] = IF j < i THEN s[j] ELSE IF j = i THEN e ELSE s[j - 1]
  <2>1. CASE j <= i
    BY <1>1, <1>3, <1>6, <1>7, <2>1
  <2>2. CASE j > i
    <3>1. PICK k : k = j - i
      OBVIOUS
    <3>2. k \in 1..(Len(s) - i + 1) /\ i + k - 1 = j - 1 /\ ~(j <= Len(c))
          /\ j \in 1..(Len(c) + Len(b))
      BY <1>1, <1>3, <1>6, <2>2, <3>1
    <3>3. (c \o b)[j] = b[k]
      BY <1>6, <1>7, <3>1, <3>2
    <3>4. PICK l : l = j - 1
      OBVIOUS
    <3>5. b[k] = s[l]
      BY <1>3, <3>2, <3>4
    <3> QED
      BY <2>2, <3>3, <3>4, <3>5
  <2>3. j <= i \/ j > i
    BY <1>1
  <2> QED
    BY <2>1, <2>2, <2>3
<1>9. InsertAt(s, i, e) = c \o b
  BY <1>4 DEF c
<1>10. c \o b \in Seq(S) /\ Len(c \o b) = Len(s) + 1
  BY <1>1, <1>3, <1>6, <1>7
<1> QED
  BY <1>8, <1>9, <1>10 DEF WithEntry

\* Moving a row to the place next to it exchanges the two.
Swap(i, k, j) == IF j = i THEN k ELSE IF j = k THEN i ELSE j

LEMMA MovedByOne ==
    ASSUME NEW S, NEW s \in Seq(S), NEW i \in 1..Len(s), NEW k \in 1..Len(s),
           k = i - 1 \/ k = i + 1
    PROVE  /\ MoveRow(s, i, k) \in Seq(S) /\ Len(MoveRow(s, i, k)) = Len(s)
           /\ \A j \in 1..Len(s) : MoveRow(s, i, k)[j] = s[Swap(i, k, j)]
<1>1. Len(s) \in Nat /\ s[i] \in S
  BY LenProperties, ElementOfSeq
<1>2. PICK t : t = RemoveAt(s, i)
  OBVIOUS
<1>3. /\ t \in Seq(S) /\ Len(t) = Len(s) - 1
      /\ \A j \in 1..(Len(s) - 1) : t[j] = IF j < i THEN s[j] ELSE s[j + 1]
  BY <1>2, TakenOut
<1>4. k \in 1..(Len(t) + 1) /\ MoveRow(s, i, k) = InsertAt(t, k, s[i])
  BY <1>1, <1>2, <1>3 DEF MoveRow
<1>7. PICK e \in S : e = s[i]
  BY <1>1
<1>5. /\ InsertAt(t, k, s[i]) \in Seq(S) /\ Len(InsertAt(t, k, s[i])) = Len(t) + 1
      /\ \A j \in 1..(Len(t) + 1) :
           InsertAt(t, k, s[i])[j] = IF j < k THEN t[j] ELSE IF j = k THEN s[i] ELSE t[j - 1]
  <2>1. /\ InsertAt(t, k, e) \in Seq(S) /\ Len(InsertAt(t, k, e)) = Len(t) + 1
        /\ \A j \in 1..(Len(t) + 1) :
             InsertAt(t, k, e)[j] = IF j < k THEN t[j] ELSE IF j = k THEN e ELSE t[j - 1]
    <3>1. WithEntry(InsertAt(t, k, e), S, t, k, e)
      BY <1>3, <1>4, PutIn, Zenon
    <3> QED
      BY <3>1 DEF WithEntry
  <2> QED
    BY <2>1, <1>7
<1>6. ASSUME NEW j \in 1..Len(s) PROVE MoveRow(s, i, k)[j] = s[Swap(i, k, j)]
  <2>1. j \in 1..(Len(t) + 1)
    BY <1>1, <1>3
  <2>2. CASE j = k
    <3>1. Swap(i, k, j) = i
      BY <2>2 DEF Swap
    <3> QED
      BY <1>4, <1>5, <2>1, <2>2, <3>1
  <2>3. CASE j < k
    <3>1. MoveRow(s, i, k)[j] = t[j] /\ j \in 1..(Len(s) - 1)
      BY <1>1, <1>4, <1>5, <2>1, <2>3
    <3>2. Swap(i, k, j) = IF j < i THEN j ELSE j + 1
      BY <1>1, <2>3 DEF Swap
    <3> QED
      BY <1>3, <3>1, <3>2
  <2>4. CASE j > k
    <3>1. PICK l : l = j - 1
      OBVIOUS
    <3>2. MoveRow(s, i, k)[j] = t[l] /\ l \in 1..(Len(s) - 1)
      BY <1>1, <1>4, <1>5, <2>1, <2>4, <3>1
    <3>3. Swap(i, k, j) = IF l < i THEN l ELSE l + 1
      BY <1>1, <2>4, <3>1 DEF Swap
    <3> QED
      BY <1>3, <3>2, <3>3
  <2> QED
    BY <1>1, <2>2, <2>3, <2>4
<1> QED
  BY <1>1, <1>3, <1>4, <1>5, <1>6

-----------------------------------------------------------------------------
(* Rows handled one after the other *)

LEMMA UpFromZero ==
    ASSUME NEW m \in Nat, NEW T, 0 \in T, \A n \in 1..m : n - 1 \in T => n \in T
    PROVE  \A n \in 0..m : n \in T
<1> SUFFICES ASSUME NEW n \in 0..m, n \notin T PROVE FALSE
  OBVIOUS
<1> DEFINE U == {k \in 0..m : k \notin T}
<1>1. PICK k \in U : \A j \in U : k <= j
  <2>1. n \in U /\ U \subseteq Nat
    OBVIOUS
  <2> HIDE DEF U
  <2> QED
    BY <2>1, LeastNumber
<1>2. k # 0 /\ k \in 1..m
  BY <1>1
<1>3. k - 1 \in T
  BY <1>1, <1>2
<1> QED
  BY <1>1, <1>2, <1>3

\* A recursion over 0..m whose step n leads from Q[n - 1] to Q[n] defines a function.
Leads(m, Q, base, G) ==
    base \in Q[0] /\ \A n \in 1..m : \A x \in Q[n - 1] : G[n][x] \in Q[n]
Runs(m, Q, base, G, f) == /\ f = [n \in 0..m |-> f[n]]
                          /\ f[0] = base
                          /\ \A n \in 1..m : f[n] = G[n][f[n - 1]]
                          /\ \A n \in 0..m : f[n] \in Q[n]

LEMMA Recursion ==
    ASSUME NEW m \in Nat, NEW Q, NEW base, NEW G, Leads(m, Q, base, G)
    PROVE  \E f : Runs(m, Q, base, G, f)
<1> USE DEF Leads
<1> DEFINE Fits(f, k) == Runs(k, Q, base, G, f)
           T == {k \in 0..m : \E f : Fits(f, k)}
<1> USE DEF Runs
<1>1. 0 \in T
  <2>1. PICK f : f = [n \in 0..0 |-> base]
    OBVIOUS
  <2>2. Fits(f, 0)
    BY <2>1
  <2> HIDE DEF Fits, Runs
  <2> QED
    BY <2>2
<1>2. ASSUME NEW k \in 1..m, k - 1 \in T PROVE k \in T
  <2>1. PICK f : Fits(f, k - 1)
    BY <1>2
  <2>2. PICK g : g = [n \in 0..k |-> IF n = k THEN G[k][f[k - 1]] ELSE f[n]]
    OBVIOUS
  <2>3. g[k] = G[k][f[k - 1]] /\ \A n \in 0..(k - 1) : g[n] = f[n]
    BY <2>2
  <2>4. k - 1 \in 0..(k - 1) /\ f[k - 1] \in Q[k - 1]
    BY <2>1
  <2>5. g[k] \in Q[k] /\ g[k] = G[k][g[k - 1]]
    BY <2>3, <2>4
  <2>6. ASSUME NEW n \in 1..k PROVE g[n] = G[n][g[n - 1]]
    <3>1. CASE n = k
      BY <2>5, <3>1
    <3>2. CASE n # k
      <4>1. n \in 1..(k - 1) /\ n \in 0..(k - 1) /\ n - 1 \in 0..(k - 1)
        BY <3>2
      <4>2. f[n] = G[n][f[n - 1]]
        BY <2>1, <4>1
      <4> QED
        BY <2>3, <4>1, <4>2
    <3> QED
      BY <3>1, <3>2
  <2>7. ASSUME NEW n \in 0..k PROVE g[n] \in Q[n]
    <3>1. CASE n = k
      BY <2>5, <3>1
    <3>2. CASE n # k
      <4>1. n \in 0..(k - 1)
        BY <3>2
      <4> QED
        BY <2>1, <2>3, <4>1
    <3> QED
      BY <3>1, <3>2
  <2>8. g = [n \in 0..k |-> g[n]] /\ g[0] = base
    BY <2>1, <2>2
  <2>9. Fits(g, k)
    BY <2>6, <2>7, <2>8
  <2> HIDE DEF Fits, Runs
  <2> QED
    BY <2>9
<1>3. m \in 0..m
  OBVIOUS
<1> HIDE DEF T
<1>4. m \in T
  BY <1>1, <1>2, <1>3, UpFromZero
<1> QED
  BY <1>4 DEF T

-----------------------------------------------------------------------------
(* Moving a selection *)

\* t holds each row of rs once; of the rows handled so far, Done, those of S went by d and the
\* others kept their order, and the rows not yet handled are where they were.
Arranged(rs, S, Done, t, d) ==
    \E from \in [DOMAIN rs -> DOMAIN rs] :
        /\ \A i, j \in DOMAIN rs : from[i] = from[j] => i = j
        /\ \A i \in DOMAIN rs : \E j \in DOMAIN rs : from[j] = i
        /\ t = [i \in DOMAIN rs |-> rs[from[i]]]
        /\ \A i \in S \cap Done : from[i + d] = i
        /\ \A i \in DOMAIN rs \ Done : from[i] = i
        /\ \A i, j \in DOMAIN rs :
              i < j /\ from[i] \notin S /\ from[j] \notin S => from[i] < from[j]

Arrangements(E, rs, S, Done, d) ==
    {t \in Seq(E) : Len(t) = Len(rs) /\ Arranged(rs, S, Done, t, d)}

LEMMA ArrangedAtFirst ==
    ASSUME NEW E, NEW rs \in Seq(E), NEW S, NEW d
    PROVE  Arranged(rs, S, {}, rs, d)
<1>1. DOMAIN rs = 1..Len(rs) /\ Len(rs) \in Nat /\ rs = [i \in DOMAIN rs |-> rs[i]]
  BY LenProperties, Zenon
<1>2. PICK from : from = [i \in DOMAIN rs |-> i]
  OBVIOUS
<1>3. from \in [DOMAIN rs -> DOMAIN rs] /\ \A i \in DOMAIN rs : from[i] = i
  BY <1>2
<1>4. rs = [i \in DOMAIN rs |-> rs[from[i]]]
  BY <1>1, <1>3
<1> QED
  BY <1>1, <1>3, <1>4 DEF Arranged

LEMMA OthersStay ==
    ASSUME NEW rs, NEW S, NEW Done, NEW t, NEW d, NEW i, i \notin S, Arranged(rs, S, Done, t, d)
    PROVE  Arranged(rs, S, Done \cup {i}, t, d)
<1>1. S \cap (Done \cup {i}) = S \cap Done /\ DOMAIN rs \ (Done \cup {i}) \subseteq DOMAIN rs \ Done
  OBVIOUS
<1> QED
  BY <1>1, Zenon DEF Arranged

LEMMA OneMoves ==
    ASSUME NEW E, NEW rs \in Seq(E), NEW S \in SUBSET (DOMAIN rs), NEW d \in {-1, 1},
           \A i \in S : i + d \in DOMAIN rs,
           NEW Done \in SUBSET (DOMAIN rs), NEW t \in Arrangements(E, rs, S, Done, d),
           NEW i \in S, i \notin Done, i + d \in Done, i - d \notin Done
    PROVE  MoveRow(t, i, i + d) \in Arrangements(E, rs, S, Done \cup {i}, d)
<1>18. t \in Seq(E) /\ Len(t) = Len(rs) /\ Arranged(rs, S, Done, t, d)
  BY DEF Arrangements
<1>1. DOMAIN rs = 1..Len(rs) /\ Len(rs) \in Nat
  BY LenProperties, Zenon
<1>2. PICK k : k = i + d
  OBVIOUS
<1>3. i \in 1..Len(rs) /\ k \in 1..Len(rs) /\ (k = i - 1 \/ k = i + 1) /\ k \in Done /\ k # i
  BY <1>1, <1>2
<1>4. PICK u : u = MoveRow(t, i, k)
  OBVIOUS
<1>5. u \in Seq(E) /\ Len(u) = Len(rs) /\ \A j \in 1..Len(rs) : u[j] = t[Swap(i, k, j)]
  <2>1. i \in 1..Len(t) /\ k \in 1..Len(t)
    BY <1>3, <1>18
  <2>2. /\ MoveRow(t, i, k) \in Seq(E) /\ Len(MoveRow(t, i, k)) = Len(t)
        /\ \A j \in 1..Len(t) : MoveRow(t, i, k)[j] = t[Swap(i, k, j)]
    BY <1>3, <1>18, <2>1, MovedByOne
  <2> QED
    BY <1>4, <1>18, <2>2
<1>6. PICK from \in [DOMAIN rs -> DOMAIN rs] :
        /\ \A a, b \in DOMAIN rs : from[a] = from[b] => a = b
        /\ \A a \in DOMAIN rs : \E b \in DOMAIN rs : from[b] = a
        /\ t = [a \in DOMAIN rs |-> rs[from[a]]]
        /\ \A a \in S \cap Done : from[a + d] = a
        /\ \A a \in DOMAIN rs \ Done : from[a] = a
        /\ \A a, b \in DOMAIN rs : a < b /\ from[a] \notin S /\ from[b] \notin S => from[a] < from[b]
  BY <1>18 DEF Arranged
<1>7. /\ \A j \in DOMAIN rs : Swap(i, k, j) \in DOMAIN rs
      /\ \A a \in DOMAIN rs : Swap(i, k, Swap(i, k, a)) = a
      /\ Swap(i, k, k) = i
      /\ \A a \in DOMAIN rs : a # i /\ a # k => Swap(i, k, a) = a
      /\ \A a, b \in DOMAIN rs : a < b /\ a # k /\ b # k => Swap(i, k, a) < Swap(i, k, b)
  BY <1>1, <1>3 DEF Swap
<1>8. PICK to : to = [a \in DOMAIN rs |-> from[Swap(i, k, a)]]
  OBVIOUS
<1>9. to \in [DOMAIN rs -> DOMAIN rs] /\ \A a \in DOMAIN rs : to[a] = from[Swap(i, k, a)]
  BY <1>6, <1>7, <1>8
<1>10. ASSUME NEW a \in DOMAIN rs, NEW b \in DOMAIN rs, to[a] = to[b] PROVE a = b
  BY <1>6, <1>7, <1>9, <1>10
<1>11. ASSUME NEW a \in DOMAIN rs PROVE \E b \in DOMAIN rs : to[b] = a
  <2>1. PICK b \in DOMAIN rs : from[b] = a
    BY <1>6
  <2>2. Swap(i, k, b) \in DOMAIN rs /\ to[Swap(i, k, b)] = a
    BY <1>7, <1>9, <2>1
  <2> QED
    BY <2>2
<1>12. u = [a \in DOMAIN rs |-> rs[to[a]]]
  <2>1. DOMAIN u = DOMAIN rs /\ u = [a \in DOMAIN u |-> u[a]]
    BY <1>1, <1>5, LenProperties
  <2>2. \A a \in DOMAIN rs : t[a] = rs[from[a]]
    BY <1>6
  <2>3. \A a \in DOMAIN rs : u[a] = rs[to[a]]
    BY <1>1, <1>5, <1>7, <1>9, <2>2
  <2> QED
    BY <2>1, <2>3
<1>13. to[k] = i
  BY <1>1, <1>3, <1>6, <1>7, <1>9
<1>14. ASSUME NEW a \in S \cap (Done \cup {i}) PROVE to[a + d] = a
  <2>1. CASE a = i
    BY <1>2, <1>13, <2>1
  <2>2. CASE a # i
    <3>1. a \in S \cap Done /\ a + d \in DOMAIN rs /\ a \in Int
      BY <1>1, <2>2
    <3>2. a # i - d
      BY <3>1
    <3>3. PICK b : b = a + d
      OBVIOUS
    <3>4. b # k /\ b # i /\ b \in DOMAIN rs
      BY <1>2, <1>3, <2>2, <3>1, <3>2, <3>3
    <3>5. to[b] = from[b]
      BY <1>7, <1>9, <3>4
    <3> QED
      BY <1>6, <3>1, <3>3, <3>5
  <2> QED
    BY <2>1, <2>2
<1>15. ASSUME NEW a \in DOMAIN rs \ (Done \cup {i}) PROVE to[a] = a
  <2>1. a \in DOMAIN rs /\ a \notin Done /\ a # i /\ a # k
    BY <1>3
  <2>2. from[a] = a
    BY <1>6, <2>1
  <2>3. Swap(i, k, a) = a
    BY <1>7, <2>1
  <2> QED
    BY <1>9, <2>1, <2>2, <2>3
<1>16. ASSUME NEW a \in DOMAIN rs, NEW b \in DOMAIN rs, a < b, to[a] \notin S, to[b] \notin S
       PROVE  to[a] < to[b]
  <2>1. a # k /\ b # k
    BY <1>13, <1>16
  <2>2. Swap(i, k, a) < Swap(i, k, b) /\ Swap(i, k, a) \in DOMAIN rs /\ Swap(i, k, b) \in DOMAIN rs
    BY <1>7, <1>16, <2>1
  <2>3. from[Swap(i, k, a)] \notin S /\ from[Swap(i, k, b)] \notin S
    BY <1>9, <1>16
  <2> QED
    BY <1>6, <1>9, <2>2, <2>3
<1>17. Arranged(rs, S, Done \cup {i}, u, d)
  BY <1>9, <1>10, <1>11, <1>12, <1>14, <1>15, <1>16 DEF Arranged
<1> QED
  BY <1>2, <1>4, <1>5, <1>17 DEF Arrangements

\* What holds of the first state of a recursion and is kept by each step holds of its last one.
LEMMA RecursionHolds ==
    ASSUME NEW m \in Nat, NEW Q, NEW h, h[0] \in Q[0],
           \A n \in 1..m : h[n - 1] \in Q[n - 1] => h[n] \in Q[n]
    PROVE  h[m] \in Q[m]
<1> DEFINE T == {n \in 0..m : h[n] \in Q[n]}
<1>1. 0 \in T /\ \A n \in 1..m : n - 1 \in T => n \in T
  OBVIOUS
<1>2. m \in 0..m
  OBVIOUS
<1> HIDE DEF T
<1>3. m \in T
  BY <1>1, <1>2, UpFromZero
<1> QED
  BY <1>3 DEF T

\* One turn of row i.
LEMMA Turn ==
    ASSUME NEW E, NEW rs \in Seq(E), NEW S \in SUBSET (DOMAIN rs), NEW d \in {-1, 1},
           \A i \in S : i + d \in DOMAIN rs,
           NEW Done \in SUBSET (DOMAIN rs), NEW t \in Arrangements(E, rs, S, Done, d),
           NEW i \in DOMAIN rs, i \notin Done, i \in S => i + d \in Done /\ i - d \notin Done
    PROVE  (IF i \in S THEN MoveRow(t, i, i + d) ELSE t)
              \in Arrangements(E, rs, S, Done \cup {i}, d)
<1>1. t \in Seq(E) /\ Len(t) = Len(rs) /\ Arranged(rs, S, Done, t, d)
  BY DEF Arrangements
<1>2. CASE i \in S
  <2>1. i \in S /\ i + d \in Done /\ i - d \notin Done
    BY <1>2
  <2> QED
    BY <2>1, OneMoves
<1>3. CASE i \notin S
  <2>1. Arranged(rs, S, Done \cup {i}, t, d)
    BY <1>1, <1>3, OthersStay
  <2> QED
    BY <1>1, <1>3, <2>1 DEF Arrangements
<1> QED
  BY <1>2, <1>3

LEMMA MovedUpArranges ==
    ASSUME NEW E, NEW rs \in Seq(E), NEW S \in SUBSET (DOMAIN rs), 1 \notin S
    PROVE  MovedUp(rs, S) \in Arrangements(E, rs, S, DOMAIN rs, -1)
<1>1. DOMAIN rs = 1..Len(rs) /\ Len(rs) \in Nat
  BY LenProperties, Zenon
<1>2. PICK m \in Nat : m = Len(rs)
  BY <1>1
<1>3. PICK Q : Q = [n \in 0..m |-> Arrangements(E, rs, S, 1..n, -1)]
  OBVIOUS
<1>4. rs \in Q[0]
  <2>1. Arranged(rs, S, {}, rs, -1)
    BY ArrangedAtFirst
  <2>2. 1..0 = {} /\ Q[0] = Arrangements(E, rs, S, 1..0, -1)
    BY <1>3
  <2> QED
    BY <2>1, <2>2 DEF Arrangements
<1>5. ASSUME NEW n \in 1..m, NEW t \in Q[n - 1]
      PROVE  (IF n \in S THEN MoveRow(t, n, n - 1) ELSE t) \in Q[n]
  <2>1. PICK Done : Done = 1..(n - 1)
    OBVIOUS
  <2>2. /\ t \in Arrangements(E, rs, S, Done, -1) /\ Done \in SUBSET (DOMAIN rs)
        /\ Done \cup {n} = 1..n /\ n \notin Done /\ n \in DOMAIN rs
    BY <1>1, <1>2, <1>3, <2>1
  <2>3. \A i \in S : i + (-1) \in DOMAIN rs
    BY <1>1
  <2>4. n \in S => n + (-1) \in Done /\ n - (-1) \notin Done
    BY <2>1
  <2>5. (IF n \in S THEN MoveRow(t, n, n + (-1)) ELSE t) \in Arrangements(E, rs, S, Done \cup {n}, -1)
    BY <2>2, <2>3, <2>4, Turn
  <2>6. n + (-1) = n - 1 /\ Q[n] = Arrangements(E, rs, S, Done \cup {n}, -1)
    BY <1>3, <2>2
  <2> QED
    BY <2>5, <2>6
<1>6. \E g : g = [n \in 0..m |->
          IF n = 0 THEN rs ELSE IF n \in S THEN MoveRow(g[n - 1], n, n - 1) ELSE g[n - 1]]
  <2>1. PICK G : G = [n \in 1..m |->
                       [t \in Q[n - 1] |-> IF n \in S THEN MoveRow(t, n, n - 1) ELSE t]]
    OBVIOUS
  <2>2. \A n \in 1..m : \A t \in Q[n - 1] : G[n][t] = IF n \in S THEN MoveRow(t, n, n - 1) ELSE t
    BY <2>1
  <2>3. \A n \in 1..m : \A t \in Q[n - 1] : G[n][t] \in Q[n]
    BY <1>5, <2>2
  <2>7. Leads(m, Q, rs, G)
    BY <1>4, <2>3 DEF Leads
  <2>8. PICK f : Runs(m, Q, rs, G, f)
    BY <2>7, Recursion
  <2>4. /\ f = [n \in 0..m |-> f[n]] /\ f[0] = rs
        /\ \A n \in 1..m : f[n] = G[n][f[n - 1]]
        /\ \A n \in 0..m : f[n] \in Q[n]
    BY <2>8 DEF Runs
  <2>5. ASSUME NEW n \in 0..m
        PROVE  f[n] = IF n = 0 THEN rs
                      ELSE IF n \in S THEN MoveRow(f[n - 1], n, n - 1) ELSE f[n - 1]
    <3>1. CASE n = 0
      BY <2>4, <3>1
    <3>2. CASE n # 0
      <4>1. n \in 1..m /\ n - 1 \in 0..m
        BY <3>2
      <4> QED
        BY <2>2, <2>4, <3>2, <4>1
    <3> QED
      BY <3>1, <3>2
  <2>6. f = [n \in 0..m |->
               IF n = 0 THEN rs ELSE IF n \in S THEN MoveRow(f[n - 1], n, n - 1) ELSE f[n - 1]]
    BY <2>4, <2>5, Zenon
  <2> QED
    BY <2>6
<1>7. PICK h : /\ h = [n \in 0..m |->
                       IF n = 0 THEN rs ELSE IF n \in S THEN MoveRow(h[n - 1], n, n - 1) ELSE h[n - 1]]
               /\ MovedUp(rs, S) = h[m]
  BY <1>2, <1>6, Zenon DEF MovedUp
<1>8. h[0] = rs /\ \A n \in 1..m : h[n] = IF n \in S THEN MoveRow(h[n - 1], n, n - 1) ELSE h[n - 1]
  BY <1>7
<1>9. h[m] \in Q[m]
  <2>1. h[0] \in Q[0] /\ \A n \in 1..m : h[n - 1] \in Q[n - 1] => h[n] \in Q[n]
    BY <1>4, <1>5, <1>8
  <2> QED
    BY <2>1, RecursionHolds
<1>10. Q[m] = Arrangements(E, rs, S, DOMAIN rs, -1)
  BY <1>1, <1>2, <1>3
<1> QED
  BY <1>7, <1>9, <1>10

LEMMA MovedDownArranges ==
    ASSUME NEW E, NEW rs \in Seq(E), NEW S \in SUBSET (DOMAIN rs), Len(rs) \notin S
    PROVE  MovedDown(rs, S) \in Arrangements(E, rs, S, DOMAIN rs, 1)
<1>1. DOMAIN rs = 1..Len(rs) /\ Len(rs) \in Nat
  BY LenProperties, Zenon
<1>2. PICK m \in Nat : m = Len(rs)
  BY <1>1
<1>3. PICK Q : Q = [n \in 0..m |-> Arrangements(E, rs, S, (m + 1 - n)..m, 1)]
  OBVIOUS
<1>4. rs \in Q[0]
  <2>1. Arranged(rs, S, {}, rs, 1)
    BY ArrangedAtFirst
  <2>2. (m + 1 - 0)..m = {} /\ Q[0] = Arrangements(E, rs, S, (m + 1 - 0)..m, 1)
    BY <1>3
  <2> QED
    BY <2>1, <2>2 DEF Arrangements
<1> DEFINE row(n) == m + 1 - n
<1>5. ASSUME NEW n \in 1..m, NEW t \in Q[n - 1]
      PROVE  (IF row(n) \in S THEN MoveRow(t, row(n), row(n) + 1) ELSE t) \in Q[n]
  <2>1. PICK Done : Done = (m + 1 - (n - 1))..m
    OBVIOUS
  <2>2. PICK i : i = row(n)
    OBVIOUS
  <2>3. /\ t \in Arrangements(E, rs, S, Done, 1) /\ Done \in SUBSET (DOMAIN rs)
        /\ Done \cup {i} = (m + 1 - n)..m /\ i \notin Done /\ i \in DOMAIN rs
    BY <1>1, <1>2, <1>3, <2>1, <2>2
  <2>4. \A j \in S : j + 1 \in DOMAIN rs
    BY <1>1
  <2>5. i \in S => i + 1 \in Done /\ i - 1 \notin Done
    BY <1>1, <1>2, <2>1, <2>2
  <2>6. (IF i \in S THEN MoveRow(t, i, i + 1) ELSE t) \in Arrangements(E, rs, S, Done \cup {i}, 1)
    BY <2>3, <2>4, <2>5, Turn
  <2>8. Q[n] = Arrangements(E, rs, S, (m + 1 - n)..m, 1)
    BY <1>3
  <2>7. Q[n] = Arrangements(E, rs, S, Done \cup {i}, 1)
    BY <2>3, <2>8
  <2> QED
    BY <2>2, <2>6, <2>7
<1>6. \E g : g = [n \in 0..m |->
          IF n = 0 THEN rs ELSE IF row(n) \in S THEN MoveRow(g[n - 1], row(n), row(n) + 1) ELSE g[n - 1]]
  <2>1. PICK G : G = [n \in 1..m |->
                       [t \in Q[n - 1] |-> IF row(n) \in S THEN MoveRow(t, row(n), row(n) + 1) ELSE t]]
    OBVIOUS
  <2>2. \A n \in 1..m : \A t \in Q[n - 1] : G[n][t] = IF row(n) \in S THEN MoveRow(t, row(n), row(n) + 1) ELSE t
    BY <2>1
  <2>3. \A n \in 1..m : \A t \in Q[n - 1] : G[n][t] \in Q[n]
    BY <1>5, <2>2
  <2>7. Leads(m, Q, rs, G)
    BY <1>4, <2>3 DEF Leads
  <2>8. PICK f : Runs(m, Q, rs, G, f)
    BY <2>7, Recursion
  <2>4. /\ f = [n \in 0..m |-> f[n]] /\ f[0] = rs
        /\ \A n \in 1..m : f[n] = G[n][f[n - 1]]
        /\ \A n \in 0..m : f[n] \in Q[n]
    BY <2>8 DEF Runs
  <2>5. ASSUME NEW n \in 0..m
        PROVE  f[n] = IF n = 0 THEN rs
                      ELSE IF row(n) \in S THEN MoveRow(f[n - 1], row(n), row(n) + 1) ELSE f[n - 1]
    <3>1. CASE n = 0
      BY <2>4, <3>1
    <3>2. CASE n # 0
      <4>1. n \in 1..m /\ n - 1 \in 0..m
        BY <3>2
      <4> QED
        BY <2>2, <2>4, <3>2, <4>1
    <3> QED
      BY <3>1, <3>2
  <2>6. f = [n \in 0..m |->
               IF n = 0 THEN rs ELSE IF row(n) \in S THEN MoveRow(f[n - 1], row(n), row(n) + 1) ELSE f[n - 1]]
    BY <2>4, <2>5, Zenon
  <2> QED
    BY <2>6
<1>7. PICK h : /\ h = [n \in 0..m |->
                       IF n = 0 THEN rs ELSE IF row(n) \in S THEN MoveRow(h[n - 1], row(n), row(n) + 1) ELSE h[n - 1]]
               /\ MovedDown(rs, S) = h[m]
  BY <1>2, <1>6, Zenon DEF MovedDown
<1>8. h[0] = rs /\ \A n \in 1..m : h[n] = IF row(n) \in S THEN MoveRow(h[n - 1], row(n), row(n) + 1) ELSE h[n - 1]
  BY <1>7
<1>9. h[m] \in Q[m]
  <2>1. ASSUME NEW n \in 1..m, h[n - 1] \in Q[n - 1] PROVE h[n] \in Q[n]
    <3>1. PICK t \in Q[n - 1] : t = h[n - 1]
      BY <2>1
    <3>2. h[n] = IF row(n) \in S THEN MoveRow(t, row(n), row(n) + 1) ELSE t
      BY <1>8, <3>1
    <3> QED
      BY <1>5, <3>2
  <2>2. h[0] \in Q[0]
    BY <1>4, <1>8
  <2> QED
    BY <2>1, <2>2, RecursionHolds
<1>11. (m + 1 - m)..m = DOMAIN rs
  BY <1>1, <1>2
<1>10. Q[m] = Arrangements(E, rs, S, DOMAIN rs, 1)
  BY <1>3, <1>11
<1> QED
  BY <1>7, <1>9, <1>10

\* What is left of the rows when some are removed, from the last to the first.
LEMMA RowsLeftAreRows ==
    ASSUME NEW E, NEW rs \in Seq(E), NEW S \in SUBSET (DOMAIN rs)
    PROVE  RowsLeft(rs, S) \in Seq(E) /\ Len(RowsLeft(rs, S)) <= Len(rs)
<1>1. DOMAIN rs = 1..Len(rs) /\ Len(rs) \in Nat
  BY LenProperties, Zenon
<1>2. PICK m \in Nat : m = Len(rs)
  BY <1>1
<1>3. PICK Q : Q = [n \in 0..m |-> {t \in Seq(E) : m - n <= Len(t) /\ Len(t) <= m}]
  OBVIOUS
<1>4. rs \in Q[0]
  BY <1>2, <1>3
<1> DEFINE row(n) == m + 1 - n
<1>5. ASSUME NEW n \in 1..m, NEW t \in Q[n - 1]
      PROVE  (IF row(n) \in S THEN RemoveAt(t, row(n)) ELSE t) \in Q[n]
  <2>1. t \in Seq(E) /\ m - (n - 1) <= Len(t) /\ Len(t) <= m /\ Len(t) \in Nat
    BY <1>3, LenProperties
  <2>2. PICK i : i = row(n)
    OBVIOUS
  <2>3. i \in 1..Len(t)
    BY <2>1, <2>2
  <2>4. RemoveAt(t, i) \in Seq(E) /\ Len(RemoveAt(t, i)) = Len(t) - 1
    BY <2>1, <2>3, TakenOut
  <2>5. Q[n] = {x \in Seq(E) : m - n <= Len(x) /\ Len(x) <= m}
    BY <1>3
  <2>6. (IF i \in S THEN RemoveAt(t, i) ELSE t) \in Q[n]
    BY <2>1, <2>4, <2>5
  <2> QED
    BY <2>2, <2>6
<1>6. \E g : g = [n \in 0..m |->
          IF n = 0 THEN rs ELSE IF row(n) \in S THEN RemoveAt(g[n - 1], row(n)) ELSE g[n - 1]]
  <2>1. PICK G : G = [n \in 1..m |->
                       [t \in Q[n - 1] |-> IF row(n) \in S THEN RemoveAt(t, row(n)) ELSE t]]
    OBVIOUS
  <2>2. \A n \in 1..m : \A t \in Q[n - 1] : G[n][t] = IF row(n) \in S THEN RemoveAt(t, row(n)) ELSE t
    BY <2>1
  <2>3. \A n \in 1..m : \A t \in Q[n - 1] : G[n][t] \in Q[n]
    BY <1>5, <2>2
  <2>7. Leads(m, Q, rs, G)
    BY <1>4, <2>3 DEF Leads
  <2>8. PICK f : Runs(m, Q, rs, G, f)
    BY <2>7, Recursion
  <2>4. /\ f = [n \in 0..m |-> f[n]] /\ f[0] = rs
        /\ \A n \in 1..m : f[n] = G[n][f[n - 1]]
        /\ \A n \in 0..m : f[n] \in Q[n]
    BY <2>8 DEF Runs
  <2>5. ASSUME NEW n \in 0..m
        PROVE  f[n] = IF n = 0 THEN rs
                      ELSE IF row(n) \in S THEN RemoveAt(f[n - 1], row(n)) ELSE f[n - 1]
    <3>1. CASE n = 0
      BY <2>4, <3>1
    <3>2. CASE n # 0
      <4>1. n \in 1..m /\ n - 1 \in 0..m
        BY <3>2
      <4> QED
        BY <2>2, <2>4, <3>2, <4>1
    <3> QED
      BY <3>1, <3>2
  <2>6. f = [n \in 0..m |->
               IF n = 0 THEN rs ELSE IF row(n) \in S THEN RemoveAt(f[n - 1], row(n)) ELSE f[n - 1]]
    BY <2>4, <2>5, Zenon
  <2> QED
    BY <2>6
<1>7. PICK h : /\ h = [n \in 0..m |->
                       IF n = 0 THEN rs ELSE IF row(n) \in S THEN RemoveAt(h[n - 1], row(n)) ELSE h[n - 1]]
               /\ RowsLeft(rs, S) = h[m]
  BY <1>2, <1>6, ZenonT(40) DEF RowsLeft
<1>8. h[0] = rs /\ \A n \in 1..m : h[n] = IF row(n) \in S THEN RemoveAt(h[n - 1], row(n)) ELSE h[n - 1]
  BY <1>7
<1>9. h[m] \in Q[m]
  <2>1. ASSUME NEW n \in 1..m, h[n - 1] \in Q[n - 1] PROVE h[n] \in Q[n]
    <3>1. PICK t \in Q[n - 1] : t = h[n - 1]
      BY <2>1
    <3>2. h[n] = IF row(n) \in S THEN RemoveAt(t, row(n)) ELSE t
      BY <1>8, <3>1
    <3> QED
      BY <1>5, <3>2
  <2>2. h[0] \in Q[0]
    BY <1>4, <1>8
  <2> QED
    BY <2>1, <2>2, RecursionHolds
<1> QED
  BY <1>2, <1>3, <1>7, <1>9

-----------------------------------------------------------------------------
(* The list while it is edited *)

\* A button sends its own row or one above.
ButtonsLow == \A i \in DOMAIN rows : rows[i].button.row <= i

ListInv == ListTypeOK /\ SelectAllShows /\ ButtonsLow

Buttons == [row : Nat \ {0}, armed : BOOLEAN]

LEMMA RowFields ==
    ASSUME NEW r \in Rows
    PROVE  /\ r.command \in Command \cup {Blank} /\ r.enabled \in BOOLEAN
           /\ r.delay \in Delay /\ r.button \in Buttons
           /\ \A b \in Buttons : LET q == [r EXCEPT !.button = b]
                                 IN /\ q \in Rows /\ q.button = b /\ q.command = r.command
                                    /\ q.enabled = r.enabled /\ q.delay = r.delay
           /\ \A e \in BOOLEAN : LET q == [r EXCEPT !.enabled = e]
                                 IN /\ q \in Rows /\ q.enabled = e /\ q.command = r.command
                                    /\ q.button = r.button /\ q.delay = r.delay
           /\ \A c \in Command : LET q == [r EXCEPT !.command = c]
                                 IN q \in Rows /\ q.enabled = r.enabled /\ q.button = r.button
           /\ \A d \in Delay : LET q == [r EXCEPT !.delay = d]
                               IN q \in Rows /\ q.enabled = r.enabled /\ q.button = r.button
                                  /\ q.command = r.command
  BY DEF Rows, Buttons

LEMMA RowsOf ==
    ASSUME NEW rs \in Seq(Rows)
    PROVE  /\ DOMAIN rs = 1..Len(rs) /\ Len(rs) \in Nat
           /\ \A i \in DOMAIN rs : rs[i] \in Rows
           /\ rs = <<>> <=> Len(rs) = 0
  BY LenProperties, ElementOfSeq, EmptySeq

\* What gives each row of a list a row again is a list of rows.
LEMMA RowByRow ==
    ASSUME NEW n \in Nat, NEW f, f = [i \in 1..n |-> f[i]], \A i \in 1..n : f[i] \in Rows
    PROVE  f \in Seq(Rows) /\ Len(f) = n /\ DOMAIN f = 1..n
<1>1. f \in [1..n -> Rows]
  OBVIOUS
<1> QED
  BY <1>1, IsASeq, SeqDef

LEMMA Refreshed ==
    ASSUME send_enabled \in BOOLEAN, NEW rs \in Seq(Rows)
    PROVE  /\ RefreshSendButtons(rs) \in Seq(Rows)
           /\ Len(RefreshSendButtons(rs)) = Len(rs)
           /\ DOMAIN RefreshSendButtons(rs) = DOMAIN rs
           /\ \A i \in DOMAIN rs : /\ RefreshSendButtons(rs)[i].button.row = i
                                   /\ RefreshSendButtons(rs)[i].enabled = rs[i].enabled
<1>1. PICK f : f = RefreshSendButtons(rs)
  OBVIOUS
<1>2. PICK n \in Nat : n = Len(rs) /\ DOMAIN rs = 1..n
  BY RowsOf
<1>3. \A i \in 1..n : Button(i) \in Buttons /\ Button(i).row = i
  BY DEF Button, Buttons
<1>4. f = [i \in 1..n |-> [rs[i] EXCEPT !.button = Button(i)]]
  BY <1>1, <1>2 DEF RefreshSendButtons
<1>5. \A i \in 1..n : f[i] \in Rows /\ f[i].button = Button(i) /\ f[i].enabled = rs[i].enabled
  <2> SUFFICES ASSUME NEW i \in 1..n
               PROVE  f[i] \in Rows /\ f[i].button = Button(i) /\ f[i].enabled = rs[i].enabled
    OBVIOUS
  <2>1. PICK r \in Rows : r = rs[i]
    BY <1>2, RowsOf
  <2>2. PICK b \in Buttons : b = Button(i)
    BY <1>3
  <2>3. f[i] = [r EXCEPT !.button = b]
    BY <1>4, <2>1, <2>2
  <2> QED
    BY <2>1, <2>2, <2>3, RowFields
<1>6. f \in Seq(Rows) /\ Len(f) = n /\ DOMAIN f = 1..n
  BY <1>4, <1>5, RowByRow
<1> QED
  BY <1>1, <1>2, <1>3, <1>5, <1>6

\* Rows that were moved tick the box as before.
LEMMA BoxIsKept ==
    ASSUME NEW E, NEW rs \in Seq(E), NEW S, NEW d, NEW t \in Arrangements(E, rs, S, DOMAIN rs, d),
           NEW u, DOMAIN u = DOMAIN t, \A i \in DOMAIN t : u[i].enabled = t[i].enabled
    PROVE  BoxOf(u) = BoxOf(rs)
<1>1. PICK from \in [DOMAIN rs -> DOMAIN rs] :
         /\ \A i \in DOMAIN rs : \E j \in DOMAIN rs : from[j] = i
         /\ t = [i \in DOMAIN rs |-> rs[from[i]]]
  BY DEF Arrangements, Arranged
<1>2. DOMAIN u = DOMAIN rs /\ \A i \in DOMAIN rs : u[i].enabled = rs[from[i]].enabled
  BY <1>1
<1>5. \A i \in DOMAIN u : \E j \in DOMAIN rs : u[i].enabled = rs[j].enabled
  BY <1>2
<1>6. ASSUME NEW j \in DOMAIN rs PROVE \E i \in DOMAIN u : u[i].enabled = rs[j].enabled
  <2>1. PICK i \in DOMAIN rs : from[i] = j
    BY <1>1
  <2> QED
    BY <1>2, <2>1
<1>3. (\A i \in DOMAIN u : ~u[i].enabled) <=> (\A i \in DOMAIN rs : ~rs[i].enabled)
  BY <1>5, <1>6, Zenon
<1>4. (\A i \in DOMAIN u : u[i].enabled) <=> (\A i \in DOMAIN rs : rs[i].enabled)
  BY <1>5, <1>6, Zenon
<1> QED
  BY <1>3, <1>4 DEF BoxOf

\* The rows, the selection and the box of a well-formed list.
RowsOK == /\ rows \in Seq(Rows) /\ selected \subseteq DOMAIN rows
          /\ select_all \in {"none", "some", "all"} /\ send_enabled \in BOOLEAN
          /\ SelectAllShows /\ ButtonsLow

LEMMA BoxIsBox == \A rs : BoxOf(rs) \in {"none", "some", "all"}
  BY DEF BoxOf

LEMMA AddStep == RowsOK /\ AddMacroRow => RowsOK' /\ Len(rows') = Len(rows) + 1
<1> SUFFICES ASSUME RowsOK, AddMacroRow PROVE RowsOK' /\ Len(rows') = Len(rows) + 1
  OBVIOUS
<1>1. DOMAIN rows = 1..Len(rows) /\ Len(rows) \in Nat /\ \A i \in DOMAIN rows : rows[i] \in Rows
  BY RowsOf DEF RowsOK
<1>2. PICK from \in IF selected = {} THEN {Len(rows)} ELSE selected :
         LET r == IF from > 0 THEN rows[from] ELSE [enabled |-> TRUE, delay |-> NewDelay]
         IN /\ rows' = InsertRow(rows, from + 1, Blank, r.enabled, r.delay)
            /\ selected' = {from + 1}
  BY DEF AddMacroRow
<1>3. PICK i : i = from + 1
  OBVIOUS
<1>4. i \in 1..(Len(rows) + 1)
  BY <1>1, <1>3 DEF RowsOK
<1>5. PICK e : e \in Rows /\ e.button.row = i /\ rows' = InsertAt(rows, i, e)
  <2>1. PICK r : r = IF from > 0 THEN rows[from] ELSE [enabled |-> TRUE, delay |-> NewDelay]
    OBVIOUS
  <2>2. r.enabled \in BOOLEAN /\ r.delay \in Delay
    <3>1. CASE from > 0
      <4>1. from \in DOMAIN rows
        BY <1>1, <1>3, <1>4, <3>1 DEF RowsOK
      <4> QED
        BY <1>1, <2>1, <3>1, <4>1, RowFields
    <3>2. CASE ~(from > 0)
      BY <2>1, <3>2, ListAssumption DEF Delay
    <3> QED
      BY <3>1, <3>2
  <2>3. rows' = InsertRow(rows, i, Blank, r.enabled, r.delay)
    BY <1>2, <1>3, <2>1
  <2>4. Button(i) \in Buttons /\ Button(i).row = i
    BY <1>1, <1>4 DEF Button, Buttons, RowsOK
  <2>5. PICK e : e = [command |-> Blank, enabled |-> r.enabled, delay |-> r.delay,
                      button |-> Button(i)]
    OBVIOUS
  <2>6. e \in Rows /\ e.button.row = i
    BY <2>2, <2>4, <2>5 DEF Rows, Buttons
  <2>7. rows' = InsertAt(rows, i, e)
    BY <2>3, <2>5 DEF InsertRow
  <2> QED
    BY <2>6, <2>7
<1>6. /\ rows' \in Seq(Rows) /\ Len(rows') = Len(rows) + 1
      /\ \A j \in 1..(Len(rows) + 1) :
           rows'[j] = IF j < i THEN rows[j] ELSE IF j = i THEN e ELSE rows[j - 1]
  <2>1. rows \in Seq(Rows) /\ e \in Rows
    BY <1>5 DEF RowsOK
  <2>2. PICK s \in Seq(Rows) : s = rows
    BY <2>1
  <2>3. i \in 1..(Len(s) + 1)
    BY <1>4, <2>2
  <2>4. /\ InsertAt(s, i, e) \in Seq(Rows) /\ Len(InsertAt(s, i, e)) = Len(s) + 1
        /\ \A j \in 1..(Len(s) + 1) :
             InsertAt(s, i, e)[j] = IF j < i THEN s[j] ELSE IF j = i THEN e ELSE s[j - 1]
    <3>1. e \in Rows
      BY <2>1
    <3>2. i \in 1..(Len(s) + 1) /\ s \in Seq(Rows)
      BY <2>3
    <3>3. WithEntry(InsertAt(s, i, e), Rows, s, i, e)
      BY <3>1, <3>2, PutIn, Zenon
    <3> QED
      BY <3>3 DEF WithEntry
  <2> QED
    BY <1>5, <2>2, <2>4
<1>7. DOMAIN rows' = 1..(Len(rows) + 1)
  BY <1>6, RowsOf
<1>8. ASSUME NEW j \in DOMAIN rows' PROVE rows'[j].button.row <= j
  <2>1. CASE j < i
    BY <1>1, <1>4, <1>6, <1>7, <2>1 DEF RowsOK, ButtonsLow
  <2>2. CASE j = i
    BY <1>1, <1>4, <1>5, <1>6, <1>7, <2>2
  <2>3. CASE j > i
    <3>1. PICK k : k = j - 1
      OBVIOUS
    <3>2. k \in DOMAIN rows /\ rows'[j] = rows[k]
      BY <1>1, <1>4, <1>6, <1>7, <2>3, <3>1
    <3>3. rows[k].button.row <= k /\ rows[k].button.row \in Nat
      BY <1>1, <3>2, RowFields DEF RowsOK, ButtonsLow, Buttons
    <3> QED
      BY <1>1, <1>7, <3>1, <3>2, <3>3
  <2> QED
    BY <1>1, <1>4, <1>7, <2>1, <2>2, <2>3
<1>9. selected' \subseteq DOMAIN rows' /\ select_all' = BoxOf(rows') /\ UNCHANGED send_enabled
  BY <1>2, <1>3, <1>4, <1>7 DEF AddMacroRow
<1> QED
  BY <1>6, <1>8, <1>9, BoxIsBox DEF RowsOK, SelectAllShows, ButtonsLow

LEMMA RemoveStep == RowsOK /\ RemoveSelectedRows => RowsOK'
<1> SUFFICES ASSUME RowsOK, RemoveSelectedRows PROVE RowsOK'
  OBVIOUS
<1>1. PICK rs \in Seq(Rows) : rs = RowsLeft(rows, selected)
  BY RowsLeftAreRows DEF RowsOK
<1>2. rows' = RefreshSendButtons(rs) /\ send_enabled \in BOOLEAN
  BY <1>1 DEF RemoveSelectedRows, RowsOK
<1>3. /\ rows' \in Seq(Rows) /\ DOMAIN rows' = DOMAIN rs
      /\ \A i \in DOMAIN rs : rows'[i].button.row = i
  BY <1>2, Refreshed
<1>4. DOMAIN rs \subseteq Nat
  BY RowsOf
<1>5. selected' = {} /\ select_all' = BoxOf(rows') /\ UNCHANGED send_enabled
  BY DEF RemoveSelectedRows
<1>6. \A i \in DOMAIN rows' : rows'[i].button.row <= i
  BY <1>3, <1>4
<1> QED
  BY <1>2, <1>3, <1>5, <1>6, BoxIsBox DEF RowsOK, SelectAllShows, ButtonsLow

\* Either way of moving the selection.
LEMMA MoveStep ==
    ASSUME RowsOK, rows # <<>>, NEW d,
           NEW t \in Arrangements(Rows, rows, selected, DOMAIN rows, d),
           rows' = RefreshSendButtons(t), UNCHANGED <<select_all, send_enabled>>,
           selected' \subseteq DOMAIN rows
    PROVE  RowsOK'
<1>1. t \in Seq(Rows) /\ Len(t) = Len(rows) /\ send_enabled \in BOOLEAN /\ rows \in Seq(Rows)
  BY DEF Arrangements, RowsOK
<1>2. DOMAIN t = DOMAIN rows /\ DOMAIN t \subseteq Nat
  BY <1>1, RowsOf
<1>3. /\ rows' \in Seq(Rows) /\ DOMAIN rows' = DOMAIN t
      /\ \A i \in DOMAIN t : rows'[i].button.row = i /\ rows'[i].enabled = t[i].enabled
  BY <1>1, Refreshed
<1>4. PICK u : u = rows'
  OBVIOUS
<1>5. BoxOf(u) = BoxOf(rows)
  BY <1>1, <1>3, <1>4, BoxIsKept
<1>6. select_all' = BoxOf(rows')
  BY <1>4, <1>5 DEF RowsOK, SelectAllShows
<1>7. \A i \in DOMAIN rows' : rows'[i].button.row <= i
  BY <1>2, <1>3
<1> QED
  BY <1>2, <1>3, <1>6, <1>7 DEF RowsOK, SelectAllShows, ButtonsLow

LEMMA MinFacts ==
    ASSUME NEW S, S \subseteq Nat, S # {}
    PROVE  Min(S) \in S /\ \A y \in S : Min(S) <= y
<1>1. \E x \in S : \A y \in S : x =< y
  BY LeastNumber
<1> QED
  BY <1>1, Zenon DEF Min

LEMMA MoveUpStep == RowsOK /\ MoveUpSelectedRow => RowsOK'
<1> SUFFICES ASSUME RowsOK, MoveUpSelectedRow PROVE RowsOK'
  OBVIOUS
<1>1. DOMAIN rows = 1..Len(rows) /\ Len(rows) \in Nat /\ selected # {} /\ 1 \notin selected
      /\ rows \in Seq(Rows) /\ selected \in SUBSET (DOMAIN rows)
  BY RowsOf DEF RowsOK, MoveUpSelectedRow, CanMoveUp
<1>2. PICK t : t = MovedUp(rows, selected)
  OBVIOUS
<1>3. t \in Arrangements(Rows, rows, selected, DOMAIN rows, -1)
  BY <1>1, <1>2, MovedUpArranges
<1>4. Max(selected) \in selected
  BY <1>1, MaxFacts
<1>5. PICK k : k = Max(selected)
  OBVIOUS
<1>6. selected' = {k - 1} /\ k \in DOMAIN rows /\ k # 1
  BY <1>1, <1>4, <1>5 DEF MoveUpSelectedRow
<1>7. selected' \subseteq DOMAIN rows /\ rows # <<>>
  BY <1>1, <1>6
<1>8. rows' = RefreshSendButtons(t) /\ UNCHANGED <<select_all, send_enabled>>
  BY <1>2 DEF MoveUpSelectedRow
<1> QED
  BY <1>3, <1>7, <1>8, MoveStep

LEMMA MoveDownStep == RowsOK /\ MoveDownSelectedRow => RowsOK'
<1> SUFFICES ASSUME RowsOK, MoveDownSelectedRow PROVE RowsOK'
  OBVIOUS
<1>1. DOMAIN rows = 1..Len(rows) /\ Len(rows) \in Nat /\ selected # {} /\ Len(rows) \notin selected
      /\ rows \in Seq(Rows) /\ selected \in SUBSET (DOMAIN rows)
  BY RowsOf DEF RowsOK, MoveDownSelectedRow, CanMoveDown
<1>2. PICK t : t = MovedDown(rows, selected)
  OBVIOUS
<1>3. t \in Arrangements(Rows, rows, selected, DOMAIN rows, 1)
  BY <1>1, <1>2, MovedDownArranges
<1>4. Min(selected) \in selected
  BY <1>1, MinFacts
<1>5. PICK k : k = Min(selected)
  OBVIOUS
<1>6. selected' = {k + 1} /\ k \in DOMAIN rows /\ k # Len(rows)
  BY <1>1, <1>4, <1>5 DEF MoveDownSelectedRow
<1>7. selected' \subseteq DOMAIN rows /\ rows # <<>>
  BY <1>1, <1>6
<1>8. rows' = RefreshSendButtons(t) /\ UNCHANGED <<select_all, send_enabled>>
  BY <1>2 DEF MoveDownSelectedRow
<1> QED
  BY <1>3, <1>7, <1>8, MoveStep

\* Rows rewritten one by one, each with the button it had or one of its own number.
LEMMA RewriteStep ==
    ASSUME RowsOK, rows' = [i \in DOMAIN rows |-> rows'[i]],
           \A i \in DOMAIN rows :
              rows'[i] \in Rows /\ rows'[i].button.row \in {rows[i].button.row, i},
           UNCHANGED selected, send_enabled' \in BOOLEAN,
           \/ select_all' = BoxOf(rows')
           \/ UNCHANGED select_all /\ \A i \in DOMAIN rows : rows'[i].enabled = rows[i].enabled
    PROVE  RowsOK'
<1>1. PICK n \in Nat : DOMAIN rows = 1..n
  BY RowsOf DEF RowsOK
<1>2. PICK u : u = rows'
  OBVIOUS
<1>3. u = [i \in 1..n |-> u[i]] /\ \A i \in 1..n : u[i] \in Rows
  BY <1>1, <1>2
<1>4. u \in Seq(Rows) /\ DOMAIN u = 1..n
  BY <1>3, RowByRow
<1>5. \A i \in DOMAIN u : u[i].button.row <= i
  BY <1>1, <1>2, <1>4 DEF RowsOK, ButtonsLow
<1>6. UNCHANGED select_all /\ (\A i \in DOMAIN rows : u[i].enabled = rows[i].enabled)
      /\ u # <<>> => select_all' = BoxOf(u)
  <2> SUFFICES ASSUME UNCHANGED select_all, u # <<>>,
                      \A i \in DOMAIN rows : u[i].enabled = rows[i].enabled
               PROVE  select_all' = BoxOf(u)
    OBVIOUS
  <2>1. DOMAIN u = DOMAIN rows
    BY <1>1, <1>4
  <2>2. BoxOf(u) = BoxOf(rows)
    BY <2>1 DEF BoxOf
  <2>3. rows # <<>>
    BY <1>4, <2>1
  <2> QED
    BY <2>2, <2>3 DEF RowsOK, SelectAllShows
<1>7. u # <<>> => select_all' = BoxOf(u)
  BY <1>2, <1>6
<1>8. select_all' \in {"none", "some", "all"}
  BY BoxIsBox DEF RowsOK
<1> QED
  BY <1>1, <1>2, <1>4, <1>5, <1>7, <1>8 DEF RowsOK, SelectAllShows, ButtonsLow

LEMMA CheckStep == ASSUME RowsOK, NEW i \in DOMAIN rows, CheckRow(i) PROVE RowsOK'
<1>1. PICK r \in Rows : r = rows[i]
  BY RowsOf DEF RowsOK
<1>2. PICK q : q = [r EXCEPT !.enabled = ~r.enabled]
  OBVIOUS
<1>3. PICK on \in BOOLEAN : on = ~r.enabled
  OBVIOUS
<1>9. q = [r EXCEPT !.enabled = on]
  BY <1>2, <1>3, Zenon
<1>4. q \in Rows /\ q.button = r.button
  BY <1>9, RowFields
<1>5. rows' = [rows EXCEPT ![i] = q]
  BY <1>1, <1>2 DEF CheckRow
<1>6. /\ rows' = [j \in DOMAIN rows |-> rows'[j]] /\ rows'[i] = q
      /\ \A j \in DOMAIN rows : j # i => rows'[j] = rows[j]
  BY <1>5
<1>7. \A j \in DOMAIN rows : rows'[j] \in Rows /\ rows'[j].button.row \in {rows[j].button.row, j}
  BY <1>1, <1>4, <1>6, RowsOf DEF RowsOK
<1>8. select_all' = BoxOf(rows') /\ UNCHANGED <<selected, send_enabled>>
  BY DEF CheckRow, BoxAfterItem
<1> QED
  BY <1>6, <1>7, <1>8, RewriteStep DEF RowsOK

LEMMA EditStep == ASSUME RowsOK, NEW i \in DOMAIN rows, EditRow(i) PROVE RowsOK'
<1>1. PICK r \in Rows : r = rows[i]
  BY RowsOf DEF RowsOK
<1>2. PICK q \in Rows : q.enabled = r.enabled /\ q.button = r.button /\ rows' = [rows EXCEPT ![i] = q]
  <2>1. CASE \E c \in Typed \ {rows[i].command} : rows' = [rows EXCEPT ![i].command = c]
    <3>1. PICK c \in Command : rows' = [rows EXCEPT ![i] = [r EXCEPT !.command = c]]
      BY <1>1, <2>1, ListAssumption
    <3>2. PICK q : q = [r EXCEPT !.command = c]
      OBVIOUS
    <3>3. q \in Rows /\ q.enabled = r.enabled /\ q.button = r.button
      BY <3>2, RowFields
    <3> QED
      BY <3>1, <3>2, <3>3
  <2>2. CASE rows' = [rows EXCEPT ![i].delay = NotANumber]
    <3>1. rows' = [rows EXCEPT ![i] = [r EXCEPT !.delay = NotANumber]] /\ NotANumber \in Delay
      BY <1>1, <2>2 DEF Delay
    <3>2. PICK q : q = [r EXCEPT !.delay = NotANumber]
      OBVIOUS
    <3>3. q \in Rows /\ q.enabled = r.enabled /\ q.button = r.button
      BY <3>1, <3>2, RowFields
    <3> QED
      BY <3>1, <3>2, <3>3
  <2> QED
    BY <2>1, <2>2 DEF EditRow
<1>3. /\ rows' = [j \in DOMAIN rows |-> rows'[j]] /\ rows'[i] = q
      /\ \A j \in DOMAIN rows : j # i => rows'[j] = rows[j]
  BY <1>2
<1>4. \A j \in DOMAIN rows : /\ rows'[j] \in Rows /\ rows'[j].button.row \in {rows[j].button.row, j}
                             /\ rows'[j].enabled = rows[j].enabled
  BY <1>1, <1>2, <1>3, RowsOf DEF RowsOK
<1>5. UNCHANGED <<selected, select_all, send_enabled>>
  BY DEF EditRow
<1> QED
  BY <1>3, <1>4, <1>5, RewriteStep DEF RowsOK

LEMMA SelectAllStep == RowsOK /\ OnSelectAllChanged => RowsOK'
<1> SUFFICES ASSUME RowsOK, OnSelectAllChanged PROVE RowsOK'
  OBVIOUS
<1>1. PICK on \in BOOLEAN : on = (select_all # "all")
  OBVIOUS
<1>2. rows' = [i \in DOMAIN rows |-> [rows[i] EXCEPT !.enabled = on]]
  BY <1>1 DEF OnSelectAllChanged
<1>3. \A i \in DOMAIN rows : rows'[i] \in Rows /\ rows'[i].button.row \in {rows[i].button.row, i}
  <2> SUFFICES ASSUME NEW i \in DOMAIN rows
               PROVE  rows'[i] \in Rows /\ rows'[i].button.row \in {rows[i].button.row, i}
    OBVIOUS
  <2>1. PICK r \in Rows : r = rows[i]
    BY RowsOf DEF RowsOK
  <2>2. rows'[i] = [r EXCEPT !.enabled = on]
    BY <1>2, <2>1
  <2> QED
    BY <2>1, <2>2, RowFields
<1>4. rows' = [i \in DOMAIN rows |-> rows'[i]]
  BY <1>2
<1>5. select_all' = BoxOf(rows') /\ UNCHANGED <<selected, send_enabled>>
  BY DEF OnSelectAllChanged
<1> QED
  BY <1>3, <1>4, <1>5, RewriteStep DEF RowsOK

LEMMA SendStep == RowsOK /\ SetSendEnabled => RowsOK'
<1> SUFFICES ASSUME RowsOK, SetSendEnabled PROVE RowsOK'
  OBVIOUS
<1>1. PICK on \in BOOLEAN : on = send_enabled'
  BY DEF RowsOK, SetSendEnabled
<1>2. rows' = [i \in DOMAIN rows |-> [rows[i] EXCEPT !.button.armed = on]]
  BY <1>1 DEF SetSendEnabled
<1>3. \A i \in DOMAIN rows : /\ rows'[i] \in Rows /\ rows'[i].button.row \in {rows[i].button.row, i}
                             /\ rows'[i].enabled = rows[i].enabled
  <2> SUFFICES ASSUME NEW i \in DOMAIN rows
               PROVE  /\ rows'[i] \in Rows /\ rows'[i].button.row \in {rows[i].button.row, i}
                      /\ rows'[i].enabled = rows[i].enabled
    OBVIOUS
  <2>1. PICK r \in Rows : r = rows[i]
    BY RowsOf DEF RowsOK
  <2>2. PICK b : b = [r.button EXCEPT !.armed = on]
    OBVIOUS
  <2>3. b \in Buttons /\ b.row = r.button.row
    BY <2>2, RowFields DEF Buttons
  <2>4. rows'[i] = [r EXCEPT !.button = b]
    BY <1>2, <2>1, <2>2
  <2> QED
    BY <2>1, <2>3, <2>4, RowFields
<1>4. rows' = [i \in DOMAIN rows |-> rows'[i]]
  BY <1>2
<1>5. UNCHANGED <<selected, select_all>> /\ send_enabled' \in BOOLEAN
  BY <1>1 DEF SetSendEnabled
<1> QED
  BY <1>3, <1>4, <1>5, RewriteStep DEF RowsOK

-----------------------------------------------------------------------------
(* Scripts *)

IsScript(es) == es \in Seq(Entries \cup {Broken})

LEMMA ReadableIs ==
    ASSUME NEW es, IsScript(es)
    PROVE  /\ Readable(es) \in 0..Len(es) /\ Len(es) \in Nat
           /\ \A i \in 1..Readable(es) : es[i] \in Entries
           /\ Readable(es) < Len(es) => es[Readable(es) + 1] = Broken
<1>1. Len(es) \in Nat /\ \A i \in 1..Len(es) : es[i] \in Entries \cup {Broken}
  BY LenProperties, ElementOfSeq DEF IsScript
<1> DEFINE T == {n \in 0..Len(es) : n < Len(es) => es[n + 1] = Broken}
<1>2. PICK n \in T : \A k \in T : n <= k
  <2>1. Len(es) \in T /\ T \subseteq Nat
    BY <1>1
  <2> HIDE DEF T
  <2> QED
    BY <2>1, LeastNumber
<1>3. ASSUME NEW i \in 1..n PROVE es[i] # Broken
  <2>1. i - 1 \in 0..Len(es) /\ i - 1 < n /\ i - 1 < Len(es) /\ (i - 1) + 1 = i
    BY <1>1, <1>2
  <2>2. i - 1 \notin T
    BY <1>2, <2>1
  <2> QED
    BY <2>1, <2>2
<1>4. \E k \in 0..Len(es) : (\A i \in 1..k : es[i] # Broken) /\ (k < Len(es) => es[k + 1] = Broken)
  BY <1>2, <1>3
<1>5. PICK k : k = Readable(es)
  OBVIOUS
<1>6. /\ k \in 0..Len(es) /\ \A i \in 1..k : es[i] # Broken
      /\ k < Len(es) => es[k + 1] = Broken
  BY <1>4, <1>5, Zenon DEF Readable
<1>7. \A i \in 1..k : es[i] \in Entries
  BY <1>1, <1>6
<1> QED
  BY <1>1, <1>5, <1>6, <1>7

LEMMA ImportsRows ==
    ASSUME send_enabled \in BOOLEAN, NEW es, IsScript(es)
    PROVE  /\ ImportMacros(es) \in Seq(Rows) /\ Len(ImportMacros(es)) = Readable(es)
           /\ DOMAIN ImportMacros(es) = 1..Readable(es)
           /\ \A i \in 1..Readable(es) :
                /\ ImportMacros(es)[i].button.row = i
                /\ ImportMacros(es)[i].command = es[i].command
                /\ ImportMacros(es)[i].enabled = es[i].enabled
                /\ ImportMacros(es)[i].delay = DelayOf(es[i].delay)
<1>1. PICK n \in Nat : n = Readable(es)
  BY ReadableIs
<1>2. PICK f : f = ImportMacros(es)
  OBVIOUS
<1>3. f = [i \in 1..n |-> [command |-> es[i].command, enabled |-> es[i].enabled,
                           delay |-> DelayOf(es[i].delay), button |-> Button(i)]]
  BY <1>1, <1>2 DEF ImportMacros
<1>4. ASSUME NEW i \in 1..n
      PROVE  /\ f[i] \in Rows /\ f[i].button.row = i
             /\ f[i].command = es[i].command /\ f[i].enabled = es[i].enabled
             /\ f[i].delay = DelayOf(es[i].delay)
  <2>1. PICK e \in Entries : e = es[i]
    BY <1>1, ReadableIs
  <2>2. DelayOf(e.delay) \in Delay
    BY DEF Entries, DelayOf, Delay
  <2>3. Button(i) \in Buttons /\ Button(i).row = i
    BY DEF Button, Buttons
  <2>4. f[i] = [command |-> e.command, enabled |-> e.enabled,
                delay |-> DelayOf(e.delay), button |-> Button(i)]
    BY <1>3, <2>1
  <2> QED
    BY <2>1, <2>2, <2>3, <2>4 DEF Entries, Rows, Buttons
<1>5. f = [i \in 1..n |-> f[i]]
  BY <1>3
<1>6. f \in Seq(Rows) /\ Len(f) = n /\ DOMAIN f = 1..n
  BY <1>4, <1>5, RowByRow
<1> QED
  BY <1>1, <1>2, <1>4, <1>6

LEMMA ShowStep == ASSUME RowsOK, NEW es, IsScript(es), ShowScript(es) PROVE RowsOK'
<1>1. CASE es = <<>>
  BY <1>1 DEF ShowScript, rowVars, RowsOK, SelectAllShows, ButtonsLow
<1>2. CASE es # <<>>
  <2>1. PICK rs \in Seq(Rows) : rs = ImportMacros(es)
    BY ImportsRows DEF RowsOK
  <2>2. \A i \in DOMAIN rs : rs[i].button.row = i /\ i \in Nat
    BY <2>1, ImportsRows, RowsOf DEF RowsOK
  <2>3. rows' = rs /\ selected' = {} /\ UNCHANGED send_enabled
        /\ select_all' = IF rows' = <<>> THEN select_all ELSE BoxOf(rows')
    BY <1>2, <2>1 DEF ShowScript
  <2>4. \A i \in DOMAIN rows' : rows'[i].button.row <= i
    BY <2>2, <2>3
  <2> QED
    BY <2>3, <2>4, BoxIsBox DEF RowsOK, SelectAllShows, ButtonsLow
<1> QED
  BY <1>1, <1>2


\* The steps that leave the rows, the box and the send buttons alone.
LEMMA HighlightStep ==
    ASSUME RowsOK, UNCHANGED <<rows, select_all, send_enabled>>, selected' \subseteq DOMAIN rows
    PROVE  RowsOK'
  BY DEF RowsOK, SelectAllShows, ButtonsLow

LEMMA RowsStep == RowsOK /\ loaded \in Seq(Scripts) /\ [ListNext]_listVars => RowsOK'
<1> SUFFICES ASSUME RowsOK, loaded \in Seq(Scripts), [ListNext]_listVars PROVE RowsOK'
  OBVIOUS
<1>1. CASE \E S \in SUBSET DOMAIN rows : Select(S)
  BY <1>1, HighlightStep DEF Select
<1>2. CASE \E i \in DOMAIN rows : CheckRow(i) \/ EditRow(i)
  BY <1>2, CheckStep, EditStep
<1>3. CASE OnStepStarted \/ OnMacroFinished
  BY <1>3, HighlightStep DEF OnStepStarted, OnMacroFinished, SetCurrentRow
<1>4. CASE OnLoadSuccess
  <2>1. Head(loaded) \in Scripts /\ Head(loaded) # Broken
    BY <1>4 DEF OnLoadSuccess
  <2>2. PICK es : es = Head(loaded)
    OBVIOUS
  <2>3. IsScript(es) /\ ShowScript(es)
    BY <1>4, <2>1, <2>2 DEF OnLoadSuccess, IsScript, Scripts
  <2> QED
    BY <2>3, ShowStep
<1>5. CASE UNCHANGED rowVars
  BY <1>5, HighlightStep DEF rowVars, RowsOK
<1>6. \/ (\E S \in SUBSET DOMAIN rows : Select(S))
      \/ (\E i \in DOMAIN rows : CheckRow(i) \/ EditRow(i))
      \/ OnStepStarted \/ OnMacroFinished \/ OnLoadSuccess \/ UNCHANGED rowVars
      \/ AddMacroRow \/ RemoveSelectedRows \/ MoveUpSelectedRow \/ MoveDownSelectedRow
      \/ OnSelectAllChanged \/ SetSendEnabled
  BY DEF ListNext, listVars, rowVars, OnRepeatStart, OpenToSave, Save, OnScriptLoad, OnLoadFailed,
         ReadScript, LoaderEnds
<1> QED
  BY <1>1, <1>2, <1>3, <1>4, <1>5, <1>6, AddStep, RemoveStep, MoveUpStep, MoveDownStep,
     SelectAllStep, SendStep

\* The files and the threads that read them.
FilesOK ==
    /\ plan \subseteq Nat \ {0}
    /\ load_worker \in 0..MaxLoads
    /\ loader \in [Loads -> {"unused", "reading", "emitted", "ended"}]
    /\ target \in [Loads -> Script \cup {Own}]
    /\ loaded \in Seq(Scripts) /\ file \in Scripts
    /\ alive \in BOOLEAN /\ saving \in BOOLEAN /\ edits \in 0..MaxEdits

LEMMA Exported ==
    ASSUME rows \in Seq(Rows)
    PROVE  /\ IsScript(ExportMacros) /\ Len(ExportMacros) = Len(rows)
           /\ \A i \in DOMAIN rows : /\ ExportMacros[i] \in Entries
                                     /\ ExportMacros[i] = Export(rows[i])
<1>1. PICK f : f = ExportMacros
  OBVIOUS
<1>2. PICK n \in Nat : n = Len(rows) /\ DOMAIN rows = 1..n /\ \A i \in 1..n : rows[i] \in Rows
  BY RowsOf
<1>3. f = [i \in 1..n |-> Export(rows[i])]
  BY <1>1, <1>2 DEF ExportMacros
<1>4. ASSUME NEW i \in 1..n PROVE f[i] \in Entries
  <2>1. PICK r \in Rows : r = rows[i]
    BY <1>2
  <2>2. f[i] = [command |-> r.command, enabled |-> r.enabled, delay |-> DelayOf(r.delay)]
    BY <1>3, <2>1 DEF Export
  <2>3. DelayOf(r.delay) \in Delay
    BY RowFields DEF DelayOf, Delay
  <2> QED
    BY <2>2, <2>3, RowFields DEF Entries
<1>5. f \in [1..n -> Entries \cup {Broken}]
  BY <1>3, <1>4
<1>6. f \in Seq(Entries \cup {Broken}) /\ Len(f) = n
  BY <1>5, IsASeq, SeqDef
<1> QED
  BY <1>1, <1>2, <1>3, <1>4, <1>6 DEF IsScript

LEMMA FilesStep == RowsOK /\ FilesOK /\ [ListNext]_listVars => FilesOK'
<1> SUFFICES ASSUME RowsOK, FilesOK, [ListNext]_listVars PROVE FilesOK'
  OBVIOUS
<1> USE ListAssumption
<1>1. CASE UNCHANGED <<plan, loadVars, fileVars, alive>> /\ edits' \in 0..MaxEdits
  BY <1>1 DEF FilesOK, loadVars, fileVars
<1>2. CASE OnRepeatStart
  <2>1. plan' \subseteq Nat \ {0}
    BY <1>2, RowsOf DEF OnRepeatStart, SelectedIndices, RowsOK
  <2> QED
    BY <1>2, <2>1 DEF OnRepeatStart, FilesOK, loadVars, fileVars
<1>3. CASE OnMacroFinished
  BY <1>3 DEF OnMacroFinished, FilesOK, loadVars, fileVars
<1>4. CASE OpenToSave
  BY <1>4 DEF OpenToSave, FilesOK, loadVars, Scripts
<1>5. CASE Save
  <2>1. ExportMacros \in Scripts
    BY Exported DEF RowsOK, IsScript, Scripts
  <2>2. file' \in Scripts
    BY <1>5, <2>1 DEF Save, Scripts
  <2> QED
    BY <1>5, <2>2 DEF Save, FilesOK, loadVars
<1>6. ASSUME NEW w \in Loads \cup {None}, SetLoadWorker(w)
      PROVE  load_worker' \in 0..MaxLoads /\ alive' \in BOOLEAN
  BY <1>6 DEF SetLoadWorker, Loads, None
<1>7. CASE OnScriptLoad
  <2>1. PICK w \in Loads : /\ loader' = [loader EXCEPT ![w] = "reading"]
                           /\ \E s \in Script \cup {Own} : target' = [target EXCEPT ![w] = s]
                           /\ SetLoadWorker(w)
    BY <1>7 DEF OnScriptLoad
  <2>2. load_worker' \in 0..MaxLoads /\ alive' \in BOOLEAN
    BY <1>6, <2>1
  <2> QED
    BY <1>7, <2>1, <2>2 DEF OnScriptLoad, FilesOK, fileVars
<1>8. CASE \E w \in Loads : ReadScript(w)
  <2>1. PICK w \in Loads : ReadScript(w)
    BY <1>8
  <2>2. PICK e : e = IF target[w] = Own THEN file ELSE target[w]
    OBVIOUS
  <2>3. e \in Scripts
    BY <2>2, ScriptAssumption DEF FilesOK, Scripts
  <2>4. loaded' \in Seq(Scripts)
    BY <2>1, <2>2, <2>3, AppendProperties DEF ReadScript, FilesOK
  <2> QED
    BY <2>1, <2>4 DEF ReadScript, FilesOK, fileVars
<1>9. CASE \E w \in Loads : LoaderEnds(w)
  BY <1>9 DEF LoaderEnds, FilesOK, fileVars
<1>10. CASE OnLoadFailed
  <2>1. loaded' \in Seq(Scripts)
    BY <1>10, HeadTailProperties DEF OnLoadFailed, FilesOK
  <2>2. load_worker' \in 0..MaxLoads /\ alive' \in BOOLEAN
    BY <1>6, <1>10 DEF OnLoadFailed
  <2> QED
    BY <1>10, <2>1, <2>2 DEF OnLoadFailed, FilesOK, fileVars
<1>11. CASE OnLoadSuccess
  <2>1. loaded' \in Seq(Scripts)
    BY <1>11, HeadTailProperties DEF OnLoadSuccess, FilesOK
  <2>2. load_worker' \in 0..MaxLoads /\ alive' \in BOOLEAN
    <3>1. UNCHANGED <<load_worker, alive>> \/ SetLoadWorker(None)
      BY <1>11 DEF OnLoadSuccess
    <3> QED
      BY <1>6, <3>1 DEF FilesOK
  <2> QED
    BY <1>11, <2>1, <2>2 DEF OnLoadSuccess, FilesOK, fileVars
<1>12. Edited /\ OnlyList => UNCHANGED <<plan, loadVars, fileVars, alive>> /\ edits' \in 0..MaxEdits
  BY DEF Edited, OnlyList, FilesOK
<1>13. \/ Edited /\ OnlyList
       \/ UNCHANGED <<plan, loadVars, fileVars, alive, edits>>
       \/ OnRepeatStart \/ OnMacroFinished \/ OpenToSave \/ Save \/ OnScriptLoad
       \/ OnLoadFailed \/ OnLoadSuccess \/ \E w \in Loads : ReadScript(w) \/ LoaderEnds(w)
  BY DEF ListNext, listVars, Select, CheckRow, EditRow, AddMacroRow, RemoveSelectedRows,
         MoveUpSelectedRow, MoveDownSelectedRow, OnSelectAllChanged, SetSendEnabled,
         OnStepStarted, OnlyList
<1>14. UNCHANGED edits => edits' \in 0..MaxEdits
  BY DEF FilesOK
<1> QED
  BY <1>1, <1>2, <1>3, <1>4, <1>5, <1>7, <1>8, <1>9, <1>10, <1>11, <1>12, <1>13, <1>14

LEMMA ListInvInit == ListInit => RowsOK /\ FilesOK
<1> SUFFICES ASSUME ListInit PROVE RowsOK /\ FilesOK
  OBVIOUS
<1>1. <<>> \in Seq(Rows) /\ <<>> \in Seq(Scripts) /\ DOMAIN <<>> = {}
  OBVIOUS
<1>2. RowsOK
  BY <1>1 DEF ListInit, RowsInit, RowsOK, SelectAllShows, ButtonsLow
<1>3. FilesOK
  <2>1. load_worker \in 0..MaxLoads /\ edits \in 0..MaxEdits
    BY ListAssumption DEF ListInit, None
  <2>2. loader \in [Loads -> {"unused", "reading", "emitted", "ended"}]
        /\ target \in [Loads -> Script \cup {Own}]
    BY DEF ListInit
  <2>3. plan = {} /\ loaded \in Seq(Scripts) /\ file \in Scripts /\ alive = TRUE /\ saving = FALSE
    BY <1>1 DEF ListInit, Scripts
  <2> QED
    BY <2>1, <2>2, <2>3 DEF FilesOK
<1> QED
  BY <1>2, <1>3

\* The list, its box, the scripts and their threads are well formed in every reachable state.
THEOREM ListTyped == ListSpec => []ListTypeOK
<1>1. RowsOK /\ FilesOK /\ [ListNext]_listVars => (RowsOK /\ FilesOK)'
  BY RowsStep, FilesStep DEF FilesOK
<1>2. RowsOK /\ FilesOK => ListTypeOK
  BY DEF RowsOK, FilesOK, ListTypeOK
<1> QED
  BY <1>1, <1>2, ListInvInit, PTL DEF ListSpec

LEMMA ListAlwaysOK == ListSpec => [](RowsOK /\ FilesOK)
<1>1. RowsOK /\ FilesOK /\ [ListNext]_listVars => (RowsOK /\ FilesOK)'
  BY RowsStep, FilesStep DEF FilesOK
<1> QED
  BY <1>1, ListInvInit, PTL DEF ListSpec

LEMMA MovesAreShifts ==
    ASSUME NEW rs, NEW S \in SUBSET (DOMAIN rs), NEW E, NEW d,
           NEW t \in Arrangements(E, rs, S, DOMAIN rs, d)
    PROVE  Shifted(rs, S, t, d)
  BY DEF Arrangements, Arranged, Shifted, IsInjective

\* Moving a selection, of any rows of a list of any length, moves each of its rows by one,
\* loses none and keeps the others in their order; and the select-all box says what the rows
\* say, whatever was edited, moved or loaded.
THEOREM EditsAlwaysKeepList == ListSpec => []EditsKeepList
<1>1. RowsOK => MovesSelected
  <2> SUFFICES ASSUME RowsOK PROVE MovesSelected
    OBVIOUS
  <2>1. rows \in Seq(Rows) /\ selected \in SUBSET (DOMAIN rows)
    BY DEF RowsOK
  <2>2. ASSUME CanMoveUp PROVE Shifted(rows, selected, MovedUp(rows, selected), -1)
    <3>1. MovedUp(rows, selected) \in Arrangements(Rows, rows, selected, DOMAIN rows, -1)
      BY <2>1, <2>2, MovedUpArranges DEF CanMoveUp
    <3> QED
      BY <2>1, <3>1, MovesAreShifts
  <2>3. ASSUME CanMoveDown PROVE Shifted(rows, selected, MovedDown(rows, selected), 1)
    <3>1. MovedDown(rows, selected) \in Arrangements(Rows, rows, selected, DOMAIN rows, 1)
      BY <2>1, <2>3, MovedDownArranges DEF CanMoveDown
    <3> QED
      BY <2>1, <3>1, MovesAreShifts
  <2> QED
    BY <2>2, <2>3 DEF MovesSelected
<1>2. RowsOK /\ FilesOK => EditsKeepList
  BY <1>1 DEF RowsOK, EditsKeepList
<1> QED
  BY <1>2, ListAlwaysOK, PTL


\* What is saved can be loaded, whatever was typed: each row comes back, and is saved again
\* as it was.
THEOREM ScriptsComeBack == ListSpec => []ScriptRoundTrip
<1>1. ASSUME RowsOK PROVE ScriptRoundTrip
  <2>1. rows \in Seq(Rows) /\ send_enabled \in BOOLEAN
    BY <1>1 DEF RowsOK
  <2>2. PICK es : es = ExportMacros
    OBVIOUS
  <2>3. PICK again : again = ImportMacros(es)
    OBVIOUS
  <2>4. PICK n \in Nat : n = Len(rows) /\ DOMAIN rows = 1..n /\ \A i \in 1..n : rows[i] \in Rows
    BY <2>1, RowsOf
  <2>5. IsScript(es) /\ Len(es) = n /\ \A i \in 1..n : es[i] \in Entries /\ es[i] = Export(rows[i])
    BY <2>1, <2>2, <2>4, Exported
  <2>6. Readable(es) = n
    <3>1. PICK k : k = Readable(es)
      OBVIOUS
    <3>2. k \in 0..n /\ (k < n => es[k + 1] = Broken)
      BY <2>5, <3>1, ReadableIs
    <3>3. ~(k < n)
      <4> SUFFICES ASSUME k < n PROVE FALSE
        OBVIOUS
      <4>1. k + 1 \in 1..n
        BY <3>2
      <4>2. es[k + 1] \in Entries
        BY <2>5, <4>1
      <4> QED
        BY <3>2, <4>2, ScriptAssumption
    <3> QED
      BY <3>1, <3>2, <3>3
  <2>7. /\ Len(again) = n
        /\ \A i \in 1..n : /\ again[i].command = es[i].command
                           /\ again[i].enabled = es[i].enabled
                           /\ again[i].delay = DelayOf(es[i].delay)
    BY <2>1, <2>3, <2>5, <2>6, ImportsRows
  <2>8. ASSUME NEW i \in 1..n
        PROVE  /\ again[i].command = rows[i].command /\ again[i].enabled = rows[i].enabled
               /\ again[i].delay \in Int
               /\ rows[i].delay \in Int => again[i].delay = rows[i].delay
               /\ Export(again[i]) = es[i]
    <3>1. PICK r \in Rows : r = rows[i]
      BY <2>4
    <3>2. es[i] = [command |-> r.command, enabled |-> r.enabled, delay |-> DelayOf(r.delay)]
      BY <2>5, <3>1 DEF Export
    <3>3. PICK a : a = again[i]
      OBVIOUS
    <3>4. a.command = r.command /\ a.enabled = r.enabled /\ a.delay = DelayOf(DelayOf(r.delay))
      BY <2>7, <3>2, <3>3
    <3>5. /\ DelayOf(r.delay) \in Int /\ DelayOf(DelayOf(r.delay)) = DelayOf(r.delay)
          /\ DelayOf(DelayOf(DelayOf(r.delay))) = DelayOf(r.delay)
          /\ r.delay \in Int => DelayOf(r.delay) = r.delay
      <4>1. r.delay \in Int \cup {NotANumber}
        BY RowFields DEF Delay
      <4> QED
        BY <4>1, ScriptAssumption DEF DelayOf
    <3>6. Export(a) = es[i]
      BY <3>2, <3>4, <3>5 DEF Export
    <3> QED
      BY <3>1, <3>3, <3>4, <3>5, <3>6
  <2> QED
    BY <2>2, <2>3, <2>4, <2>7, <2>8 DEF ScriptRoundTrip
<1>2. RowsOK /\ FilesOK => ScriptRoundTrip
  BY <1>1
<1> QED
  BY <1>2, ListAlwaysOK, PTL

\* Whatever the rows and however many, a button never sends a row below its own, and after
\* removing, moving or loading each sends its own.
THEOREM ButtonsAlwaysRenewed == ListSpec => ButtonsRenewed
<1> DEFINE Low == \A i \in DOMAIN rows' : rows'[i].button.row <= i
           Renewed == \A i \in DOMAIN rows' : rows'[i].button.row = i
           Kept == \A i \in DOMAIN rows : rows'[i].button = rows[i].button
           Same == [i \in DOMAIN rows' |-> rows'[i].command] = [i \in DOMAIN rows |-> rows[i].command]
<1>1. ASSUME RowsOK, FilesOK, [ListNext]_listVars PROVE Low
  <2>1. RowsOK'
    BY <1>1, RowsStep DEF FilesOK
  <2> QED
    BY <2>1 DEF RowsOK, ButtonsLow
<1>2. ASSUME RowsOK, FilesOK, [ListNext]_listVars, rows' # rows, Len(rows') <= Len(rows), ~Same
      PROVE  Renewed \/ Kept
  <2>1. send_enabled \in BOOLEAN /\ rows \in Seq(Rows) /\ selected \in SUBSET (DOMAIN rows)
    BY <1>2 DEF RowsOK
  <2>2. ASSUME NEW rs \in Seq(Rows), rows' = RefreshSendButtons(rs) PROVE Renewed
    BY <2>1, <2>2, Refreshed
  <2>3. CASE RemoveSelectedRows
    BY <2>1, <2>2, <2>3, RowsLeftAreRows DEF RemoveSelectedRows
  <2>4. CASE MoveUpSelectedRow
    <3>1. MovedUp(rows, selected) \in Seq(Rows)
      BY <2>1, <2>4, MovedUpArranges DEF MoveUpSelectedRow, CanMoveUp, Arrangements
    <3> QED
      BY <2>2, <2>4, <3>1 DEF MoveUpSelectedRow
  <2>5. CASE MoveDownSelectedRow
    <3>1. MovedDown(rows, selected) \in Seq(Rows)
      BY <2>1, <2>5, MovedDownArranges DEF MoveDownSelectedRow, CanMoveDown, Arrangements
    <3> QED
      BY <2>2, <2>5, <3>1 DEF MoveDownSelectedRow
  <2>6. CASE OnLoadSuccess
    <3>1. Head(loaded) \in Scripts /\ Head(loaded) # Broken
      BY <1>2, <2>6 DEF OnLoadSuccess, FilesOK
    <3>2. PICK es : es = Head(loaded)
      OBVIOUS
    <3>3. IsScript(es) /\ rows' = ImportMacros(es)
      BY <1>2, <2>6, <3>1, <3>2 DEF OnLoadSuccess, IsScript, Scripts, ShowScript, rowVars
    <3> QED
      BY <2>1, <3>3, ImportsRows
  <2>7. CASE \E i \in DOMAIN rows : EditRow(i)
    <3>1. PICK i \in DOMAIN rows : EditRow(i)
      BY <2>7
    <3>2. \A j \in DOMAIN rows : rows[j] \in Rows
      BY <2>1, RowsOf
    <3> QED
      BY <3>1, <3>2 DEF EditRow, Rows
  <2>8. CASE AddMacroRow
    <3>1. RowsOK /\ Len(rows) \in Nat
      BY <1>2, <2>1, RowsOf
    <3>2. Len(rows') = Len(rows) + 1
      BY <2>8, <3>1, AddStep
    <3> QED
      BY <1>2, <3>1, <3>2
  <2>9. CASE \E i \in DOMAIN rows : CheckRow(i)
    <3>1. \A j \in DOMAIN rows : rows[j] \in Rows
      BY <2>1, RowsOf
    <3>2. DOMAIN rows' = DOMAIN rows /\ \A j \in DOMAIN rows : rows'[j].command = rows[j].command
      BY <2>9, <3>1 DEF CheckRow, Rows
    <3> QED
      BY <1>2, <3>2
  <2>10. CASE OnSelectAllChanged \/ SetSendEnabled
    <3>1. \A j \in DOMAIN rows : rows[j] \in Rows
      BY <2>1, RowsOf
    <3>2. DOMAIN rows' = DOMAIN rows /\ \A j \in DOMAIN rows : rows'[j].command = rows[j].command
      BY <2>10, <3>1 DEF OnSelectAllChanged, SetSendEnabled, Rows
    <3> QED
      BY <1>2, <3>2
  <2> QED
    BY <1>2, <2>3, <2>4, <2>5, <2>6, <2>7, <2>8, <2>9, <2>10
       DEF ListNext, listVars, rowVars, Select, OnStepStarted, OnMacroFinished, OnRepeatStart,
           OpenToSave, Save, OnScriptLoad, OnLoadFailed, ReadScript, LoaderEnds
<1>3. RowsOK /\ FilesOK /\ [ListNext]_listVars =>
        [/\ \A i \in DOMAIN rows' : rows'[i].button.row <= i
         /\ Len(rows') <= Len(rows) /\ [i \in DOMAIN rows' |-> rows'[i].command]
                                       # [i \in DOMAIN rows |-> rows[i].command]
            => \/ \A i \in DOMAIN rows' : rows'[i].button.row = i
               \/ \A i \in DOMAIN rows : rows'[i].button = rows[i].button]_rows
  BY <1>1, <1>2
<1> QED
  BY <1>3, ListAlwaysOK, PTL DEF ListSpec, ButtonsRenewed

=============================================================================
