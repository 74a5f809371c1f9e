----------------------------- MODULE MacroRunner -----------------------------
(***************************************************************************)
(* MacroRunner (model/macro_runner.py): the thread that executes a macro   *)
(* and the operations the GUI thread calls on it. One step is one section  *)
(* under _mutex or one emission; a wait on _cond or _expect_cond gives the *)
(* mutex up, so _mutex is free between two steps unless a section is left  *)
(* by an exception. Signals of the thread are queued for the GUI thread.   *)
(*                                                                         *)
(* Times are left out: a timed wait may end at any moment. loop_progress   *)
(* and step_completed change nothing and are left out, and so is the       *)
(* enabled flag of an entry: a plan holds the checked rows only.           *)
(***************************************************************************)
EXTENDS Integers, Sequences

CONSTANTS
    Row,          \* rows of the macro table
    Expecting,    \* rows whose entry has an expect pattern
    Uncompilable, \* rows whose pattern makes re.compile raise something else than re.error
    Plan,         \* lists of rows that load_macro may be given
    Option,       \* [loops, stopOnError, broadcast]: arguments of start
    MaxLoop,      \* bound: current_loop saturates here, above every loops of Option
    Backlog,      \* bound: signals queued when a running thread asks for a command
    MaxStarts,    \* bound: calls of start
    MaxPauses     \* bound: calls of pause

Options == [loops : Nat, stopOnError : BOOLEAN, broadcast : BOOLEAN]

ASSUME RowAssumption == Uncompilable \subseteq Expecting /\ Expecting \subseteq Row
ASSUME PlanAssumption == \A plan \in Plan : plan \in Seq(Row) /\ plan # <<>>
ASSUME OptionAssumption == \A o \in Option : o \in Options /\ o.loops <= MaxLoop
ASSUME BoundAssumption == /\ MaxLoop \in Nat /\ Backlog \in Nat
                          /\ MaxStarts \in Nat /\ MaxPauses \in Nat

VARIABLES
    running,  \* _is_running
    paused,   \* _is_paused
    opt,      \* the options in force
    entries,  \* _entries
    matcher,  \* _expect_matcher is set
    found,    \* _expect_found
    mutex,    \* "lost" once a section was left without unlocking
    pc,       \* where the thread is in run(); "off" when it does not run
    loop,     \* current_loop
    list,     \* the list the row loop iterates over
    pos,      \* index in list of the row at hand
    signals,  \* signals queued for the GUI thread: <<kind, row, broadcast>>
    caller,   \* where the GUI thread is in start() or stop()
    starts, pauses,                               \* bounded counts
    sinceStop, sincePause, heard, sentRows \* history

shared == <<running, paused, opt, entries, matcher, found, mutex>>
thread == <<pc, loop, list, pos>>
bounds == <<starts, pauses>>
history == <<sinceStop, sincePause, heard, sentRows>>
vars == <<shared, thread, signals, caller, bounds, history>>

Init == /\ running = FALSE /\ paused = FALSE
        /\ opt = [loops |-> 0, stopOnError |-> TRUE, broadcast |-> FALSE]
        /\ entries = <<>> /\ list = <<>> /\ pos = 0
        /\ matcher = FALSE /\ found = FALSE /\ mutex = "free"
        /\ pc = "off" /\ loop = 0
        /\ signals = <<>> /\ caller = "idle" /\ starts = 0 /\ pauses = 0
        /\ sinceStop = 0 /\ sincePause = 0 /\ heard = FALSE /\ sentRows = <<>>

\* QThread.isRunning()
IsRunning == pc # "off"

CurrentRow == list[pos]

\* _cond.wakeAll(): where the thread goes when it waits on _cond.
Woken == IF pc = "pausedWait" THEN "pauseTest"
         ELSE IF pc = "delaying" THEN "rowTest"
         ELSE IF pc = "resting" THEN "loopTest" ELSE pc

-----------------------------------------------------------------------------
(* The GUI thread *)

\* load_macro and the call of start that follows it.
LoadMacro(plan) ==
    /\ caller = "idle" /\ starts < MaxStarts
    /\ entries' = plan
    /\ starts' = starts + 1
    /\ caller' = "starting"
    /\ UNCHANGED <<running, paused, opt, matcher, found, mutex, thread, signals, pauses, history>>

\* The section of start that sets the flags.
StartFlags(o) ==
    /\ caller = "starting" /\ mutex = "free"
    /\ running' = TRUE /\ paused' = FALSE /\ opt' = o
    /\ caller' = "launching"
    /\ sinceStop' = 0 /\ sincePause' = 0
    /\ UNCHANGED <<entries, matcher, found, mutex, thread, signals, bounds, heard, sentRows>>

\* QThread.start(): nothing happens while the thread runs.
Launch ==
    /\ caller = "launching"
    /\ caller' = "idle"
    /\ IF IsRunning THEN UNCHANGED <<pc, loop>> ELSE pc' = "loopTest" /\ loop' = 0
    /\ UNCHANGED <<shared, list, pos, signals, bounds, history>>

StopCalled ==
    /\ caller = "idle"
    /\ caller' = "stopping"
    /\ UNCHANGED <<shared, thread, signals, bounds, history>>

\* _stop_internal() of a caller at "stopping": flags down, waiting thread woken.
StopForgetsWake ==                                         \* mutant: no wakeAll()
    /\ running' = FALSE /\ paused' = FALSE /\ pc' = pc
ClearFlags ==
    /\ running' = FALSE
    /\ paused' = IF running THEN FALSE ELSE paused
    /\ pc' = IF running THEN Woken ELSE pc

StopInternal ==
    /\ caller = "stopping" /\ mutex = "free"
    /\ ClearFlags
    /\ caller' = "waiting"
    /\ sinceStop' = IF running THEN 0 ELSE sinceStop
    /\ UNCHANGED <<opt, entries, matcher, found, mutex, loop, list, pos, signals, bounds,
                   sincePause, heard, sentRows>>

\* wait() returns when the thread has ended.
ThreadEnded == caller = "waiting" /\ ~IsRunning

StopReturn ==
    /\ ThreadEnded
    /\ caller' = "idle"
    /\ UNCHANGED <<shared, thread, signals, bounds, history>>

Pause ==
    /\ caller = "idle" /\ mutex = "free" /\ running /\ pauses < MaxPauses
    /\ paused' = TRUE
    /\ pauses' = pauses + 1
    /\ sincePause' = IF paused THEN sincePause ELSE 0
    /\ UNCHANGED <<running, opt, entries, matcher, found, mutex, thread, signals, caller, starts,
                   sinceStop, heard, sentRows>>

Resume ==
    /\ caller = "idle" /\ mutex = "free" /\ running /\ paused
    /\ paused' = FALSE
    /\ pc' = Woken
    /\ UNCHANGED <<running, opt, entries, matcher, found, mutex, loop, list, pos, signals,
                   caller, bounds, history>>

\* _on_data_received, with data that does or does not complete the pattern of the row at
\* hand.
DataReceived(matches) ==
    /\ caller = "idle" /\ mutex = "free"
    /\ IF running /\ matcher /\ matches THEN found' = TRUE ELSE UNCHANGED found
    /\ heard' = (heard \/ (pc = "expecting" /\ matches))
    /\ UNCHANGED <<running, paused, opt, entries, matcher, mutex, thread, signals, caller,
                   bounds, sinceStop, sincePause, sentRows>>

\* The GUI thread takes the oldest queued signal.
Deliver ==
    /\ caller = "idle" /\ signals # <<>>
    /\ signals' = Tail(signals)
    /\ UNCHANGED <<shared, thread, caller, bounds, history>>

-----------------------------------------------------------------------------
(* The thread: run() *)

LoopTest ==
    /\ pc = "loopTest" /\ mutex = "free"
    /\ pc' = IF running THEN "count" ELSE "teardown"
    /\ UNCHANGED <<shared, loop, list, pos, signals, caller, bounds, history>>

\* The loop count, read without the mutex, and the list the next pass iterates over.
NextLoop == IF loop < MaxLoop THEN loop + 1 ELSE loop
LoopsDone == opt.loops > 0 /\ opt.loops <= loop
BeforeFirstRow == 0

BeginLoop ==
    /\ pc = "count"
    /\ IF LoopsDone
         THEN pc' = "teardown" /\ UNCHANGED <<loop, list, pos, sentRows>>
         ELSE /\ pc' = "rowTest"
              /\ loop' = NextLoop
              /\ list' = entries /\ pos' = BeforeFirstRow /\ sentRows' = <<>>
    /\ UNCHANGED <<shared, signals, caller, bounds, sinceStop, sincePause, heard>>

\* The next row, unless the list is done or the macro is stopped.
RowTestIgnoresStop == pos < Len(list)                      \* mutant: no _check_running()
MoreRows == pos < Len(list) /\ running

RowTest ==
    /\ pc = "rowTest" /\ mutex = "free"
    /\ IF MoreRows THEN pc' = "pauseTest" /\ pos' = pos + 1
                   ELSE pc' = "interval" /\ UNCHANGED pos
    /\ UNCHANGED <<shared, loop, list, signals, caller, bounds, history>>

\* _handle_pause
MustPause == paused /\ running

HandlePause ==
    /\ pc = "pauseTest" /\ mutex = "free"
    /\ pc' = IF MustPause THEN "pausedWait" ELSE "begin"
    /\ UNCHANGED <<shared, loop, list, pos, signals, caller, bounds, history>>

\* step_started and send_requested, one signal here. The bound does not hold back a thread
\* that was stopped: the GUI thread may be waiting for it.
RowFromEntries == entries[IF pos <= Len(entries) THEN pos ELSE Len(entries)] \* mutant: live list
RowToSend == CurrentRow

WaitsForAnswer == RowToSend \in Expecting /\ ~opt.broadcast

Begin ==
    /\ pc = "begin"
    /\ Len(signals) < Backlog \/ ~running
    /\ signals' = Append(signals, <<"send", RowToSend, opt.broadcast>>)
    /\ sentRows' = Append(sentRows, RowToSend)
    /\ pc' = IF WaitsForAnswer THEN "expectTest" ELSE "delay"
    /\ sinceStop' = IF running THEN sinceStop ELSE sinceStop + 1
    /\ sincePause' = IF paused THEN sincePause + 1 ELSE sincePause
    /\ UNCHANGED <<shared, loop, list, pos, caller, bounds, heard>>

\* _wait_for_expect up to its wait. A pattern that cannot be compiled raises before the
\* try block: the mutex stays locked.
WaitForExpect ==
    /\ pc = "expectTest" /\ mutex = "free"
    /\ IF CurrentRow \in Uncompilable
         THEN mutex' = "lost" /\ pc' = "raised" /\ UNCHANGED <<matcher, found>>
         ELSE /\ matcher' = running /\ found' = FALSE
              /\ pc' = IF running THEN "expecting" ELSE "failed"
              /\ UNCHANGED mutex
    /\ heard' = FALSE
    /\ UNCHANGED <<running, paused, opt, entries, loop, list, pos, signals, caller, bounds,
                   sinceStop, sincePause, sentRows>>

\* The wait ends: pattern found, time out or stop.
WokenIsFound == found \/ ~running                          \* mutant: woken taken for found
Success == found

ExpectReturns ==
    /\ pc = "expecting" /\ mutex = "free"
    /\ pc' = IF Success THEN "delay" ELSE "failed"
    /\ matcher' = FALSE /\ found' = FALSE
    /\ UNCHANGED <<running, paused, opt, entries, mutex, loop, list, pos, signals, caller,
                   bounds, history>>

EmitError ==
    /\ pc \in {"failed", "raised"}
    /\ signals' = Append(signals, <<"error", CurrentRow, FALSE>>)
    /\ pc' = IF pc = "failed" THEN "policy" ELSE "raisedStop"
    /\ UNCHANGED <<shared, loop, list, pos, caller, bounds, history>>

\* After a failed row: stop, or go on after a pause of 100 ms.
FailedRow ==
    /\ pc = "policy" \/ pc = "raisedStop"
    /\ IF opt.stopOnError \/ pc = "raisedStop"
         THEN /\ mutex = "free"
              /\ running' = FALSE /\ paused' = IF running THEN FALSE ELSE paused
              /\ pc' = "interval"
              /\ sinceStop' = IF running THEN 0 ELSE sinceStop
         ELSE pc' = "delay" /\ UNCHANGED <<running, paused, sinceStop>>
    /\ UNCHANGED <<opt, entries, matcher, found, mutex, loop, list, pos, signals, caller,
                   bounds, sincePause, heard, sentRows>>

\* _interruptible_sleep after a row and after a pass.
Sleep ==
    /\ mutex = "free"
    /\ \/ pc = "delay" /\ pc' = IF running THEN "delaying" ELSE "rowTest"
       \/ pc = "interval" /\ pc' = IF running THEN "resting" ELSE "loopTest"
    /\ UNCHANGED <<shared, loop, list, pos, signals, caller, bounds, history>>

SleepEnds ==
    /\ mutex = "free" /\ pc \in {"delaying", "resting"}
    /\ pc' = Woken
    /\ UNCHANGED <<shared, loop, list, pos, signals, caller, bounds, history>>

\* The end of run(): _stop_internal(), macro_finished, and the end of the thread.
Teardown ==
    /\ pc = "teardown" /\ mutex = "free"
    /\ running' = FALSE /\ paused' = IF running THEN FALSE ELSE paused
    /\ pc' = "finishing"
    /\ sinceStop' = IF running THEN 0 ELSE sinceStop
    /\ UNCHANGED <<opt, entries, matcher, found, mutex, loop, list, pos, signals, caller,
                   bounds, sincePause, heard, sentRows>>

EmitFinished ==
    /\ pc = "finishing"
    /\ signals' = Append(signals, <<"finished", 0, FALSE>>)
    /\ pc' = "ending"
    /\ UNCHANGED <<shared, loop, list, pos, caller, bounds, history>>

ThreadEnds ==
    /\ pc = "ending"
    /\ pc' = "off"
    /\ UNCHANGED <<shared, loop, list, pos, signals, caller, bounds, history>>

Run == \/ LoopTest \/ BeginLoop \/ RowTest \/ HandlePause \/ Begin
       \/ WaitForExpect \/ ExpectReturns \/ EmitError \/ FailedRow
       \/ Sleep \/ SleepEnds \/ Teardown \/ EmitFinished \/ ThreadEnds

Gui == \/ \E plan \in Plan : LoadMacro(plan)
       \/ \E o \in Option : StartFlags(o)
       \/ Launch \/ StopCalled \/ StopInternal \/ StopReturn \/ Pause \/ Resume
       \/ \E matches \in BOOLEAN : DataReceived(matches)
       \/ Deliver

Next == Run \/ Gui

Spec == Init /\ [][Next]_vars

\* The scheduler runs the thread; the GUI thread goes through a call it has begun and
\* takes the signals queued for it.
FairSpec == /\ Spec
            /\ WF_vars(Run)
            /\ WF_vars(\E o \in Option : StartFlags(o)) /\ WF_vars(Launch)
            /\ WF_vars(StopInternal) /\ WF_vars(StopReturn)
            /\ WF_vars(Deliver)

-----------------------------------------------------------------------------
(* Properties *)

Points == {"off", "loopTest", "count", "rowTest", "pauseTest", "pausedWait", "begin",
           "expectTest", "expecting", "failed", "raised", "policy", "raisedStop", "delay",
           "delaying", "interval", "resting", "teardown", "finishing", "ending"}

Kinds == {"send", "error", "finished"}

\* Type invariant.
TypeOK ==
    /\ running \in BOOLEAN /\ paused \in BOOLEAN
    /\ opt \in Options
    /\ entries \in Seq(Row) /\ list \in Seq(Row)
    /\ matcher \in BOOLEAN /\ found \in BOOLEAN /\ mutex \in {"free", "lost"}
    /\ pc \in Points /\ loop \in 0 .. MaxLoop /\ pos \in 0 .. Len(list)
    /\ signals \in Seq(Kinds \X (Row \cup {0}) \X BOOLEAN)
    /\ caller \in {"idle", "starting", "launching", "stopping", "waiting"}
    /\ starts \in 0 .. MaxStarts /\ pauses \in 0 .. MaxPauses
    /\ sinceStop \in Nat /\ sincePause \in Nat
    /\ heard \in BOOLEAN /\ sentRows \in Seq(Row)

\* Once the macro is stopped - by stop(), by a failed row or at its end - the thread asks
\* for at most one more command, the one it was about to send (run, _check_running).
StoppedSendsAtMostOne == sinceStop <= 1

\* A paused macro asks for at most one more command before it waits (_handle_pause).
PausedSendsAtMostOne == sincePause <= 1

\* Neither a stop nor a pause lets more than one command through.
SendsAtMostOne == StoppedSendsAtMostOne /\ PausedSendsAtMostOne

\* In every pass the thread asks for exactly the rows of the list it began with, in order
\* and once each, whatever load_macro puts in _entries meanwhile (run, the row loop).
RowsInOrder ==
    sentRows = SubSeq(list, 1, IF pc \in {"pauseTest", "pausedWait", "begin"} THEN pos - 1 ELSE pos)

\* A row that expects an answer succeeds only if the pattern was found in data that came
\* during its own wait (_wait_for_expect, _on_data_received).
ExpectAnswered == [][pc = "expecting" /\ pc' = "delay" => heard]_vars

\* stop() returns, however the thread was waiting when it was called, as long as _mutex has
\* not been lost.
StopReturns == caller = "stopping" ~> (caller = "idle" \/ mutex = "lost")

\* A macro with a loop count ends, unless it is paused, started anew or its mutex lost.
FiniteMacroEnds ==
    (pc = "loopTest" /\ opt.loops > 0)
        ~> (pc \in {"off", "pausedWait"} \/ opt.loops = 0 \/ mutex = "lost")

\* A run comes to its end by itself or by stop(), and nobody waits for it in vain.
RunEnds == StopReturns /\ FiniteMacroEnds

=============================================================================
