------------------------- MODULE ConnectionWorker -------------------------
(***************************************************************************)
(* One ConnectionWorker (model/connection_worker.py): the thread that owns *)
(* a transport, its read / batch / write loop, and the threads that call   *)
(* send_data and stop on it. Payloads are numbered in the order in which   *)
(* the write queue accepted them; received bytes are counted.              *)
(***************************************************************************)
EXTENDS Integers, Sequences

CONSTANTS
    Senders,         \* threads that call send_data
    Owner,           \* the sender that also calls start and stop (the GUI thread)
    ReadChunk,       \* DEFAULT_READ_CHUNK_SIZE
    BatchThreshold,  \* BATCH_SIZE_THRESHOLD
    BatchTimeout,    \* BATCH_TIMEOUT_MS
    MaxBytes,        \* bound: bytes the device delivers
    MaxSends         \* bound: payloads the write queue accepts

ASSUME OwnerAssumption == Owner \in Senders
ASSUME SizeAssumption ==
    /\ ReadChunk \in Nat \ {0} /\ BatchThreshold \in Nat \ {0} /\ BatchTimeout \in Nat \ {0}
    /\ MaxBytes \in Nat /\ MaxSends \in Nat

VARIABLES
    pc,             \* where the thread is in run()
    isRunning,      \* _is_running
    transportOpen,  \* transport.is_open()
    writeQueue,     \* _write_queue
    hand,           \* the payload dequeued and not yet written, <<>> or <<n>>
    wire,           \* payloads handed to the driver, in order
    inWaiting,      \* bytes waiting in the device
    arrived,        \* bytes the device ever delivered
    batch,          \* len(batch_buffer)
    elapsed,        \* time since last_emit_time, saturating at BatchTimeout
    delivered,      \* bytes emitted with data_received
    signals,        \* lifecycle signals emitted, oldest first
    sender,         \* per thread: "idle", "checked" (is_open seen TRUE), "waiting" (in stop)
    accepted        \* number of payloads send_data answered TRUE for

loopVars == <<inWaiting, arrived, batch, elapsed, delivered>>
txVars   == <<writeQueue, hand, wire, accepted>>
vars == <<pc, isRunning, transportOpen, loopVars, txVars, signals, sender>>

\* QThread.isRunning(): started and run() has not returned.
ThreadRunning == pc \notin {"created", "finished"}

Init == /\ pc = "created"
        /\ isRunning = FALSE /\ transportOpen = FALSE
        /\ writeQueue = <<>> /\ hand = <<>> /\ wire = <<>> /\ accepted = 0
        /\ inWaiting = 0 /\ arrived = 0 /\ batch = 0 /\ elapsed = 0 /\ delivered = 0
        /\ signals = <<>>
        /\ sender = [s \in Senders |-> "idle"]

-----------------------------------------------------------------------------
(* The worker thread *)

\* worker.start(), called by open_connection in the GUI thread.
Start == /\ pc = "created" /\ sender[Owner] = "idle"
         /\ pc' = "opening"
         /\ UNCHANGED <<isRunning, transportOpen, loopVars, txVars, signals, sender>>

\* transport.open() returned TRUE.
OpenOk == /\ pc = "opening"
          /\ pc' = "opened"
          /\ transportOpen' = TRUE
          /\ UNCHANGED <<isRunning, loopVars, txVars, signals, sender>>

\* transport.open() returned FALSE or raised: reported, then the finally block.
OpenFails == /\ pc = "opening"
             /\ pc' = "closing"
             /\ signals' = Append(signals, "error")
             /\ UNCHANGED <<isRunning, transportOpen, loopVars, txVars, sender>>

\* Sets _is_running, whatever it was, and emits connection_opened.
EnterLoop == /\ pc = "opened"
             /\ pc' = "loop"
             /\ isRunning' = TRUE
             /\ signals' = Append(signals, "opened")
             /\ UNCHANGED <<transportOpen, loopVars, txVars, sender>>

\* The condition of the outer while loop.
LoopTestIgnoresStop ==                                     \* mutant: while True
    /\ pc = "loop"
    /\ pc' = "reading"
    /\ UNCHANGED <<isRunning, transportOpen, loopVars, txVars, signals, sender>>
LoopTest == /\ pc = "loop"
            /\ pc' = IF isRunning THEN "reading" ELSE "closing"
            /\ UNCHANGED <<isRunning, transportOpen, loopVars, txVars, signals, sender>>

\* Read at most ReadChunk bytes; a swallowed SerialException reads nothing.
Read == /\ pc = "reading"
        /\ pc' = "batching"
        /\ \E n \in {0, IF inWaiting < ReadChunk THEN inWaiting ELSE ReadChunk} :
              inWaiting' = inWaiting - n /\ batch' = batch + n
        /\ UNCHANGED <<isRunning, transportOpen, arrived, elapsed, delivered, txVars, signals, sender>>

BatchDue == batch > 0 /\ (batch >= BatchThreshold \/ elapsed >= BatchTimeout)

\* Emit the batch when it is due.
BatchSkipsDrain ==                                         \* mutant: continue when nothing is due
    /\ pc = "batching"
    /\ pc' = IF BatchDue THEN "draining" ELSE "loop"
    /\ IF BatchDue
       THEN delivered' = delivered + batch /\ batch' = 0 /\ elapsed' = 0
       ELSE UNCHANGED <<delivered, batch, elapsed>>
    /\ UNCHANGED <<isRunning, transportOpen, inWaiting, arrived, txVars, signals, sender>>
Batch == /\ pc = "batching"
         /\ pc' = "draining"
         /\ IF BatchDue
            THEN delivered' = delivered + batch /\ batch' = 0 /\ elapsed' = 0
            ELSE UNCHANGED <<delivered, batch, elapsed>>
         /\ UNCHANGED <<isRunning, transportOpen, inWaiting, arrived, txVars, signals, sender>>

\* The inner while loop: dequeue the oldest payload, or leave the loop when empty.
DequeueNewest ==                                           \* mutant: pop() for popleft()
    /\ pc = "draining" /\ writeQueue # <<>>
    /\ pc' = "writing"
    /\ hand' = <<writeQueue[Len(writeQueue)]>>
    /\ writeQueue' = SubSeq(writeQueue, 1, Len(writeQueue) - 1)
    /\ UNCHANGED <<isRunning, transportOpen, loopVars, wire, accepted, signals, sender>>
Dequeue == /\ pc = "draining" /\ writeQueue # <<>>
           /\ pc' = "writing"
           /\ hand' = <<Head(writeQueue)>>
           /\ writeQueue' = Tail(writeQueue)
           /\ UNCHANGED <<isRunning, transportOpen, loopVars, wire, accepted, signals, sender>>

DrainDone == /\ pc = "draining" /\ writeQueue = <<>>
             /\ pc' = "loop"
             /\ UNCHANGED <<isRunning, transportOpen, loopVars, txVars, signals, sender>>

\* transport.write with write_timeout=0. How much of the payload the driver takes is
\* left out: the count it returns is not looked at.
Write == /\ pc = "writing"
         /\ pc' = "draining"
         /\ wire' = wire \o hand
         /\ hand' = <<>>
         /\ UNCHANGED <<isRunning, transportOpen, loopVars, writeQueue, accepted, signals, sender>>

\* transport.write raised: "IO Error" is reported and the loop left.
AfterIoErrorLoops == "loop"                                \* mutant: no break
AfterIoError == "closing"
WriteFails == /\ pc = "writing"
              /\ pc' = AfterIoError
              /\ signals' = Append(signals, "error")
              /\ UNCHANGED <<isRunning, transportOpen, loopVars, txVars, sender>>

\* close_connection(): nothing to do for a transport that never opened.
CloseNothing == /\ pc = "closing" /\ ~transportOpen
                /\ pc' = "ending"
                /\ UNCHANGED <<isRunning, transportOpen, loopVars, txVars, signals, sender>>

CloseOk == /\ pc = "closing" /\ transportOpen
           /\ pc' = "ending"
           /\ transportOpen' = FALSE
           /\ signals' = Append(signals, "closed")
           /\ UNCHANGED <<isRunning, loopVars, txVars, sender>>

\* transport.close() raised: an error is reported, connection_closed is not.
CloseRaises == /\ pc = "closing" /\ transportOpen
               /\ pc' = "ending"
               /\ signals' = Append(signals, "error")
               /\ UNCHANGED <<isRunning, transportOpen, loopVars, txVars, sender>>

\* run() returns some time after its last signal.
Finish == /\ pc = "ending"
          /\ pc' = "finished"
          /\ UNCHANGED <<isRunning, transportOpen, loopVars, txVars, signals, sender>>

Worker == \/ OpenOk \/ OpenFails \/ EnterLoop \/ LoopTest \/ Read \/ Batch
          \/ Dequeue \/ DrainDone \/ Write \/ WriteFails
          \/ CloseNothing \/ CloseOk \/ CloseRaises \/ Finish

-----------------------------------------------------------------------------
(* The other threads, the device, and time *)

\* send_data, first half: a closed transport answers FALSE.
CheckOpen(s) == /\ sender[s] = "idle" /\ transportOpen
                /\ sender' = [sender EXCEPT ![s] = "checked"]
                /\ UNCHANGED <<pc, isRunning, transportOpen, loopVars, txVars, signals>>

\* send_data, second half: the unbounded queue takes the payload.
Enqueue(s) == /\ sender[s] = "checked" /\ accepted < MaxSends
              /\ accepted' = accepted + 1
              /\ writeQueue' = Append(writeQueue, accepted + 1)
              /\ sender' = [sender EXCEPT ![s] = "idle"]
              /\ UNCHANGED <<pc, isRunning, transportOpen, loopVars, hand, wire, signals>>

\* stop(): clears the flag, then waits for the thread.
Stop == /\ sender[Owner] = "idle" /\ ThreadRunning
        /\ isRunning' = FALSE
        /\ sender' = [sender EXCEPT ![Owner] = "waiting"]
        /\ UNCHANGED <<pc, transportOpen, loopVars, txVars, signals>>

WaitReturns == /\ sender[Owner] = "waiting" /\ ~ThreadRunning
               /\ sender' = [sender EXCEPT ![Owner] = "idle"]
               /\ UNCHANGED <<pc, isRunning, transportOpen, loopVars, txVars, signals>>

\* The device delivers a byte.
Arrive == /\ arrived < MaxBytes /\ transportOpen
          /\ arrived' = arrived + 1 /\ inWaiting' = inWaiting + 1
          /\ UNCHANGED <<pc, isRunning, transportOpen, batch, elapsed, delivered, txVars, signals, sender>>

Tick == /\ elapsed < BatchTimeout /\ transportOpen
        /\ elapsed' = elapsed + 1
        /\ UNCHANGED <<pc, isRunning, transportOpen, inWaiting, arrived, batch, delivered, txVars, signals, sender>>

Next == \/ Start \/ Worker
        \/ \E s \in Senders : CheckOpen(s) \/ Enqueue(s)
        \/ Stop \/ WaitReturns \/ Arrive \/ Tick

Spec == Init /\ [][Next]_vars

\* The scheduler runs the thread, open, write and close return, time passes,
\* and QThread.wait returns once the thread has ended. Nothing makes a caller
\* send or stop, or a device deliver.
Fairness == WF_vars(Start) /\ WF_vars(Worker) /\ WF_vars(WaitReturns) /\ WF_vars(Tick)

FairSpec == Spec /\ Fairness

-----------------------------------------------------------------------------
(* Properties *)

Pcs == {"created", "opening", "opened", "loop", "reading", "batching", "draining",
        "writing", "closing", "ending", "finished"}

TypeOK ==
    /\ pc \in Pcs
    /\ isRunning \in BOOLEAN /\ transportOpen \in BOOLEAN
    /\ writeQueue \in Seq(1..MaxSends) /\ wire \in Seq(1..MaxSends)
    /\ hand \in Seq(1..MaxSends)
    /\ inWaiting \in 0..MaxBytes /\ arrived \in 0..MaxBytes
    /\ batch \in 0..MaxBytes /\ delivered \in 0..MaxBytes
    /\ elapsed \in 0..BatchTimeout
    /\ accepted \in 0..MaxSends
    /\ signals \in Seq({"opened", "closed", "error"})
    /\ sender \in [Senders -> {"idle", "checked", "waiting"}]

\* What reached the driver, what is in the thread's hands and what is queued is
\* together every accepted payload, in the order of acceptance: concurrent
\* senders and an I/O error neither reorder nor duplicate a payload, nor skip one.
TxInOrder == wire \o hand \o writeQueue = [n \in 1..accepted |-> n]

\* A data_received signal never carries more than a threshold's worth and one
\* read, and a byte is in one place only.
BatchBounded == /\ batch < BatchThreshold + ReadChunk
                /\ pc \in {"loop", "reading", "draining", "writing"} => batch < BatchThreshold
                /\ arrived = inWaiting + batch + delivered

\* Both ways through the thread keep what they are given: payloads to the driver in order,
\* bytes from the device within the bounds of a batch (dequeue, run).
TrafficKept == TxInOrder /\ BatchBounded

\* A received byte does not sit in the batch of a running loop for ever, however
\* few follow it and however busy the senders are.
BatchFlushed == (batch > 0) ~> (batch = 0 \/ pc = "finished")

\* An accepted payload reaches the driver unless the loop is left first.
AcceptedIsWritten ==
    \A n \in 1..MaxSends :
        (accepted >= n /\ pc # "finished") ~> (Len(wire) >= n \/ pc = "finished")

\* A stop that finds the loop entered brings the thread to its end and stop back.
StopInLoopReturns ==
    (sender[Owner] = "waiting" /\ ~isRunning /\ pc \notin {"opening", "opened"})
        ~> (sender[Owner] # "waiting")

\* No side of the loop starves another: what came is handed on, what was accepted is written,
\* and a stop comes back, however reads, drains and senders interleave (run, stop).
WorkerProgresses == BatchFlushed /\ AcceptedIsWritten /\ StopInLoopReturns

Lifecycle == INSTANCE WorkerLifecycle WITH
    phase <- CASE pc = "created" -> "created"
               [] pc \in {"opening", "opened"} -> "starting"
               [] pc \in {"ending", "finished"} \/ (pc = "closing" /\ ~transportOpen) -> "ended"
               [] OTHER -> "open"

\* The thread keeps the lifecycle the controller relies on.
ImplementsLifecycle == Lifecycle!Spec

=============================================================================
