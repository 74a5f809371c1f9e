----------------------- MODULE ConnectionWorkerProofs -----------------------
(***************************************************************************)
(* What a ConnectionWorker keeps for every number of senders, payloads and *)
(* bytes and every batch size: its types and batch bound, the order of     *)
(* transmission, and the lifecycle its controller relies on.               *)
(***************************************************************************)
EXTENDS ConnectionWorker, SequenceTheorems, TLAPS

\* The batch is empty until the loop is entered, and the hand is filled only
\* between a dequeue and the end of its write.
Started == pc \in {"created", "opening", "opened"} => batch = 0
HandHeld == /\ pc = "writing" => Len(hand) = 1
            /\ pc \notin {"writing", "closing", "ending", "finished"} => hand = <<>>

Inv == TypeOK /\ BatchBounded /\ Started /\ HandHeld

LEMMA InitInv == Init => Inv
<1> SUFFICES ASSUME Init PROVE Inv
  OBVIOUS
<1> USE SizeAssumption DEF Init
<1>1. TypeOK
  <2>1. <<>> \in Seq(1..MaxSends) /\ <<>> \in Seq({"opened", "closed", "error"})
    BY EmptySeq
  <2>2. pc \in Pcs /\ isRunning \in BOOLEAN /\ transportOpen \in BOOLEAN
    BY DEF Pcs
  <2> QED
    BY <2>1, <2>2 DEF TypeOK
<1>2. BatchBounded /\ Started
  BY DEF BatchBounded, Started
<1>3. HandHeld
  BY DEF HandHeld
<1> QED
  BY <1>1, <1>2, <1>3 DEF Inv

LEMMA NextInv == Inv /\ [Next]_vars => Inv'
<1> SUFFICES ASSUME Inv, [Next]_vars PROVE Inv'
  OBVIOUS
<1> USE SizeAssumption, OwnerAssumption
    DEF Inv, TypeOK, BatchBounded, Started, HandHeld, Pcs, ThreadRunning, loopVars, txVars
<1>1. CASE Start                    BY <1>1 DEF Start
<1>2. CASE OpenOk                   BY <1>2 DEF OpenOk
<1>3. CASE OpenFails                BY <1>3 DEF OpenFails
<1>4. CASE EnterLoop                BY <1>4 DEF EnterLoop
<1>5. CASE LoopTest                 BY <1>5 DEF LoopTest
<1>6. CASE Read                     BY <1>6 DEF Read
<1>7. CASE Batch                    BY <1>7, SMTT(30) DEF Batch, BatchDue
<1>8. CASE Dequeue                  BY <1>8 DEF Dequeue
<1>9. CASE DrainDone                BY <1>9 DEF DrainDone
<1>10. CASE Write
  <2>1. wire \o hand \in Seq(1..MaxSends)
    BY ConcatProperties
  <2> HIDE DEF TypeOK, BatchBounded, Started, Pcs
  <2>2. Len(hand) = 1
    BY <1>10 DEF Write
  <2>3. hand[1] \in 1..MaxSends
    <3>1. hand \in Seq(1..MaxSends)
      BY DEF TypeOK
    <3>2. 1 \in 1..Len(hand)
      BY <2>2
    <3> HIDE DEF Inv, HandHeld
    <3> QED
      BY ONLY <3>1, <3>2, ElementOfSeq
  <2>4. hand' \in Seq(1..MaxSends)
    BY <1>10, EmptySeq DEF Write, TypeOK
  <2> USE DEF TypeOK, BatchBounded, Started, Pcs
  <2> QED
    BY <1>10, <2>1, <2>4 DEF Write
<1>11. CASE WriteFails              BY <1>11 DEF WriteFails, AfterIoError
<1>12. CASE CloseNothing            BY <1>12 DEF CloseNothing
<1>13. CASE CloseOk                 BY <1>13, AppendProperties DEF CloseOk
<1>14. CASE CloseRaises             BY <1>14 DEF CloseRaises
<1>22. CASE Finish                  BY <1>22 DEF Finish
<1>15. CASE \E s \in Senders : CheckOpen(s)  BY <1>15 DEF CheckOpen
<1>16. CASE \E s \in Senders : Enqueue(s)    BY <1>16 DEF Enqueue
<1>17. CASE Stop                    BY <1>17 DEF Stop
<1>18. CASE WaitReturns             BY <1>18 DEF WaitReturns
<1>19. CASE Arrive                  BY <1>19 DEF Arrive
<1>20. CASE Tick                    BY <1>20 DEF Tick
<1>21. CASE UNCHANGED vars          BY <1>21 DEF vars
<1> QED
  BY <1>1, <1>2, <1>3, <1>4, <1>5, <1>6, <1>7, <1>8, <1>9, <1>10, <1>11, <1>12,
     <1>13, <1>14, <1>15, <1>16, <1>17, <1>18, <1>19, <1>20, <1>21, <1>22 DEF Next, Worker

\* Every reachable state is well typed, whatever the sizes.
THEOREM TypeCorrect == Spec => []TypeOK
<1>1. Inv => TypeOK
  BY DEF Inv
<1> QED
  BY <1>1, InitInv, NextInv, PTL DEF Spec

\* No data_received signal outgrows a threshold plus one read, and no byte is
\* counted twice or dropped while the thread moves it from device to signal.
THEOREM BatchIsBounded == Spec => []BatchBounded
<1>1. Inv => BatchBounded
  BY DEF Inv
<1> QED
  BY <1>1, InitInv, NextInv, PTL DEF Spec

-----------------------------------------------------------------------------
(* Order of transmission *)

Accepted(k) == [n \in 1..k |-> n]

\* Moving the head of a queue to the end of what precedes it changes nothing.
LEMMA HeadMoves ==
  ASSUME NEW S, NEW w \in Seq(S), NEW q \in Seq(S), q # <<>>
  PROVE  w \o <<Head(q)>> \o Tail(q) = w \o q
<1>1. <<Head(q)>> \in Seq(S) /\ Tail(q) \in Seq(S)
  BY HeadTailProperties
<1>2. q = <<Head(q)>> \o Tail(q)
  <2>1. /\ <<Head(q)>> \o Tail(q) \in Seq(S)
        /\ Len(<<Head(q)>> \o Tail(q)) = Len(q)
        /\ \A i \in 1..Len(q) : (<<Head(q)>> \o Tail(q))[i] = q[i]
    BY <1>1, ConcatProperties, HeadTailProperties, LenProperties
  <2> QED
    BY <2>1, SeqEqual
<1> QED
  BY <1>1, <1>2, ConcatAssociative

\* Appending the next number to the queue extends the whole by it.
LEMMA NextNumber ==
  ASSUME NEW p \in Seq(Nat), NEW q \in Seq(Nat), NEW k \in Nat, p \o q = Accepted(k)
  PROVE  p \o Append(q, k + 1) = Accepted(k + 1)
<1>1. /\ Append(q, k + 1) = q \o <<k + 1>>
      /\ <<k + 1>> \in Seq(Nat)
  BY AppendIsConcat, SMTT(30)
<1>2. p \o Append(q, k + 1) = Accepted(k) \o <<k + 1>>
  BY <1>1, ConcatAssociative, SMTT(30)
<1>3. Accepted(k) \in Seq(Nat) /\ Len(Accepted(k)) = k
  BY DEF Accepted
<1>4. Accepted(k + 1) \in Seq(Nat) /\ Len(Accepted(k + 1)) = k + 1
  BY DEF Accepted
<1>5. /\ Accepted(k) \o <<k + 1>> \in Seq(Nat)
      /\ Len(Accepted(k) \o <<k + 1>>) = k + 1
      /\ \A i \in 1..(k + 1) : (Accepted(k) \o <<k + 1>>)[i] = Accepted(k + 1)[i]
  BY <1>1, <1>3, ConcatProperties DEF Accepted
<1> QED
  BY <1>2, <1>4, <1>5, SeqEqual

\* Payloads reach the driver in the order in which send_data accepted them, each
\* once and with none skipped, whatever the senders and the errors.
THEOREM TransmissionInOrder == Spec => []TxInOrder
<1> DEFINE Order == TxInOrder
<1>1. Init => Order
  BY EmptySeq, ConcatEmptySeq DEF Init, TxInOrder
<1>2. Inv /\ Order /\ [Next]_vars => Order'
  <2> SUFFICES ASSUME Inv, TxInOrder, [Next]_vars PROVE TxInOrder'
    OBVIOUS
  <2>0. wire \in Seq(Nat) /\ hand \in Seq(Nat) /\ writeQueue \in Seq(Nat) /\ accepted \in Nat
    BY SizeAssumption DEF Inv, TypeOK
  <2>1. CASE Dequeue
    <3>1. hand = <<>> /\ writeQueue # <<>>
      BY <2>1 DEF Dequeue, Inv, HandHeld
    <3>2. wire \o hand = wire
      BY <2>0, <3>1, ConcatEmptySeq
    <3>3. wire \o <<Head(writeQueue)>> \o Tail(writeQueue) = wire \o writeQueue
      BY <2>0, <3>1, HeadMoves
    <3>4. wire' = wire /\ hand' = <<Head(writeQueue)>> /\ writeQueue' = Tail(writeQueue)
          /\ accepted' = accepted
      BY <2>1 DEF Dequeue
    <3> QED
      BY <3>2, <3>3, <3>4 DEF TxInOrder
  <2>2. CASE Write
    <3>1. wire \o hand \in Seq(Nat)
      BY <2>0, ConcatProperties
    <3>2. wire' \o hand' = wire \o hand
      BY <2>2, <3>1, ConcatEmptySeq DEF Write
    <3> QED
      BY <2>2, <3>2 DEF Write, TxInOrder
  <2>3. ASSUME NEW s \in Senders, Enqueue(s) PROVE TxInOrder'
    <3>1. wire \o hand \in Seq(Nat)
      BY <2>0, ConcatProperties
    <3>2. wire \o hand \o writeQueue = Accepted(accepted)
      BY DEF TxInOrder, Accepted
    <3>3. wire \o hand \o Append(writeQueue, accepted + 1) = Accepted(accepted + 1)
      BY <2>0, <3>1, <3>2, NextNumber
    <3> QED
      BY <2>3, <3>3 DEF Enqueue, TxInOrder, Accepted
  <2>4. CASE UNCHANGED txVars
    BY <2>4 DEF TxInOrder, txVars
  <2> QED
    BY <2>1, <2>2, <2>3, <2>4
       DEF Next, Worker, vars, Start, OpenOk, OpenFails, EnterLoop, LoopTest, Read, Batch,
           DrainDone, WriteFails, CloseNothing, CloseOk, CloseRaises, Finish, CheckOpen, Stop,
           WaitReturns, Arrive, Tick
<1> QED
  BY <1>1, <1>2, InitInv, NextInv, PTL DEF Spec

-----------------------------------------------------------------------------
(* The lifecycle *)

\* An I/O error is reported once: the loop is left with it.
ErrorOnce ==
    /\ pc \in {"loop", "reading", "batching", "draining", "writing"} =>
          signals # <<>> /\ signals[Len(signals)] = "opened"
    /\ pc \in {"created", "opening", "opened"} => signals = <<>>
    /\ pc \in {"opened", "loop", "reading", "batching", "draining", "writing"} => transportOpen
    /\ pc \in {"created", "opening"} => ~transportOpen

LEMMA NextErrorOnce == Inv /\ ErrorOnce /\ [Next]_vars => ErrorOnce'
<1> SUFFICES ASSUME Inv, ErrorOnce, [Next]_vars PROVE ErrorOnce'
  OBVIOUS
<1>1. CASE EnterLoop
  <2>1. signals \in Seq({"opened", "closed", "error"})
    BY DEF Inv, TypeOK
  <2>2. signals' = Append(signals, "opened") /\ signals = <<>> /\ pc' = "loop"
        /\ transportOpen' = transportOpen /\ transportOpen
    BY <1>1 DEF EnterLoop, ErrorOnce
  <2>3. signals' # <<>> /\ Len(signals') = Len(signals) + 1 /\ signals'[Len(signals) + 1] = "opened"
    BY <2>1, <2>2, AppendProperties
  <2> QED
    BY <2>2, <2>3 DEF ErrorOnce
<1>2. CASE Start \/ OpenOk \/ OpenFails
  BY <1>2 DEF Start, OpenOk, OpenFails, ErrorOnce
<1>3. CASE LoopTest \/ Read \/ Batch \/ Dequeue \/ DrainDone \/ Write
  BY <1>3 DEF LoopTest, Read, Batch, Dequeue, DrainDone, Write, ErrorOnce
<1>4. CASE WriteFails \/ CloseNothing \/ CloseOk \/ CloseRaises \/ Finish
  BY <1>4 DEF WriteFails, AfterIoError, CloseNothing, CloseOk, CloseRaises, Finish, ErrorOnce
<1>5. CASE UNCHANGED <<pc, transportOpen, signals>>
  BY <1>5 DEF ErrorOnce
<1>6. (\E s \in Senders : CheckOpen(s) \/ Enqueue(s)) => UNCHANGED <<pc, transportOpen, signals>>
  BY DEF CheckOpen, Enqueue
<1> QED
  BY <1>1, <1>2, <1>3, <1>4, <1>5, <1>6
     DEF Next, Worker, vars, Stop, WaitReturns, Arrive, Tick

\* Every behaviour of the worker is one of WorkerLifecycle: the controller may
\* reason about the thread by its lifecycle alone.
THEOREM WorkerImplementsLifecycle == Spec => ImplementsLifecycle
<1>1. Init => Lifecycle!Init /\ ErrorOnce
  BY DEF Init, Lifecycle!Init, ErrorOnce
<1>2. Inv /\ ErrorOnce /\ [Next]_vars => [Lifecycle!Next]_Lifecycle!lvars
  <2> SUFFICES ASSUME Inv, ErrorOnce, [Next]_vars PROVE [Lifecycle!Next]_Lifecycle!lvars
    OBVIOUS
  <2> USE DEF Inv, TypeOK, Pcs, ErrorOnce, Lifecycle!lvars
  <2>1. CASE Start        BY <2>1 DEF Start, Lifecycle!Next, Lifecycle!Start
  <2>2. CASE OpenFails    BY <2>2 DEF OpenFails, Lifecycle!Next, Lifecycle!Fail
  <2>3. CASE EnterLoop    BY <2>3 DEF EnterLoop, Lifecycle!Next, Lifecycle!Open
  <2>4. CASE WriteFails   BY <2>4 DEF WriteFails, AfterIoError, Lifecycle!Next, Lifecycle!Break
  <2>5. CASE CloseOk      BY <2>5 DEF CloseOk, Lifecycle!Next, Lifecycle!Close
  <2>6. CASE CloseRaises  BY <2>6 DEF CloseRaises, Lifecycle!Next, Lifecycle!Close
  <2> QED
    BY <2>1, <2>2, <2>3, <2>4, <2>5, <2>6
       DEF Next, Worker, vars, OpenOk, LoopTest, Read, Batch, Dequeue, DrainDone, Write,
           CloseNothing, Finish, CheckOpen, Enqueue, Stop, WaitReturns, Arrive, Tick
<1> QED
  BY <1>1, <1>2, InitInv, NextInv, NextErrorOnce, PTL
     DEF Spec, ImplementsLifecycle, Lifecycle!Spec

\* For all sizes and any number of senders, payloads and bytes keep their order and bounds.
THEOREM TrafficIsKept == Spec => []TrafficKept
  BY TransmissionInOrder, BatchIsBounded, PTL DEF TrafficKept

=============================================================================
