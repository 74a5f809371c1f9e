------------------------- MODULE FileTransferProofs -------------------------
(***************************************************************************)
(* Proofs about FileTransfer, for any number of transfers, ports, chunks   *)
(* and any threshold.                                                      *)
(***************************************************************************)
EXTENDS FileTransfer, SequenceTheorems, FiniteSetTheorems, TLAPS

LEMMA SignalsGrow ==
    ASSUME NEW t \in Transfer, NEW s \in Seq(Transfer \X {"error", "failed", "succeeded"})
    PROVE  /\ s \o Success(t) \in Seq(Transfer \X {"error", "failed", "succeeded"})
           /\ s \o Failure(t) \in Seq(Transfer \X {"error", "failed", "succeeded"})
           /\ s \o Failure(t) # <<>> /\ s \o Success(t) # <<>>
  BY DEF Success, Failure

\* No transfer reads beyond the end of its file.
SendInFile == \A t \in Transfer : pc[t] = "send" => handed[t] < Size

IInv == TypeOK /\ SendInFile

LEMMA InitTyped == Init => IInv
  BY SizeAssumption, BoundAssumption, NoneAssumption
  DEF Init, IInv, TypeOK, SendInFile, Points

LEMMA TypeStep == IInv /\ [Next]_vars => IInv'
<1> USE DEF Points, transfers, ports, gui, history
<1> SUFFICES ASSUME IInv, [Next]_vars PROVE IInv'
  OBVIOUS
<1> USE DEF IInv, TypeOK, SendInFile
<1>1. CASE UNCHANGED vars
  BY <1>1 DEF vars
<1>2. CASE PickFile \/ CloseWindow \/ Escape
  BY <1>2 DEF PickFile, CloseWindow, Escape, CancelsOnClose
<1>3. CASE TakeSignal
  <2>1. signals' \in Seq(Transfer \X {"error", "failed", "succeeded"})
    BY <1>3, HeadTailProperties DEF TakeSignal
  <2> QED BY <1>3, <2>1 DEF TakeSignal, Complete
<1>4. ASSUME NEW p \in Port, OpenDialog(p) PROVE IInv'
  BY <1>4, NoneAssumption DEF OpenDialog
<1>5. ASSUME NEW p \in Port,
             OpenPort(p) \/ PortOpened(p) \/ PortLost(p) \/ PortEnds(p) \/ ClosedServed(p)
      PROVE  IInv'
  <2>1. status' \in [Port -> {"closed", "opening", "open", "ending", "gone", "dead"}]
    BY <1>5 DEF OpenPort, PortOpened, PortLost, PortEnds, ClosedServed, Become
  <2>2. queue' \in [Port -> Nat]
    <3>1. queue \in [Port -> Nat]
      OBVIOUS
    <3>2. queue' = queue \/ queue' = [queue EXCEPT ![p] = 0]
      BY <1>5, Zenon DEF OpenPort, PortOpened, PortLost, PortEnds, ClosedServed
    <3> QED
      BY ONLY <3>1, <3>2
  <2>5. opens' \in 0 .. MaxOpens
    BY <1>5, BoundAssumption DEF OpenPort, PortOpened, PortLost, PortEnds, ClosedServed
  <2>3. steady' \in [Transfer -> BOOLEAN]
    BY <1>5 DEF OpenPort, PortOpened, PortLost, PortEnds, ClosedServed, Unsteady
  <2>4. UNCHANGED <<transfers, registry, signals, gui, dropped, sinceCancel>>
    BY <1>5 DEF OpenPort, PortOpened, PortLost, PortEnds, ClosedServed
  <2> QED
    BY <2>1, <2>2, <2>3, <2>4, <2>5
<1>6. ASSUME NEW p \in Port, ClosePort(p) PROVE IInv'
  BY <1>6 DEF ClosePort, Become, Unsteady
<1>7. ASSUME NEW p \in Port, Drain(p) PROVE IInv'
  BY <1>7 DEF Drain
<1>8. ASSUME NEW t \in Transfer, StartTransfer(t) PROVE IInv'
  BY <1>8, NoneAssumption DEF StartTransfer
<1>9. ASSUME NEW t \in Transfer, Register(t) \/ Unregister(t) PROVE IInv'
  <2>1. pc' \in [Transfer -> Points]
    BY <1>9 DEF Register, Unregister, Goto
  <2>6. registry' \in [Port -> Transfer \cup {None}]
    BY <1>9 DEF Register, Unregister, Removed
  <2>2. dropped' \in [Transfer -> BOOLEAN] /\ steady' \in [Transfer -> BOOLEAN]
    BY <1>9 DEF Register, Unregister
  <2>3. sinceCancel' \in [Transfer -> Nat]
    <3>1. sinceCancel \in [Transfer -> Nat]
      OBVIOUS
    <3>2. sinceCancel' = sinceCancel \/ sinceCancel' = [sinceCancel EXCEPT ![t] = 0]
      BY <1>9, Zenon DEF Register, Unregister
    <3> QED
      BY ONLY <3>1, <3>2
  <2>4. \A u \in Transfer : /\ pc'[u] = "unused" <=> pc[u] = "unused"
                            /\ pc'[u] = "send" => pc[u] = "send"
    BY <1>9 DEF Register, Unregister, Goto
  <2>5. UNCHANGED <<target, handed, cancelled, ports, signals, gui>>
    BY <1>9 DEF Register, Unregister
  <2> QED
    BY <2>1, <2>2, <2>3, <2>4, <2>5, <2>6
<1>10. ASSUME NEW t \in Transfer, Read(t) PROVE IInv'
  BY <1>10, SizeAssumption DEF Read, Goto, Eof
<1>11. ASSUME NEW t \in Transfer, Send(t) PROVE IInv'
  <2>1. pc' \in [Transfer -> Points] /\ handed' \in [Transfer -> 0 .. Size]
    BY <1>11, SizeAssumption DEF Send, Goto
  <2>2. queue' \in [Port -> Nat]
    BY <1>11 DEF Send
  <2>3. dropped' \in [Transfer -> BOOLEAN] /\ sinceCancel' \in [Transfer -> Nat]
    BY <1>11 DEF Send
  <2>4. \A u \in Transfer : /\ pc'[u] = "unused" <=> pc[u] = "unused"
                            /\ pc'[u] = "send" => pc[u] = "send" /\ u # t
                            /\ u # t => handed'[u] = handed[u]
    BY <1>11 DEF Send, Goto
  <2>5. UNCHANGED <<target, cancelled, registry, status, opens, signals, gui, steady>>
    BY <1>11 DEF Send
  <2> QED
    BY <2>1, <2>2, <2>3, <2>4, <2>5
<1>12. ASSUME NEW t \in Transfer, SendFails(t) PROVE IInv'
  BY <1>12 DEF SendFails, Goto
<1>13. ASSUME NEW t \in Transfer, End(t) \/ Fail(t) PROVE IInv'
  <2>1. signals' \in Seq(Transfer \X {"error", "failed", "succeeded"})
    BY <1>13, SignalsGrow DEF End, Fail
  <2> QED BY <1>13, <2>1 DEF End, Fail, Goto
<1> QED
  BY <1>1, <1>2, <1>3, <1>4, <1>5, <1>6, <1>7, <1>8, <1>9, <1>10, <1>11, <1>12, <1>13
  DEF Next, Run

\* The state of the service, its registry, the connections and the dialog keeps its type,
\* and no transfer hands over more than its file.
THEOREM TypeCorrect == Spec => []TypeOK
<1>1. IInv => TypeOK
  BY DEF IInv
<1> QED
  BY <1>1, InitTyped, TypeStep, PTL DEF Spec

-----------------------------------------------------------------------------
(* Cancelling *)

\* A transfer that handed over a chunk after its cancellation is on its way out.
CancelInv ==
    \A t \in Transfer : /\ sinceCancel[t] <= 1
                        /\ sinceCancel[t] = 1 => cancelled[t]
                        /\ pc[t] \in {"unused", "pooled", "send"} => sinceCancel[t] = 0

LEMMA CancelStep == IInv /\ CancelInv /\ [Next]_vars => CancelInv'
<1> USE DEF CancelInv, transfers, ports, gui, history
<1> SUFFICES ASSUME IInv, CancelInv, [Next]_vars PROVE CancelInv'
  OBVIOUS
<1> USE DEF IInv, TypeOK
<1>1. CASE UNCHANGED vars
  BY <1>1 DEF vars
<1>2. CASE PickFile \/ CloseWindow \/ Escape \/ TakeSignal
  BY <1>2 DEF PickFile, CloseWindow, Escape, TakeSignal
<1>3. ASSUME NEW p \in Port,
             \/ OpenDialog(p) \/ OpenPort(p) \/ PortOpened(p) \/ PortLost(p) \/ PortEnds(p)
             \/ ClosedServed(p) \/ Drain(p)
      PROVE  CancelInv'
  <2>1. UNCHANGED <<pc, cancelled, sinceCancel>>
    BY <1>3 DEF OpenDialog, OpenPort, PortOpened, PortLost, PortEnds, ClosedServed, Drain
  <2> QED BY <2>1
<1>4. ASSUME NEW p \in Port, ClosePort(p) PROVE CancelInv'
  BY <1>4 DEF ClosePort
<1>5. ASSUME NEW t \in Transfer, StartTransfer(t) PROVE CancelInv'
  BY <1>5 DEF StartTransfer
<1>6. ASSUME NEW t \in Transfer, Register(t) \/ SendFails(t) \/ End(t) \/ Fail(t) PROVE CancelInv'
  <2>1. UNCHANGED <<cancelled, sinceCancel>>
    BY <1>6 DEF Register, SendFails, End, Fail
  <2>2. \A u \in Transfer : pc'[u] \in {"unused", "pooled", "send"} =>
                            pc[u] \in {"unused", "pooled", "send"}
    BY <1>6 DEF Register, SendFails, End, Fail, Goto
  <2> QED BY <2>1, <2>2
<1>7. ASSUME NEW t \in Transfer, Read(t) PROVE CancelInv'
  BY <1>7 DEF Read, Goto, MustStop
<1>8. ASSUME NEW t \in Transfer, Send(t) PROVE CancelInv'
  BY <1>8 DEF Send, Goto
<1>9. ASSUME NEW t \in Transfer, Unregister(t) PROVE CancelInv'
  BY <1>9 DEF Unregister, Goto
<1> QED
  BY <1>1, <1>2, <1>3, <1>4, <1>5, <1>6, <1>7, <1>8, <1>9 DEF Next, Run

\* A cancelled transfer hands over at most one more chunk, for any files, thresholds and
\* connections.
THEOREM CancelIsNearlyFinal == Spec => []CancelledSendsAtMostOne
<1>1. Init => CancelInv
  BY DEF Init, CancelInv
<1>2. CancelInv => CancelledSendsAtMostOne
  BY DEF CancelInv, CancelledSendsAtMostOne
<1> QED
  BY <1>1, <1>2, InitTyped, TypeStep, CancelStep, PTL DEF Spec

-----------------------------------------------------------------------------
(* Success *)

\* A transfer ends at the end of its file unless it is cancelled; while its connection has
\* been open all the time, it is open and has dropped nothing.
WholeInv ==
    \A t \in Transfer : /\ pc[t] = "end" => cancelled[t] \/ handed[t] = Size
                        /\ pc[t] = "unused" => ~dropped[t]
                        /\ steady[t] => /\ target[t] \in Port /\ status[target[t]] = "open"
                                        /\ ~dropped[t]

LEMMA WholeStep == IInv /\ WholeInv /\ [Next]_vars => WholeInv'
<1> USE DEF WholeInv, transfers, ports, gui, history
<1> SUFFICES ASSUME IInv, WholeInv, [Next]_vars PROVE WholeInv'
  OBVIOUS
<1> USE DEF IInv, TypeOK
<1>1. CASE UNCHANGED vars
  BY <1>1 DEF vars
<1>2. CASE PickFile \/ CloseWindow \/ Escape \/ TakeSignal
  <2>1. UNCHANGED <<pc, target, handed, status, history>>
    BY <1>2 DEF PickFile, CloseWindow, Escape, TakeSignal
  <2>2. \A t \in Transfer : cancelled[t] => cancelled'[t]
    BY <1>2 DEF PickFile, CloseWindow, Escape, TakeSignal
  <2> QED BY <2>1, <2>2
<1>3. ASSUME NEW p \in Port, OpenDialog(p) \/ Drain(p) PROVE WholeInv'
  BY <1>3 DEF OpenDialog, Drain
<1>4. ASSUME NEW p \in Port, OpenPort(p) \/ PortOpened(p) \/ PortEnds(p) \/ ClosedServed(p)
      PROVE  WholeInv'
  <2>1. UNCHANGED <<transfers, history>>
    BY <1>4 DEF OpenPort, PortOpened, PortEnds, ClosedServed
  <2>2. \A q \in Port : status[q] = "open" => status'[q] = "open"
    BY <1>4 DEF OpenPort, PortOpened, PortEnds, ClosedServed, Become
  <2> QED BY <2>1, <2>2
<1>5. ASSUME NEW p \in Port, PortLost(p) \/ ClosePort(p) PROVE WholeInv'
  <2>1. /\ UNCHANGED <<pc, target, handed, dropped>>
        /\ steady' = Unsteady(p)
    BY <1>5 DEF PortLost, ClosePort
  <2>2. \A t \in Transfer : cancelled[t] => cancelled'[t]
    BY <1>5 DEF PortLost, ClosePort
  <2>3. \A q \in Port : q # p => status'[q] = status[q]
    BY <1>5 DEF PortLost, ClosePort, Become
  <2> QED BY <2>1, <2>2, <2>3 DEF Unsteady
<1>6. ASSUME NEW t \in Transfer, StartTransfer(t) PROVE WholeInv'
  BY <1>6 DEF StartTransfer
<1>7. ASSUME NEW t \in Transfer, Register(t) \/ SendFails(t) \/ End(t) \/ Fail(t) PROVE WholeInv'
  <2>1. UNCHANGED <<target, handed, cancelled, status, history>>
    BY <1>7 DEF Register, SendFails, End, Fail
  <2>2. \A u \in Transfer : /\ pc'[u] = "end" => pc[u] = "end"
                            /\ pc'[u] = "unused" => pc[u] = "unused"
    BY <1>7 DEF Register, SendFails, End, Fail, Goto
  <2> QED BY <2>1, <2>2
<1>8. ASSUME NEW t \in Transfer, Read(t) PROVE WholeInv'
  BY <1>8 DEF Read, Goto, MustStop, Eof
<1>9. ASSUME NEW t \in Transfer, Send(t) PROVE WholeInv'
  BY <1>9 DEF Send, Goto
<1>10. ASSUME NEW t \in Transfer, Unregister(t) PROVE WholeInv'
  BY <1>10 DEF Unregister, Goto
<1> QED
  BY <1>1, <1>2, <1>3, <1>4, <1>5, <1>6, <1>7, <1>8, <1>9, <1>10 DEF Next, Run

LEMMA OneSignal ==
    ASSUME NEW t \in Transfer, NEW s \in Seq(Transfer \X {"error", "failed", "succeeded"})
    PROVE  /\ Len(s \o Success(t)) = Len(s) + 1
           /\ Len(s \o Failure(t)) = Len(s) + 2
           /\ (s \o Success(t))[Len(s) + 1] = <<t, "succeeded">>
  BY DEF Success, Failure

\* No step but the end of an uncancelled transfer signals its success.
LEMMA SuccessStep == IInv /\ WholeInv /\ [Next]_vars =>
    (\A t \in Transfer : signals' = signals \o Success(t) =>
        handed[t] = Size /\ (steady[t] => ~dropped[t])) \/ UNCHANGED vars
<1> SUFFICES ASSUME IInv, WholeInv, Next,
                    NEW t \in Transfer, signals' = signals \o Success(t)
             PROVE  handed[t] = Size /\ (steady[t] => ~dropped[t])
  OBVIOUS
<1> USE DEF transfers, ports, gui, history
<1>1. signals \in Seq(Transfer \X {"error", "failed", "succeeded"})
  BY DEF IInv, TypeOK
<1>2. Len(signals') = Len(signals) + 1 /\ signals'[Len(signals) + 1] = <<t, "succeeded">>
  BY <1>1, OneSignal
<1>3. signals' # signals
  BY <1>1, <1>2
<1>4. ~TakeSignal
  BY <1>1, <1>2, HeadTailProperties DEF TakeSignal
<1>5. ASSUME NEW u \in Transfer, Fail(u) PROVE FALSE
  BY <1>1, <1>2, <1>5, OneSignal DEF Fail
<1>6. PICK u \in Transfer : End(u)
  <2>1. ASSUME NEW p \in Port,
               \/ OpenDialog(p) \/ OpenPort(p) \/ PortOpened(p) \/ PortLost(p) \/ PortEnds(p)
               \/ ClosedServed(p) \/ ClosePort(p) \/ Drain(p)
        PROVE  FALSE
    BY <1>3, <2>1 DEF OpenDialog, OpenPort, PortOpened, PortLost, PortEnds, ClosedServed,
                      ClosePort, Drain
  <2>2. ~PickFile /\ ~CloseWindow /\ ~Escape
    BY <1>3 DEF PickFile, CloseWindow, Escape
  <2>3. ASSUME NEW u \in Transfer,
               StartTransfer(u) \/ Register(u) \/ Read(u) \/ Send(u) \/ SendFails(u) \/ Unregister(u)
        PROVE  FALSE
    BY <1>3, <2>3 DEF StartTransfer, Register, Read, Send, SendFails, Unregister
  <2> QED BY <1>4, <1>5, <2>1, <2>2, <2>3 DEF Next, Run
<1>7. Succeeds(u)
  BY <1>1, <1>2, <1>6, OneSignal DEF End
<1>8. u = t
  <2>1. signals' = signals \o Success(u)
    BY <1>6, <1>7 DEF End
  <2> QED BY <1>1, <1>2, <2>1, OneSignal
<1> QED
  BY <1>6, <1>7, <1>8 DEF End, Succeeds, WholeInv

\* A transfer signals success only when it has read its whole file, and nothing of it was
\* dropped if its connection was open all the time.
THEOREM SuccessOfWholeFile == Spec => SuccessIsWhole
<1>1. Init => WholeInv
  BY DEF Init, WholeInv
<1>2. IInv /\ WholeInv /\ [Next]_vars =>
        [\A t \in Transfer : signals' = signals \o Success(t) =>
            handed[t] = Size /\ (steady[t] => ~dropped[t])]_vars
  BY SuccessStep
<1> QED
  BY <1>1, <1>2, InitTyped, TypeStep, WholeStep, PTL DEF Spec, SuccessIsWhole

-----------------------------------------------------------------------------
(* The registry *)

LEMMA RegistryStep == IInv /\ RegistryTracksActive /\ [Next]_vars => RegistryTracksActive'
<1> USE DEF RegistryTracksActive, Active, ActivePoints, transfers, ports, gui, history
<1> SUFFICES ASSUME IInv, RegistryTracksActive, [Next]_vars PROVE RegistryTracksActive'
  OBVIOUS
<1> USE DEF IInv, TypeOK
<1>1. CASE UNCHANGED <<pc, target, registry>>
  BY <1>1
<1>2. ASSUME NEW t \in Transfer, StartTransfer(t) PROVE RegistryTracksActive'
  <2>1. registry' = registry /\ target[t] = None /\ t # None
    BY <1>2, NoneAssumption DEF StartTransfer
  <2>2. \A u \in Transfer : Active(u)' = Active(u) /\ (u # t => target'[u] = target[u])
    BY <1>2 DEF StartTransfer
  <2>3. ~Active(t)
    BY <1>2 DEF StartTransfer
  <2>4. \A u \in Transfer : Active(u) => target[u] \in Port
    OBVIOUS
  <2>5. \A u \in Transfer : Active(u)' => Active(u) /\ u # t /\ target'[u] = target[u]
    BY <2>2, <2>3
  <2> HIDE DEF ActivePoints
  <2>6. ASSUME NEW p \in Port, registry'[p] # None
        PROVE  pc'[registry'[p]] \in ActivePoints /\ target'[registry'[p]] = p
    <3> DEFINE u == registry[p]
    <3>1. u \in Transfer /\ Active(u) /\ target[u] = p /\ u # t
      BY <2>1, <2>3, <2>6
    <3> QED BY <2>1, <2>2, <3>1
  <2>7. ASSUME NEW u \in Transfer, Active(u)', registry'[target'[u]] # u
        PROVE  \E v \in Transfer \ {u} : target'[v] = target'[u]
    <3>1. PICK v \in Transfer \ {u} : target[v] = target[u]
      BY <2>1, <2>5, <2>7
    <3>2. v # t
      BY <2>1, <2>4, <2>5, <2>7, <3>1, NoneAssumption
    <3> QED BY <2>2, <2>5, <2>7, <3>1, <3>2
  <2> QED BY <2>6, <2>7
<1>3. ASSUME NEW t \in Transfer, Register(t) PROVE RegistryTracksActive'
  <2>1. target' = target /\ target[t] \in Port /\ t # None
    BY <1>3, NoneAssumption DEF Register
  <2>2. registry' = [registry EXCEPT ![target[t]] = t]
    BY <1>3 DEF Register
  <2>3. Active(t)' /\ ~Active(t) /\ \A u \in Transfer : u # t => Active(u)' = Active(u)
    BY <1>3 DEF Register, Goto
  <2>4. \A p \in Port : registry'[p] = IF p = target[t] THEN t ELSE registry[p]
    BY <2>1, <2>2
  <2>5. \A u \in Transfer : Active(u) => target[u] \in Port
    OBVIOUS
  <2> HIDE DEF ActivePoints
  <2>6. ASSUME NEW p \in Port, registry'[p] # None
        PROVE  pc'[registry'[p]] \in ActivePoints /\ target'[registry'[p]] = p
    <3>1. CASE p = target[t]
      BY <2>1, <2>3, <2>4, <3>1
    <3>2. CASE p # target[t]
      <4>1. registry'[p] = registry[p] /\ registry[p] \in Transfer
        BY <2>4, <2>6, <3>2
      <4>2. Active(registry[p]) /\ target[registry[p]] = p
        BY <2>6, <4>1
      <4> QED BY <2>1, <2>3, <4>1, <4>2
    <3> QED BY <3>1, <3>2
  <2>7. ASSUME NEW u \in Transfer, Active(u)', registry'[target'[u]] # u
        PROVE  \E v \in Transfer \ {u} : target'[v] = target'[u]
    <3>1. CASE u = t
      BY <2>1, <2>4, <2>7, <3>1
    <3>2. CASE u # t /\ target[u] = target[t]
      BY <2>1, <3>2
    <3>3. CASE u # t /\ target[u] # target[t]
      BY <2>1, <2>3, <2>4, <2>5, <2>7, <3>3
    <3> QED BY <3>1, <3>2, <3>3
  <2> QED BY <2>6, <2>7
<1>4. ASSUME NEW t \in Transfer, Unregister(t) PROVE RegistryTracksActive'
  BY <1>4, NoneAssumption DEF Unregister, Goto, Removed
<1>5. ASSUME NEW t \in Transfer, Read(t) \/ Send(t) \/ SendFails(t) \/ End(t) \/ Fail(t)
      PROVE  RegistryTracksActive'
  <2>1. UNCHANGED <<target, registry>>
    BY <1>5 DEF Read, Send, SendFails, End, Fail
  <2>2. \A u \in Transfer : Active(u)' = Active(u)
    BY <1>5 DEF Read, Send, SendFails, End, Fail, Goto
  <2> QED BY <2>1, <2>2, SMTT(30)
<1> QED
  <2>1. CASE \/ UNCHANGED vars \/ PickFile \/ CloseWindow \/ Escape \/ TakeSignal
    BY <1>1, <2>1 DEF vars, PickFile, CloseWindow, Escape, TakeSignal
  <2>2. ASSUME NEW p \in Port,
               \/ OpenDialog(p) \/ OpenPort(p) \/ PortOpened(p) \/ PortLost(p) \/ PortEnds(p)
               \/ ClosedServed(p) \/ ClosePort(p) \/ Drain(p)
        PROVE  RegistryTracksActive'
    BY <1>1, <2>2 DEF OpenDialog, OpenPort, PortOpened, PortLost, PortEnds, ClosedServed,
                      ClosePort, Drain
  <2> QED
    BY <1>2, <1>3, <1>4, <1>5, <2>1, <2>2 DEF Next, Run

\* The registry names active transfers only, and an active transfer is missing from it only
\* if there is another one to the same port: for any number of transfers and ports.
THEOREM RegistryIsTracked == Spec => []RegistryTracksActive
<1>1. Init => RegistryTracksActive
  BY DEF Init, RegistryTracksActive, Active, ActivePoints
<1> QED
  BY <1>1, InitTyped, TypeStep, RegistryStep, PTL DEF Spec

-----------------------------------------------------------------------------
(* The dialog *)

LEMMA BusyStep == IInv /\ BusyHasTransfer /\ [Next]_vars => BusyHasTransfer'
<1> USE DEF BusyHasTransfer, transfers, ports, gui, history
<1> SUFFICES ASSUME IInv, BusyHasTransfer, [Next]_vars PROVE BusyHasTransfer'
  OBVIOUS
<1> USE DEF IInv, TypeOK
<1>1. CASE UNCHANGED <<pc, signals, dialog>>
  BY <1>1
<1>2. CASE PickFile \/ CloseWindow \/ Escape
  BY <1>2 DEF PickFile, CloseWindow, Escape
<1>3. CASE TakeSignal
  BY <1>3 DEF TakeSignal, Complete
<1>4. ASSUME NEW p \in Port, OpenDialog(p) PROVE BusyHasTransfer'
  BY <1>4 DEF OpenDialog
<1>5. ASSUME NEW t \in Transfer, StartTransfer(t) PROVE BusyHasTransfer'
  BY <1>5 DEF StartTransfer
<1>6. ASSUME NEW t \in Transfer, Register(t) \/ Read(t) \/ Send(t) \/ SendFails(t) \/ Unregister(t)
      PROVE  BusyHasTransfer'
  <2>1. UNCHANGED <<signals, dialog>>
    BY <1>6 DEF Register, Read, Send, SendFails, Unregister
  <2>2. \A u \in Transfer : pc[u] \notin {"unused", "unregister", "done"} =>
                            pc'[u] \notin {"unused", "unregister", "done"}
    BY <1>6 DEF Register, Read, Send, SendFails, Unregister, Goto
  <2> QED BY <2>1, <2>2
<1>7. ASSUME NEW t \in Transfer, End(t) \/ Fail(t) PROVE BusyHasTransfer'
  BY <1>7, SignalsGrow DEF End, Fail
<1> QED
  <2>1. CASE UNCHANGED vars
    BY <1>1, <2>1 DEF vars
  <2>2. ASSUME NEW p \in Port,
               \/ OpenPort(p) \/ PortOpened(p) \/ PortLost(p) \/ PortEnds(p)
               \/ ClosedServed(p) \/ ClosePort(p) \/ Drain(p)
        PROVE  BusyHasTransfer'
    BY <1>1, <2>2 DEF OpenPort, PortOpened, PortLost, PortEnds, ClosedServed, ClosePort, Drain
  <2> QED
    BY <1>2, <1>3, <1>4, <1>5, <1>6, <1>7, <2>1, <2>2 DEF Next, Run

\* A dialog whose buttons are disabled waits for a transfer that runs or for a signal that
\* is queued.
THEOREM BusyDialogHasTransfer == Spec => []BusyHasTransfer
<1>1. Init => BusyHasTransfer
  BY DEF Init, BusyHasTransfer
<1> QED
  BY <1>1, InitTyped, TypeStep, BusyStep, PTL DEF Spec

-----------------------------------------------------------------------------
(* Backpressure *)

Aimed(p) == {t \in Transfer : target[t] = p}
Sending(p) == {t \in Transfer : target[t] = p /\ pc[t] = "send"}

\* A transfer about to send is counted as a queued chunk: it found the queue not full.
BackpressureInv ==
    \A p \in Port : /\ queue[p] <= Threshold + Cardinality(Aimed(p))
                    /\ QueueSize(p) + Cardinality(Sending(p)) <= Threshold + Cardinality(Aimed(p))

LEMMA Counts ==
    ASSUME NEW p
    PROVE  /\ IsFiniteSet(Aimed(p)) /\ IsFiniteSet(Sending(p))
           /\ Cardinality(Aimed(p)) \in Nat /\ Cardinality(Sending(p)) \in Nat
           /\ Cardinality(Sending(p)) <= Cardinality(Aimed(p))
<1>1. IsFiniteSet(Transfer)
  BY FS_Interval, BoundAssumption DEF Transfer
<1>2. IsFiniteSet(Aimed(p))
  BY <1>1, FS_Subset DEF Aimed
<1>3. Sending(p) \subseteq Aimed(p)
  BY DEF Sending, Aimed
<1> QED
  BY <1>2, <1>3, FS_Subset, FS_CardinalityType

\* The counts of the next state, in terms of sets of this one.
LEMMA CountsNext ==
    ASSUME NEW p
    PROVE  /\ IsFiniteSet(Aimed(p)') /\ IsFiniteSet(Sending(p)')
           /\ Cardinality(Aimed(p)') \in Nat /\ Cardinality(Sending(p)') \in Nat
           /\ Cardinality(Sending(p)') <= Cardinality(Aimed(p)')
<1>1. IsFiniteSet(Transfer)
  BY FS_Interval, BoundAssumption DEF Transfer
<1>2. IsFiniteSet(Aimed(p)')
  BY <1>1, FS_Subset DEF Aimed
<1>3. Sending(p)' \subseteq Aimed(p)'
  BY DEF Sending, Aimed
<1> QED
  BY <1>2, <1>3, FS_Subset, FS_CardinalityType

\* Neither more senders nor more chunks, nor fewer transfers.
LEMMA BackpressureKept ==
    ASSUME TypeOK, TypeOK', BackpressureInv, NEW p \in Port,
           Aimed(p) \subseteq Aimed(p)', Sending(p)' \subseteq Sending(p),
           queue'[p] <= queue[p], QueueSize(p)' <= QueueSize(p)
    PROVE  /\ queue'[p] <= Threshold + Cardinality(Aimed(p)')
           /\ QueueSize(p)' + Cardinality(Sending(p)') <= Threshold + Cardinality(Aimed(p)')
<1>1. Cardinality(Aimed(p)) <= Cardinality(Aimed(p)')
  BY CountsNext, FS_Subset
<1>2. Cardinality(Sending(p)') <= Cardinality(Sending(p))
  BY Counts, FS_Subset
<1>3. queue[p] \in Nat /\ queue'[p] \in Nat /\ QueueSize(p) \in Nat /\ QueueSize(p)' \in Nat
  BY DEF TypeOK, QueueSize
<1>4. /\ queue[p] <= Threshold + Cardinality(Aimed(p))
      /\ QueueSize(p) + Cardinality(Sending(p)) <= Threshold + Cardinality(Aimed(p))
  BY DEF BackpressureInv
<1>5. /\ Cardinality(Aimed(p)) \in Nat /\ Cardinality(Sending(p)) \in Nat
      /\ Cardinality(Aimed(p)') \in Nat /\ Cardinality(Sending(p)') \in Nat
  BY Counts, CountsNext
<1>6. \A q, s, a, q2, q3, q4, s2, a2 \in Nat :
         q <= Threshold + a /\ q2 + s <= Threshold + a /\ a <= a2 /\ s2 <= s /\ q3 <= q /\ q4 <= q2
            => q3 <= Threshold + a2 /\ q4 + s2 <= Threshold + a2
  BY SizeAssumption
<1> QED
  BY <1>1, <1>2, <1>3, <1>4, <1>5, <1>6

LEMMA BackpressureStep == IInv /\ IInv' /\ BackpressureInv /\ [Next]_vars => BackpressureInv'
<1> SUFFICES ASSUME IInv, IInv', BackpressureInv, [Next]_vars, NEW p \in Port
             PROVE  /\ queue'[p] <= Threshold + Cardinality(Aimed(p)')
                    /\ QueueSize(p)' + Cardinality(Sending(p)') <= Threshold + Cardinality(Aimed(p)')
  BY DEF BackpressureInv
<1> DEFINE Goal == /\ queue'[p] <= Threshold + Cardinality(Aimed(p)')
                   /\ QueueSize(p)' + Cardinality(Sending(p)') <= Threshold + Cardinality(Aimed(p)')
<1> USE DEF transfers, ports, gui, history
<1>0. TypeOK /\ TypeOK'
  BY DEF IInv
<1>1. CASE UNCHANGED <<pc, target, ports>>
  <2>1. Aimed(p)' = Aimed(p) /\ Sending(p)' = Sending(p) /\ QueueSize(p)' = QueueSize(p)
    BY <1>1 DEF Aimed, Sending, QueueSize
  <2>2. queue'[p] = queue[p] /\ queue[p] \in Nat /\ QueueSize(p) \in Nat
    BY <1>0, <1>1 DEF TypeOK, QueueSize
  <2> QED BY <1>0, <2>1, <2>2, BackpressureKept
<1>2. ASSUME NEW q \in Port,
             \/ OpenPort(q) \/ PortOpened(q) \/ PortLost(q) \/ PortEnds(q)
             \/ ClosedServed(q) \/ ClosePort(q) \/ Drain(q)
      PROVE  Goal
  <2>1. UNCHANGED <<pc, target>>
    BY <1>2 DEF OpenPort, PortOpened, PortLost, PortEnds, ClosedServed, ClosePort, Drain
  <2>2. Aimed(p)' = Aimed(p) /\ Sending(p)' = Sending(p)
    BY <2>1 DEF Aimed, Sending
  <2>3. \/ queue' = queue
        \/ queue' = [queue EXCEPT ![q] = 0]
        \/ queue[q] > 0 /\ queue' = [queue EXCEPT ![q] = queue[q] - 1]
    BY <1>2 DEF OpenPort, PortOpened, PortLost, PortEnds, ClosedServed, ClosePort
        , Drain
  <2>4. queue[p] \in Nat /\ queue'[p] \in Nat /\ queue'[p] <= queue[p]
    <3>1. queue \in [Port -> Nat] /\ queue' \in [Port -> Nat]
      BY <1>0 DEF TypeOK
    <3> QED BY ONLY <3>1, <2>3, p \in Port, q \in Port
  <2>5. status[p] = "closed" => status'[p] = "closed" \/ queue'[p] = 0
    BY <1>0, <1>2 DEF OpenPort, PortOpened, PortLost, PortEnds, ClosedServed, ClosePort, Drain,
                      Become, TypeOK
  <2>6. QueueSize(p)' <= QueueSize(p)
    BY <2>4, <2>5 DEF QueueSize
  <2> QED BY <1>0, <2>2, <2>4, <2>6, BackpressureKept
<1>3. ASSUME NEW t \in Transfer, StartTransfer(t) PROVE Goal
  <2>1. UNCHANGED ports /\ target[t] = None /\ \A u \in Transfer : u # t => target'[u] = target[u]
    BY <1>0, <1>3 DEF StartTransfer, TypeOK
  <2>2. Aimed(p) \subseteq Aimed(p)'
    BY <2>1, NoneAssumption DEF Aimed
  <2>3. Sending(p)' \subseteq Sending(p)
    BY <1>0, <1>3 DEF StartTransfer, Sending, TypeOK
  <2>4. queue'[p] = queue[p] /\ queue[p] \in Nat /\ QueueSize(p)' = QueueSize(p)
        /\ QueueSize(p) \in Nat
    BY <1>0, <2>1 DEF TypeOK, QueueSize
  <2> QED BY <1>0, <2>2, <2>3, <2>4, BackpressureKept
<1>4. ASSUME NEW t \in Transfer,
             Register(t) \/ SendFails(t) \/ End(t) \/ Fail(t) \/ Unregister(t)
      PROVE  Goal
  <2>1. UNCHANGED <<target, ports>>
    BY <1>4 DEF Register, SendFails, End, Fail, Unregister
  <2>2. \A u \in Transfer : pc'[u] = "send" => pc[u] = "send"
    BY <1>0, <1>4 DEF Register, SendFails, End, Fail, Unregister, Goto, TypeOK
  <2>3. Aimed(p)' = Aimed(p) /\ Sending(p)' \subseteq Sending(p)
    BY <2>1, <2>2 DEF Aimed, Sending
  <2>4. queue'[p] = queue[p] /\ queue[p] \in Nat /\ QueueSize(p)' = QueueSize(p)
        /\ QueueSize(p) \in Nat
    BY <1>0, <2>1 DEF TypeOK, QueueSize
  <2> QED BY <1>0, <2>3, <2>4, BackpressureKept
<1>5. ASSUME NEW t \in Transfer, Read(t) PROVE Goal
  <2>1. UNCHANGED <<target, ports>> /\ Aimed(p)' = Aimed(p)
    BY <1>5 DEF Read, Aimed
  <2>2. queue'[p] = queue[p] /\ queue[p] \in Nat /\ QueueSize(p)' = QueueSize(p)
        /\ QueueSize(p) \in Nat
    BY <1>0, <2>1 DEF TypeOK, QueueSize
  <2>3. CASE target[t] = p /\ pc'[t] = "send"
    <3>1. QueueSize(p) <= Threshold
      BY <1>0, <1>5, <2>2, <2>3, SizeAssumption DEF Read, Goto, Full, TypeOK
    <3>2. queue[p] <= Threshold + Cardinality(Aimed(p))
      BY DEF BackpressureInv
    <3> QED BY <2>1, <2>2, <3>1, <3>2, Counts, CountsNext, SizeAssumption
  <2>4. CASE target[t] # p \/ pc'[t] # "send"
    <3>1. Sending(p)' \subseteq Sending(p)
      BY <1>0, <1>5, <2>1, <2>4 DEF Read, Goto, Sending, TypeOK
    <3> QED BY <1>0, <2>1, <2>2, <3>1, BackpressureKept
  <2> QED BY <2>3, <2>4
<1>6. ASSUME NEW t \in Transfer, Send(t) PROVE Goal
  <2>1. Aimed(p)' = Aimed(p) /\ UNCHANGED <<target, status>>
    BY <1>6 DEF Send, Aimed
  <2>2. CASE target[t] = p
    <3>1. t \in Sending(p) /\ Sending(p)' = Sending(p) \ {t}
      BY <1>0, <1>6, <2>1, <2>2 DEF Send, Goto, Sending, TypeOK
    <3>2. Cardinality(Sending(p)') = Cardinality(Sending(p)) - 1
      BY <3>1, Counts, FS_RemoveElement
    <3>3. QueueSize(p) = queue[p] /\ QueueSize(p)' = queue'[p]
      BY <1>6, <2>1, <2>2 DEF Send, ThreadRuns, QueueSize
    <3>4. queue[p] \in Nat /\ queue'[p] \in Nat /\ queue'[p] <= queue[p] + 1
      BY <1>0, <1>6, <2>2 DEF Send, TypeOK
    <3>5. QueueSize(p) + Cardinality(Sending(p)) <= Threshold + Cardinality(Aimed(p))
      BY DEF BackpressureInv
    <3>6. Cardinality(Sending(p)) \in Nat /\ Cardinality(Sending(p)') \in Nat
          /\ Cardinality(Aimed(p)) \in Nat
      BY Counts, CountsNext
    <3> QED BY <2>1, <3>2, <3>3, <3>4, <3>5, <3>6, SizeAssumption
  <2>3. CASE target[t] # p
    <3>1. Sending(p)' \subseteq Sending(p)
      BY <1>0, <1>6, <2>1, <2>3 DEF Send, Goto, Sending, TypeOK
    <3>2. queue'[p] = queue[p] /\ queue[p] \in Nat
      BY <1>0, <1>6, <2>3 DEF Send, TypeOK
    <3>3. QueueSize(p)' = QueueSize(p) /\ QueueSize(p) \in Nat
      BY <2>1, <3>2 DEF QueueSize
    <3> QED BY <1>0, <2>1, <3>1, <3>2, <3>3, BackpressureKept
  <2> QED BY <2>2, <2>3
<1> QED
  <2>1. CASE UNCHANGED vars \/ PickFile \/ CloseWindow \/ Escape \/ TakeSignal
    BY <1>1, <2>1 DEF vars, PickFile, CloseWindow, Escape, TakeSignal
  <2>2. ASSUME NEW q \in Port, OpenDialog(q) PROVE Goal
    BY <1>1, <2>2 DEF OpenDialog
  <2> QED
    BY <1>2, <1>3, <1>4, <1>5, <1>6, <2>1, <2>2 DEF Next, Run

\* The queue of a port never holds more than the threshold and one chunk for each transfer
\* to it, for any number of transfers and any threshold.
THEOREM BackpressureBounds == Spec => []QueueBounded
<1>1. Init => BackpressureInv
  <2> SUFFICES ASSUME Init, NEW p \in Port
               PROVE  /\ queue[p] <= Threshold + Cardinality(Aimed(p))
                      /\ QueueSize(p) + Cardinality(Sending(p)) <= Threshold + Cardinality(Aimed(p))
    BY DEF BackpressureInv
  <2>1. queue[p] = 0 /\ QueueSize(p) = 0
    BY DEF Init, QueueSize
  <2> QED BY <2>1, Counts, SizeAssumption
<1>2. BackpressureInv => QueueBounded
  BY DEF BackpressureInv, QueueBounded, Aimed
<1> QED
  BY <1>1, <1>2, InitTyped, TypeStep, BackpressureStep, PTL DEF Spec

\* For any number of ports and transfers, registry and dialog agree with the threads.
THEOREM BeliefsAreTrue == Spec => []BeliefsHold
  BY RegistryIsTracked, BusyDialogHasTransfer, PTL DEF BeliefsHold

=============================================================================
