------------------------- MODULE DataLoggingProofs -------------------------
(***************************************************************************)
(* Proofs about DataLogging, for any number of panels, ports and loggers,  *)
(* and any number of chunks and of writes the disk refuses.                *)
(***************************************************************************)
EXTENDS DataLogging, SequenceTheorems, TLAPS

\* Where stop_logging has got to with its logger: the flag is cleared at "join", the writer
\* has ended or join() gave up from "close" on. Between two stops no port is in that state.
Leaving(l) == gui \in {"join", "close", "forget"} /\ Victim = l

\* The manager: no two ports have one logger, a logger that takes data has a port, and one that
\* has a port takes data unless it is being stopped.
Registry ==
    /\ \A p, q \in Port : loggers[p] = loggers[q] /\ loggers[p] # None => p = q
    /\ gui \in {"stop", "join", "close", "forget"} => Victim # None
    /\ gui = "start" => Victim = None
    /\ \A l \in Logger : logging[l] => \E p \in Port : loggers[p] = l
    /\ \A p \in Port : loggers[p] # None =>
          /\ pc[loggers[p]] # "unused"
          /\ ~Leaving(loggers[p]) => /\ logging[loggers[p]] /\ file[loggers[p]] = "open"
                                     /\ pc[loggers[p]] # "done"

\* The life of one logger.
Life(l) ==
    /\ pc[l] = "unused" => /\ ~logging[l] /\ file[l] = "none" /\ ~late[l] /\ ~lost[l]
                           /\ queue[l] = <<>> /\ disk[l] = <<>> /\ accepted[l] = <<>>
    /\ pc[l] = "done" => ~logging[l]
    /\ pc[l] \in {"got", "record", "payload"} => hand[l] \in Chunk
    /\ file[l] = "open" \/ late[l] \/ pc[l] \in {"unused", "done"}
    /\ gui \in {"close", "forget"} /\ Victim = l => late[l] \/ pc[l] = "done"
    /\ logging[l] => file[l] = "open" /\ ~Leaving(l)

Lives == \A l \in Logger : Life(l)

\* What was accepted is what the disk has, then what the writer holds, then what is queued.
Holds(l) == pc[l] \in {"got", "record"}
Held(l) == IF Holds(l) THEN 1 ELSE 0

InOrder(l) ==
    /\ Len(accepted[l]) = Len(disk[l]) + Held(l) + Len(queue[l])
    /\ Holds(l) => accepted[l][Len(disk[l]) + 1] = hand[l]
    /\ \A i \in 1 .. Len(queue[l]) : accepted[l][Len(disk[l]) + Held(l) + i] = queue[l][i]

Prefix(l) == /\ Len(disk[l]) <= Len(accepted[l])
             /\ \A i \in 1 .. Len(disk[l]) : disk[l][i].chunk = accepted[l][i]

Torn(l) == \A i \in 1 .. Len(disk[l]) :
              disk[l][i].whole \/ (i = Len(disk[l]) /\ (pc[l] = "payload" \/ (pc[l] = "done" /\ late[l])))

Contents(l) == ~lost[l] =>
    /\ Prefix(l) /\ Torn(l)
    /\ file[l] = "open" /\ pc[l] # "done" => InOrder(l)
    /\ pc[l] = "payload" => Len(disk[l]) # 0
    /\ pc[l] = "done" /\ ~late[l] => Len(disk[l]) = Len(accepted[l])

IInv == TypeOK /\ Registry /\ Lives /\ \A l \in Logger : Contents(l)

-----------------------------------------------------------------------------
LEMMA InitIInv == Init => IInv
  BY BoundAssumption, NoneAssumption
  DEF Init, IInv, TypeOK, Registry, Lives, Life, Contents, Prefix, Torn, InOrder, Holds, Held,
      Leaving, Victim, Logger, Chunk

LEMMA TypeStep == TypeOK /\ Lives /\ [Next]_vars => TypeOK'
<1> SUFFICES ASSUME TypeOK, Lives, [Next]_vars PROVE TypeOK'
  OBVIOUS
<1> USE DEF panels, request, counts, writer, history
<1>1. CASE UNCHANGED vars
  BY <1>1 DEF vars, TypeOK
<1>2. ASSUME NEW a \in Panel, RequestStart(a) \/ RequestStop(a) PROVE TypeOK'
  <2>1. button' \in [Panel -> BOOLEAN]
    BY <1>2 DEF RequestStart, RequestStop, TypeOK
  <2>2. a # None /\ (gui' = "loop" <=> asked' = None) /\ asked' \in Panel \cup {None}
    BY <1>2, NoneAssumption DEF RequestStart, RequestStop, TypeOK
  <2>3. CASE RequestStart(a)
    BY <2>1, <2>2, <2>3 DEF RequestStart, TypeOK
  <2>4. CASE RequestStop(a)
    BY <2>1, <2>2, <2>4 DEF RequestStop, TypeOK
  <2> QED
    BY <1>2, <2>3, <2>4
<1>3. ASSUME NEW a \in Panel, NEW p \in Port, SelectPort(a, p) PROVE TypeOK'
  BY <1>3 DEF SelectPort, TypeOK
<1>4. CASE DialogCancelled
  BY <1>4 DEF DialogCancelled, TypeOK
<1>5. ASSUME NEW ext \in {"pcap", "other"}, DialogAccepted(ext) PROVE TypeOK'
  <2>1. format' \in {"pcap", "bin", None} /\ gui' \in {"stop", "start"} /\ asked # None
    BY <1>5 DEF DialogAccepted, FormatOf, TypeOK
  <2>2. format' # None
    BY <1>5, NoneAssumption DEF DialogAccepted, FormatOf
  <2> QED
    BY <1>5, <2>1, <2>2 DEF DialogAccepted, TypeOK
<1>6. CASE StartFails
  BY <1>6 DEF StartFails, Answered, TypeOK
<1>7. CASE Stopping
  <2>1. CASE Stop
    BY <2>1 DEF Stop, Stopped, TypeOK
  <2>2. CASE Join
    BY <2>2 DEF Join, TypeOK
  <2>3. CASE CloseFile
    BY <2>3 DEF CloseFile, TypeOK
  <2>4. CASE CloseFails
    <3>1. faults' \in 0 .. Faults
      BY <2>4, BoundAssumption DEF CloseFails, TypeOK
    <3> QED
      BY <2>4, <3>1 DEF CloseFails, TypeOK
  <2>5. CASE Forget
    <3>1. /\ gui' \in {"loop", "start"} /\ asked' \in Panel \cup {None}
          /\ (gui' = "loop" <=> asked' = None) /\ format' \in {"pcap", "bin", None}
          /\ (gui' = "start" => format' # None) /\ button' \in [Panel -> BOOLEAN]
      <4>1. CASE format # None
        BY <2>5, <4>1 DEF Forget, TypeOK
      <4>2. CASE format = None
        BY <2>5, <4>2 DEF Forget, Answered, TypeOK
      <4> QED BY <4>1, <4>2
    <3>2. loggers' \in [Port -> Logger \cup {None}] /\ file' \in [Logger -> {"none", "open", "closed"}]
      BY <2>5 DEF Forget, TypeOK
    <3> QED
      BY <2>5, <3>1, <3>2 DEF Forget, TypeOK
  <2> QED
    BY <1>7, <2>1, <2>2, <2>3, <2>4, <2>5 DEF Stopping
<1>8. ASSUME NEW p \in Port, Receive(p) PROVE TypeOK'
  <2> DEFINE l == loggers[p]
  <2>1. l \in Logger /\ arrived' \in Chunk /\ arrived' \in 0 .. Arrivals
    BY <1>8, BoundAssumption DEF Receive, TypeOK, Chunk
  <2>2. Append(queue[l], arrived') \in Seq(Chunk) /\ Append(accepted[l], arrived') \in Seq(Chunk)
    BY <2>1 DEF TypeOK
  <2>3. queue' \in [Logger -> Seq(Chunk)] /\ accepted' \in [Logger -> Seq(Chunk)]
    BY <1>8, <2>1, <2>2 DEF Receive, Put, TypeOK
  <2> QED
    BY <1>8, <2>1, <2>3 DEF Receive, TypeOK
<1>9. ASSUME NEW l \in Logger, Start(l) PROVE TypeOK'
  BY <1>9 DEF Start, Answered, TypeOK
<1>10. ASSUME NEW l \in Logger, Write(l) PROVE TypeOK'
  <2>1. CASE Record(l)
    <3>1. hand[l] \in Chunk /\ disk[l] \in Seq([chunk : Chunk, whole : BOOLEAN])
      BY <2>1 DEF Record, TypeOK, Lives, Life
    <3>2. Append(disk[l], [chunk |-> hand[l], whole |-> kind[l] # "pcap"])
             \in Seq([chunk : Chunk, whole : BOOLEAN])
      BY <3>1
    <3>3. disk' \in [Logger -> Seq([chunk : Chunk, whole : BOOLEAN])]
      BY <2>1, <3>2 DEF Record, TypeOK
    <3> QED
      BY <2>1, <3>3 DEF Record, TypeOK
  <2>2. CASE Payload(l)
    <3> DEFINE R == [chunk : Chunk, whole : BOOLEAN]
               d == [disk[l] EXCEPT ![Len(disk[l])].whole = TRUE]
    <3>1. disk[l] \in Seq(R)
      BY DEF TypeOK
    <3>3. d \in Seq(R)
      <4>1. CASE Len(disk[l]) \in 1 .. Len(disk[l])
        <5>1. disk[l][Len(disk[l])] \in R
          BY <3>1, <4>1, ElementOfSeq
        <5> DEFINE e == [disk[l][Len(disk[l])] EXCEPT !.whole = TRUE]
        <5>2. e \in R
          BY <5>1
        <5>3. d = [disk[l] EXCEPT ![Len(disk[l])] = e]
          OBVIOUS
        <5> HIDE DEF R, e
        <5>4. [disk[l] EXCEPT ![Len(disk[l])] = e] \in Seq(R)
          BY <3>1, <4>1, <5>2, ExceptSeq
        <5> QED
          BY <5>3, <5>4
      <4>2. CASE Len(disk[l]) \notin 1 .. Len(disk[l])
        <5>1. Len(disk[l]) \notin DOMAIN disk[l]
          BY <3>1, <4>2
        <5>2. d = disk[l]
          BY <3>1, <5>1
        <5> QED
          BY <3>1, <5>2
      <4> QED
        BY <4>1, <4>2
    <3>4. disk' = [disk EXCEPT ![l] = d]
      BY <2>2 DEF Payload
    <3>5. disk' \in [Logger -> Seq(R)]
      BY <3>3, <3>4 DEF TypeOK
    <3> QED
      BY <2>2, <3>5 DEF Payload, TypeOK
  <2>3. CASE WriteFails(l)
    <3>1. faults' \in 0 .. Faults
      BY <2>3, BoundAssumption DEF WriteFails, TypeOK
    <3> QED
      BY <2>3, <3>1 DEF WriteFails, TypeOK
  <2> QED
    BY <1>10, <2>1, <2>2, <2>3 DEF Write
<1>11. ASSUME NEW l \in Logger, Loop(l) PROVE TypeOK'
  <2>1. CASE LoopEnds(l) \/ Look(l) \/ WriteRaises(l)
    BY <2>1 DEF LoopEnds, Look, WriteRaises, TypeOK
  <2>2. CASE Take(l)
    <3>1. queue[l] \in Seq(Chunk) /\ queue[l] # <<>>
      BY <2>2 DEF Take, TypeOK
    <3>2. Head(queue[l]) \in Chunk /\ Tail(queue[l]) \in Seq(Chunk)
      BY <3>1, HeadTailProperties
    <3> QED
      BY <2>2, <3>2 DEF Take, TypeOK
  <2> QED
    BY <1>11, <2>1, <2>2 DEF Loop
<1> QED
  BY <1>1, <1>2, <1>3, <1>4, <1>5, <1>6, <1>7, <1>8, <1>9, <1>10, <1>11 DEF Next

-----------------------------------------------------------------------------
LEMMA RegistryStep == TypeOK /\ Registry /\ Lives /\ [Next]_vars => Registry' /\ Lives'
<1> SUFFICES ASSUME TypeOK, Registry, Lives, [Next]_vars PROVE Registry' /\ Lives'
  OBVIOUS
<1> USE NoneAssumption DEF panels, request, counts, writer, history
<1>1. CASE UNCHANGED vars
  BY <1>1 DEF vars, Registry, Lives, Life, Leaving, Victim
<1>2. ASSUME NEW a \in Panel, RequestStart(a) PROVE Registry' /\ Lives'
  BY <1>2 DEF RequestStart, Registry, Lives, Life, Leaving, Victim
<1>3. ASSUME NEW a \in Panel, NEW p \in Port, SelectPort(a, p) PROVE Registry' /\ Lives'
  BY <1>3 DEF SelectPort, Serving, Registry, Lives, Life, Leaving, Victim
<1>4. CASE DialogCancelled
  BY <1>4 DEF DialogCancelled, Registry, Lives, Life, Leaving, Victim
<1>5. ASSUME NEW ext \in {"pcap", "other"}, DialogAccepted(ext) PROVE Registry' /\ Lives'
  BY <1>5 DEF DialogAccepted, Replaced, Registry, Lives, Life, Leaving, Victim
<1>6. CASE StartFails
  BY <1>6 DEF StartFails, Answered, Registry, Lives, Life, Leaving, Victim
<1>7. ASSUME NEW a \in Panel, RequestStop(a) PROVE Registry' /\ Lives'
  BY <1>7 DEF RequestStop, Registry, Lives, Life, Leaving, Victim, TypeOK
<1>8. CASE Stop
  <2>1. Victim \in Logger /\ Victim' = Victim /\ asked \in Panel /\ shown[asked] \in Port
    BY <1>8 DEF Stop, Registry, Victim, TypeOK
  <2>2. Registry'
    BY <1>8, <2>1 DEF Stop, Stopped, Registry, Lives, Life, Leaving, Victim, TypeOK
  <2>3. ASSUME NEW l \in Logger PROVE Life(l)'
    BY <1>8, <2>1 DEF Stop, Stopped, Registry, Lives, Life, Leaving, Victim, TypeOK
  <2> QED BY <2>2, <2>3 DEF Lives
<1>9. CASE Join
  <2>1. Victim \in Logger /\ Victim' = Victim
    BY <1>9 DEF Join, Registry, Victim, TypeOK
  <2>2. Registry'
    BY <1>9, <2>1 DEF Join, Registry, Leaving, Victim
  <2>3. ASSUME NEW l \in Logger PROVE Life(l)'
    <3>1. ~logging[Victim]
      BY <1>9, <2>1 DEF Join, Lives, Life, Leaving
    <3>2. late'[l] = late[l] \/ (l = Victim /\ late'[l] = TRUE)
      BY <1>9, <2>1 DEF Join, TypeOK
    <3>3. l = Victim => late'[l] \/ pc[l] = "done"
      BY <1>9, <2>1 DEF Join, Joined, TypeOK
    <3>5. pc[Victim] # "unused"
      <4>1. shown[asked] \in Port
        BY <1>9 DEF Join, TypeOK
      <4> QED BY <4>1, <2>1 DEF Registry, Victim
    <3>6. /\ gui' = "close"
          /\ UNCHANGED <<pc, logging, file, lost, queue, disk, accepted, hand>>
      BY <1>9 DEF Join
    <3>7. Life(l)
      BY DEF Lives
    <3> HIDE DEF history, writer, request, counts, panels
    <3> QED BY <2>1, <3>1, <3>2, <3>3, <3>5, <3>6, <3>7 DEF Life, Leaving
  <2> QED BY <2>2, <2>3 DEF Lives
<1>10. CASE CloseFile \/ CloseFails
  <2>1. Victim \in Logger /\ Victim' = Victim
    BY <1>10 DEF CloseFile, CloseFails, Registry, Victim, TypeOK
  <2>2. Registry'
    BY <1>10, <2>1 DEF CloseFile, CloseFails, Registry, Leaving, TypeOK
  <2>3. ASSUME NEW l \in Logger PROVE Life(l)'
    BY <1>10, <2>1 DEF CloseFile, CloseFails, Registry, Lives, Life, Leaving, TypeOK
  <2> QED BY <2>2, <2>3 DEF Lives
<1>11. CASE Forget
  <2> DEFINE p == shown[asked]
  <2>1. Victim \in Logger /\ asked \in Panel /\ p \in Port /\ ~logging[Victim] /\ Leaving(Victim)
    BY <1>11 DEF Forget, Registry, Lives, Life, Leaving, Victim, TypeOK
  <2>2. /\ loggers' = [loggers EXCEPT ![p] = None] /\ file' = [file EXCEPT ![Victim] = "none"]
        /\ gui' \in {"start", "loop"} /\ (gui' = "start" => asked' = asked)
        /\ UNCHANGED <<shown, pc, logging, late, lost, queue, disk, accepted, hand>>
    BY <1>11, <2>1 DEF Forget, Answered, Victim
  <2>3. \A q \in Port : q # p => loggers'[q] = loggers[q] /\ loggers[q] # Victim
    BY <2>1, <2>2 DEF Registry, TypeOK, Victim
  <2>4. Registry'
    BY <2>1, <2>2, <2>3 DEF Registry, Leaving, TypeOK, Victim
  <2>5. ASSUME NEW l \in Logger PROVE Life(l)'
    BY <1>11, <2>1, <2>2 DEF Forget, Lives, Life, Leaving, TypeOK, Registry
  <2> QED BY <2>4, <2>5 DEF Lives
<1>12. ASSUME NEW p \in Port, Receive(p) PROVE Registry' /\ Lives'
  BY <1>12 DEF Receive, Put, Registry, Lives, Life, Leaving, Victim, TypeOK
<1>13. ASSUME NEW l \in Logger, Start(l) PROVE Registry' /\ Lives'
  <2> DEFINE p == shown[asked]
  <2>1. asked \in Panel /\ p \in Port /\ loggers[p] = None /\ l # None
    BY <1>13 DEF Start, Registry, Victim, TypeOK
  <2>2. \A q \in Port : loggers'[q] = (IF q = p THEN l ELSE loggers[q]) /\ loggers[q] # l
    BY <1>13, <2>1 DEF Start, Registry, TypeOK
  <2>3. gui' = "loop"
    BY <1>13 DEF Start, Answered
  <2>4. \A k \in Logger : /\ logging'[k] = (k = l \/ logging[k])
                          /\ pc'[k] = (IF k = l THEN "loop" ELSE pc[k])
                          /\ file'[k] = (IF k = l THEN "open" ELSE file[k])
    BY <1>13 DEF Start, TypeOK
  <2>5. Registry'
    <3>1. \A k \in Logger : logging'[k] => \E q \in Port : loggers'[q] = k
      <4> SUFFICES ASSUME NEW k \in Logger, logging'[k] PROVE \E q \in Port : loggers'[q] = k
        OBVIOUS
      <4>1. CASE k = l
        BY <2>1, <2>2, <4>1
      <4>2. CASE k # l
        <5>1. PICK q \in Port : loggers[q] = k
          BY <2>4, <4>2 DEF Registry
        <5>2. q # p
          BY <2>1, <5>1
        <5> QED BY <2>2, <5>1, <5>2
      <4> QED BY <4>1, <4>2
    <3>2. \A q, r \in Port : loggers'[q] = loggers'[r] /\ loggers'[q] # None => q = r
      BY <2>2 DEF Registry
    <3>3. ASSUME NEW q \in Port, loggers'[q] # None
          PROVE  /\ pc'[loggers'[q]] # "unused" /\ logging'[loggers'[q]]
                 /\ file'[loggers'[q]] = "open" /\ pc'[loggers'[q]] # "done"
      <4>1. ~Leaving(loggers[q])
        BY <1>13 DEF Start, Leaving
      <4>2. CASE q = p
        BY <4>2, <2>2, <2>4
      <4>3. CASE q # p
        <5>1. loggers'[q] = loggers[q] /\ loggers[q] # l /\ loggers[q] # None /\ loggers[q] \in Logger
          BY <3>3, <4>3, <2>2 DEF TypeOK
        <5>2. /\ pc[loggers[q]] # "unused" /\ logging[loggers[q]]
              /\ file[loggers[q]] = "open" /\ pc[loggers[q]] # "done"
          BY <4>1, <5>1 DEF Registry
        <5> QED BY <5>1, <5>2, <2>4
      <4> QED BY <4>2, <4>3
    <3> QED BY <2>3, <3>1, <3>2, <3>3 DEF Registry
  <2>6. ASSUME NEW k \in Logger PROVE Life(k)'
    <3>1. Life(k)
      BY DEF Lives
    <3>2. pc[l] = "unused" /\ UNCHANGED <<hand, late, lost, queue, disk, accepted>>
      BY <1>13 DEF Start
    <3>3. ~Leaving(k)' /\ ~(gui' \in {"close", "forget"})
      BY <2>3 DEF Leaving
    <3> HIDE DEF history, writer, request, counts, panels
    <3>4. CASE k = l
      BY <2>4, <3>1, <3>2, <3>3, <3>4 DEF Life
    <3>5. CASE k # l
      BY <2>4, <3>1, <3>2, <3>3, <3>5 DEF Life
    <3> QED BY <3>4, <3>5
  <2> QED BY <2>5, <2>6 DEF Lives
<1>14. ASSUME NEW l \in Logger, Write(l) PROVE Registry' /\ Lives'
  <2>1. /\ pc[l] \in {"record", "payload"} /\ pc'[l] \in {"loop", "payload"}
        /\ pc' = [pc EXCEPT ![l] = pc'[l]] /\ \A k \in Logger : k # l => disk'[k] = disk[k] /\ lost'[k] = lost[k]
        /\ UNCHANGED <<panels, loggers, request, hand, logging, file, queue, accepted, late>>
    BY <1>14 DEF Write, Record, Payload, WriteFails, TypeOK
  <2>2. \A k \in Logger : /\ pc'[k] = "unused" <=> pc[k] = "unused"
                          /\ pc'[k] = "done" <=> pc[k] = "done"
                          /\ pc'[k] \in {"got", "record", "payload"} => pc[k] \in {"got", "record", "payload"}
                          /\ pc[k] = "unused" => disk'[k] = disk[k] /\ lost'[k] = lost[k]
    BY <2>1 DEF TypeOK
  <2>3. Registry'
    BY <2>1, <2>2 DEF Registry, Leaving, Victim, TypeOK
  <2>4. ASSUME NEW k \in Logger PROVE Life(k)'
    BY <2>1, <2>2 DEF Lives, Life, Leaving, Victim
  <2> QED BY <2>3, <2>4 DEF Lives
<1>15. ASSUME NEW l \in Logger, Take(l) \/ Look(l) PROVE Registry' /\ Lives'
  <2>1. CASE Take(l)
    <3>1. Head(queue[l]) \in Chunk
      BY <2>1, HeadTailProperties DEF Take, TypeOK
    <3> QED BY <2>1, <3>1 DEF Take, Registry, Lives, Life, Leaving, Victim, TypeOK
  <2>2. CASE Look(l)
    BY <2>2 DEF Look, Registry, Lives, Life, Leaving, Victim, TypeOK
  <2> QED BY <1>15, <2>1, <2>2
<1>16. ASSUME NEW l \in Logger, LoopEnds(l) PROVE Registry' /\ Lives'
  <2>1. ~logging[l]
    BY <1>16 DEF LoopEnds, Drained
  <2> QED BY <1>16, <2>1 DEF LoopEnds, Registry, Lives, Life, Leaving, Victim, TypeOK
<1>17. ASSUME NEW l \in Logger, WriteRaises(l) PROVE Registry' /\ Lives'
  <2>1. ~logging[l] /\ UNCHANGED logging
    BY <1>17 DEF WriteRaises, Lives, Life, TypeOK
  <2> QED BY <1>17, <2>1 DEF WriteRaises, Registry, Lives, Life, Leaving, Victim, TypeOK
<1> QED
  BY <1>1, <1>2, <1>3, <1>4, <1>5, <1>6, <1>7, <1>8, <1>9, <1>10, <1>11, <1>12, <1>13, <1>14,
     <1>15, <1>16, <1>17 DEF Next, Stopping, Loop

-----------------------------------------------------------------------------
\* Everything Contents(l) reads.
ContentsVars(l) == <<lost[l], late[l], disk[l], accepted[l], file[l], pc[l], hand[l], queue[l]>>

LEMMA SameContents ==
    ASSUME NEW l, Contents(l), UNCHANGED ContentsVars(l) PROVE Contents(l)'
  BY DEF Contents, ContentsVars, Prefix, Torn, InOrder, Holds, Held

LEMMA ReceiveContents ==
    ASSUME IInv, NEW p \in Port, Receive(p), NEW l \in Logger PROVE Contents(l)'
<1> DEFINE n == arrived + 1
<1>1. /\ loggers[p] \in Logger /\ logging[loggers[p]] /\ n \in Chunk
      /\ UNCHANGED <<lost, late, disk, file, pc, hand>>
      /\ queue' = [queue EXCEPT ![loggers[p]] = Append(queue[loggers[p]], n)]
      /\ accepted' = [accepted EXCEPT ![loggers[p]] = Append(accepted[loggers[p]], n)]
  BY BoundAssumption DEF Receive, Put, writer, history, IInv, TypeOK, Chunk
<1>2. CASE l # loggers[p]
  BY <1>1, <1>2, SameContents DEF ContentsVars, IInv, TypeOK
<1>3. CASE l = loggers[p]
  <2> DEFINE q == queue[l]  a == accepted[l]
  <2>1. /\ queue'[l] = Append(q, n) /\ accepted'[l] = Append(a, n)
        /\ q \in Seq(Chunk) /\ a \in Seq(Chunk) /\ Len(disk[l]) \in Nat
    BY <1>1, <1>3 DEF IInv, TypeOK
  <2>2. /\ Len(queue'[l]) = Len(q) + 1 /\ Len(accepted'[l]) = Len(a) + 1
        /\ \A i \in 1 .. Len(q) : queue'[l][i] = q[i]
        /\ \A i \in 1 .. Len(a) : accepted'[l][i] = a[i]
        /\ queue'[l][Len(q) + 1] = n /\ accepted'[l][Len(a) + 1] = n
        /\ Len(q) \in Nat /\ Len(a) \in Nat
    BY <1>1, <2>1, AppendProperties
  <2>3. pc[l] # "done"
    BY <1>1, <1>3 DEF IInv, Lives, Life
  <2> HIDE DEF n, q, a
  <2> SUFFICES ASSUME ~lost[l] PROVE Contents(l)'
    BY <1>1 DEF Contents
  <2>4. Prefix(l) /\ Torn(l) /\ (pc[l] = "payload" => Len(disk[l]) # 0)
    BY DEF IInv, Contents
  <2>5. Prefix(l)'
    BY <1>1, <2>1, <2>2, <2>4 DEF Prefix, a
  <2>6. Torn(l)'
    BY <1>1, <2>4 DEF Torn
  <2>7. ASSUME file[l] = "open" PROVE InOrder(l)'
    <3>1. InOrder(l)
      BY <2>3, <2>7 DEF IInv, Contents
    <3> DEFINE b == Len(disk[l]) + Held(l)
    <3>2. /\ b \in Nat /\ Len(a) = b + Len(q) /\ \A i \in 1 .. Len(q) : a[b + i] = q[i]
          /\ Held(l)' = Held(l) /\ Len(disk[l])' = Len(disk[l])
      <4>1. Held(l) \in {0, 1} /\ Held(l)' = Held(l) /\ Len(disk[l])' = Len(disk[l])
        BY <1>1 DEF Holds, Held
      <4>2. Len(a) = Len(disk[l]) + Held(l) + Len(q)
            /\ \A i \in 1 .. Len(q) : a[Len(disk[l]) + Held(l) + i] = q[i]
        BY <3>1 DEF InOrder, a, q
      <4> QED BY <2>1, <4>1, <4>2
    <3> HIDE DEF b
    <3>3. ASSUME NEW i \in 1 .. Len(queue'[l]) PROVE accepted'[l][b + i] = queue'[l][i]
      <4>1. CASE i = Len(q) + 1
        BY <2>2, <3>2, <4>1
      <4>2. CASE i \in 1 .. Len(q)
        <5>1. b + i \in 1 .. Len(a)
          BY <2>2, <3>2, <4>2
        <5> QED BY <2>2, <3>2, <4>2, <5>1
      <4> QED BY <2>2, <4>1, <4>2
    <3>4. Len(accepted'[l]) = b + Len(queue'[l])
      BY <2>2, <3>2
    <3>5. Holds(l) => /\ accepted[l][Len(disk[l]) + 1] = hand[l]
                      /\ Len(disk[l]) + 1 \in 1 .. Len(a)
      <4>1. SUFFICES ASSUME Holds(l) PROVE /\ accepted[l][Len(disk[l]) + 1] = hand[l]
                                           /\ Len(disk[l]) + 1 \in 1 .. Len(a)
        OBVIOUS
      <4>2. accepted[l][Len(disk[l]) + 1] = hand[l] /\ b = Len(disk[l]) + 1
        BY <3>1, <4>1 DEF InOrder, Held, b
      <4> QED BY <2>1, <2>2, <3>2, <4>2
    <3>6. Holds(l)' => accepted'[l][Len(disk'[l]) + 1] = hand'[l]
      BY <1>1, <2>2, <3>5 DEF Holds, a
    <3> QED BY <3>2, <3>3, <3>4, <3>6 DEF InOrder, b
  <2> QED BY <1>1, <2>3, <2>4, <2>5, <2>6, <2>7 DEF Contents
<1> QED BY <1>2, <1>3

LEMMA Shift ==
    \A m, n \in Nat : /\ \A i \in 1 .. n - 1 : i + 1 \in 1 .. n /\ m + 1 + i = m + (i + 1)
                      /\ \A k : k = m + 1 + n => m + 1 <= k
  OBVIOUS

LEMMA TakeContents ==
    ASSUME IInv, NEW l \in Logger, Take(l) PROVE Contents(l)'
<1> DEFINE q == queue[l]
<1>1. /\ pc[l] = "loop" /\ pc'[l] = "got" /\ hand'[l] = Head(q) /\ queue'[l] = Tail(q)
      /\ UNCHANGED <<lost, late, disk, accepted, file>>
      /\ q \in Seq(Chunk) /\ q # <<>> /\ Len(disk[l]) \in Nat
  BY DEF Take, history, IInv, TypeOK
<1>2. /\ Head(q) = q[1] /\ Len(Tail(q)) = Len(q) - 1 /\ Len(q) \in Nat \ {0}
      /\ \A i \in 1 .. Len(q) - 1 : Tail(q)[i] = q[i + 1]
  BY <1>1
<1> HIDE DEF q
<1> SUFFICES ASSUME ~lost[l] PROVE Contents(l)'
  BY <1>1 DEF Contents
<1>3. Prefix(l)' /\ Torn(l)'
  BY <1>1 DEF IInv, Contents, Prefix, Torn
<1>4. ASSUME file[l] = "open" PROVE InOrder(l)'
  <2>1. InOrder(l)
    BY <1>1, <1>4 DEF IInv, Contents
  <2>2. ~Holds(l) /\ Held(l) = 0 /\ Holds(l)' /\ Held(l)' = 1
    BY <1>1 DEF Holds, Held
  <2>3. /\ Len(accepted[l]) = Len(disk[l]) + Len(q)
        /\ \A i \in 1 .. Len(q) : accepted[l][Len(disk[l]) + i] = q[i]
    BY <1>1, <2>1, <2>2 DEF InOrder, q
  <2>4. accepted[l][Len(disk[l]) + 1] = q[1]
    BY <1>2, <2>3
  <2>5. ASSUME NEW i \in 1 .. Len(q) - 1 PROVE accepted[l][Len(disk[l]) + 1 + i] = q[i + 1]
    <3>1. i + 1 \in 1 .. Len(q) /\ Len(disk[l]) + 1 + i = Len(disk[l]) + (i + 1)
      <4>1. Len(q) \in Nat /\ Len(disk[l]) \in Nat
        BY <1>1, <1>2
      <4> QED BY <4>1, Shift, Zenon
    <3> QED BY <2>3, <3>1
  <2> QED BY <1>1, <1>2, <2>2, <2>3, <2>4, <2>5 DEF InOrder
<1> QED BY <1>1, <1>3, <1>4 DEF Contents

LEMMA RecordContents ==
    ASSUME IInv, NEW l \in Logger, Record(l) PROVE Contents(l)'
<1> DEFINE r == [chunk |-> hand[l], whole |-> kind[l] # "pcap"]
           d == disk[l]
<1>1. /\ pc[l] = "record" /\ file[l] = "open" /\ disk'[l] = Append(d, r)
      /\ pc'[l] = (IF r.whole THEN "loop" ELSE "payload")
      /\ UNCHANGED <<lost, late, accepted, file, hand, queue>>
      /\ d \in Seq([chunk : Chunk, whole : BOOLEAN])
      /\ r.chunk = hand[l] /\ r \in [chunk : Chunk, whole : BOOLEAN]
      /\ Len(queue[l]) \in Nat
  <2>1. hand[l] \in Chunk /\ disk[l] \in Seq([chunk : Chunk, whole : BOOLEAN])
    BY DEF Record, IInv, TypeOK, Lives, Life
  <2>2. r \in [chunk : Chunk, whole : BOOLEAN] /\ Len(queue[l]) \in Nat
    BY <2>1 DEF IInv, TypeOK
  <2>3. pc \in [Logger -> {"unused", "loop", "got", "record", "payload", "done"}]
        /\ disk \in [Logger -> Seq([chunk : Chunk, whole : BOOLEAN])]
    BY DEF IInv, TypeOK
  <2> QED BY <2>1, <2>2, <2>3 DEF Record, history
<1>2. /\ Len(disk'[l]) = Len(d) + 1 /\ disk'[l][Len(d) + 1] = r /\ Len(d) \in Nat
      /\ \A i \in 1 .. Len(d) : disk'[l][i] = d[i]
  BY <1>1, AppendProperties
<1> HIDE DEF r, d
<1> SUFFICES ASSUME ~lost[l] PROVE Contents(l)'
  BY <1>1 DEF Contents
<1>3. Prefix(l) /\ Torn(l) /\ InOrder(l)
  BY <1>1 DEF IInv, Contents
<1>4. Prefix(l)'
  <2>1. Holds(l) /\ Held(l) = 1
    BY <1>1 DEF Holds, Held
  <2>2. Len(d) + 1 <= Len(accepted[l]) /\ accepted[l][Len(d) + 1] = hand[l]
    <3>1. Len(accepted[l]) = Len(d) + 1 + Len(queue[l]) /\ accepted[l][Len(d) + 1] = hand[l]
      BY <1>3, <2>1 DEF InOrder, d
    <3>2. Len(queue[l]) \in Nat /\ Len(d) \in Nat
      BY <1>1, <1>2
    <3> QED BY <3>1, <3>2, Shift, Zenon
  <2>3. ASSUME NEW i \in 1 .. Len(d) + 1 PROVE disk'[l][i].chunk = accepted[l][i]
    <3>1. CASE i = Len(d) + 1
      BY <1>1, <1>2, <2>2, <3>1
    <3>2. CASE i \in 1 .. Len(d)
      BY <1>2, <1>3, <3>2 DEF Prefix, d
    <3> QED BY <1>2, <3>1, <3>2
  <2> QED BY <1>1, <1>2, <2>2, <2>3 DEF Prefix
<1>5. Torn(l)'
  <2>1. \A i \in 1 .. Len(d) : d[i].whole
    BY <1>1, <1>3 DEF Torn, d
  <2> QED BY <1>1, <1>2, <2>1 DEF Torn
<1>6. InOrder(l)'
  BY <1>1, <1>2, <1>3 DEF InOrder, Holds, Held, d
<1> QED BY <1>1, <1>2, <1>4, <1>5, <1>6 DEF Contents

LEMMA PayloadContents ==
    ASSUME IInv, NEW l \in Logger, Payload(l) PROVE Contents(l)'
<1> DEFINE d == disk[l]
<1>1. /\ pc[l] = "payload" /\ pc'[l] = "loop" /\ file[l] = "open"
      /\ disk'[l] = [d EXCEPT ![Len(d)].whole = TRUE]
      /\ UNCHANGED <<lost, late, accepted, file, hand, queue>>
      /\ d \in Seq([chunk : Chunk, whole : BOOLEAN])
  BY DEF Payload, history, IInv, TypeOK
<1>2. /\ Len(d) \in Nat /\ DOMAIN d = 1 .. Len(d)
      /\ \A i \in 1 .. Len(d) : d[i] \in [chunk : Chunk, whole : BOOLEAN]
  BY <1>1, LenProperties, ElementOfSeq
<1>3. DOMAIN disk'[l] = 1 .. Len(d) /\ disk'[l] \in Seq([chunk : Chunk, whole : BOOLEAN])
  <2>1. TypeOK'
    BY TypeStep DEF IInv, Next, Write
  <2> QED BY <1>1, <1>2, <2>1 DEF TypeOK
<1>4. /\ Len(disk'[l]) = Len(d)
      /\ \A i \in 1 .. Len(d) : /\ disk'[l][i].chunk = d[i].chunk
                                /\ disk'[l][i].whole = (i = Len(d) \/ d[i].whole)
  <2>1. Len(disk'[l]) = Len(d)
    BY <1>2, <1>3, LenProperties
  <2>2. ASSUME NEW i \in 1 .. Len(d)
        PROVE  disk'[l][i].chunk = d[i].chunk /\ disk'[l][i].whole = (i = Len(d) \/ d[i].whole)
    <3>1. d[i] \in [chunk : Chunk, whole : BOOLEAN]
      BY <1>2
    <3>2. disk'[l][i] = IF i = Len(d) THEN [d[i] EXCEPT !.whole = TRUE] ELSE d[i]
      BY <1>1, <1>2
    <3> HIDE DEF d
    <3> QED BY <3>1, <3>2
  <2> QED BY <2>1, <2>2
<1> HIDE DEF d
<1> SUFFICES ASSUME ~lost[l] PROVE Contents(l)'
  BY <1>1 DEF Contents
<1>5. Prefix(l) /\ Torn(l) /\ InOrder(l)
  BY <1>1 DEF IInv, Contents
<1>6. Prefix(l)'
  BY <1>1, <1>4, <1>5 DEF Prefix, d
<1>7. Torn(l)'
  BY <1>1, <1>4, <1>5 DEF Torn, d
<1>8. InOrder(l)'
  BY <1>1, <1>4, <1>5 DEF InOrder, Holds, Held, d
<1> QED BY <1>1, <1>4, <1>6, <1>7, <1>8 DEF Contents

LEMMA ContentsStep ==
    ASSUME IInv, [Next]_vars, NEW l \in Logger PROVE Contents(l)'
<1> USE DEF panels, request, counts, writer, history
<1>1. CASE UNCHANGED vars
  BY <1>1, SameContents DEF vars, IInv, ContentsVars
<1>2. CASE /\ UNCHANGED <<lost, late, disk, accepted, file, pc, hand, queue>>
  BY <1>2, SameContents DEF IInv, ContentsVars
<1>3. ASSUME NEW a \in Panel, \/ RequestStart(a) \/ RequestStop(a)
                              \/ \E p \in Port : SelectPort(a, p)
      PROVE  Contents(l)'
  BY <1>2, <1>3 DEF RequestStart, RequestStop, SelectPort
<1>4. CASE \/ DialogCancelled \/ StartFails \/ Stop
           \/ \E ext \in {"pcap", "other"} : DialogAccepted(ext)
  BY <1>2, <1>4 DEF DialogCancelled, StartFails, Stop, DialogAccepted
<1>5. CASE Join
  <2>1. UNCHANGED <<lost, disk, accepted, file, pc, hand, queue>>
    BY <1>5 DEF Join
  <2>2. late'[l] = late[l] \/ late'[l] = TRUE
    BY <1>5 DEF Join, IInv, TypeOK
  <2>3. late[l] \in BOOLEAN
    BY DEF IInv, TypeOK
  <2>4. Contents(l)
    BY DEF IInv
  <2> QED BY <2>1, <2>2, <2>3, <2>4 DEF Contents, Prefix, Torn, InOrder, Holds, Held
<1>6. CASE CloseFile \/ Forget
  <2>1. UNCHANGED <<lost, late, disk, accepted, pc, hand, queue>>
    BY <1>6 DEF CloseFile, Forget
  <2>2. file'[l] = file[l] \/ file'[l] # "open"
    BY <1>6 DEF CloseFile, Forget, IInv, TypeOK
  <2>3. Contents(l)
    BY DEF IInv
  <2> QED BY <2>1, <2>2, <2>3 DEF Contents, Prefix, Torn, InOrder, Holds, Held
<1>7. CASE CloseFails
  <2>1. UNCHANGED <<late, disk, accepted, file, pc, hand, queue>> /\ (lost[l] => lost'[l])
    BY <1>7 DEF CloseFails, IInv, TypeOK
  <2>2. Contents(l)
    BY DEF IInv
  <2> QED BY <2>1, <2>2 DEF Contents, Prefix, Torn, InOrder, Holds, Held
<1>8. ASSUME NEW p \in Port, Receive(p) PROVE Contents(l)'
  BY <1>8, ReceiveContents
<1>9. ASSUME NEW k \in Logger, k # l, Start(k) \/ Write(k) \/ Loop(k) PROVE Contents(l)'
  <2>1. UNCHANGED ContentsVars(l)
    <3>1. CASE Start(k)
      BY <1>9, <3>1 DEF Start, ContentsVars, IInv, TypeOK
    <3>2. CASE Write(k)
      BY <1>9, <3>2 DEF Write, Record, Payload, WriteFails, ContentsVars, IInv, TypeOK
    <3>3. CASE Loop(k)
      BY <1>9, <3>3 DEF Loop, LoopEnds, Take, Look, WriteRaises, ContentsVars, IInv, TypeOK
    <3> QED BY <1>9, <3>1, <3>2, <3>3
  <2> QED BY <2>1, SameContents DEF IInv
<1>10. CASE Start(l)
  <2>1. /\ pc'[l] = "loop" /\ queue'[l] = <<>> /\ disk'[l] = <<>> /\ accepted'[l] = <<>>
    BY <1>10 DEF Start, IInv, Lives, Life, TypeOK
  <2> QED BY <2>1 DEF Contents, Prefix, Torn, InOrder, Holds, Held
<1>11. CASE Record(l) \/ Payload(l) \/ Take(l)
  BY <1>11, RecordContents, PayloadContents, TakeContents
<1>12. CASE WriteFails(l)
  BY <1>12 DEF WriteFails, Contents, IInv, TypeOK
<1>13. CASE LoopEnds(l)
  <2>1. /\ pc[l] = "loop" /\ queue[l] = <<>> /\ pc'[l] = "done"
        /\ UNCHANGED <<lost, late, disk, accepted, file, hand, queue>>
    BY <1>13 DEF LoopEnds, Drained, IInv, TypeOK
  <2>2. Contents(l) /\ (file[l] = "open" \/ late[l])
    BY <2>1 DEF IInv, Lives, Life
  <2>3. Len(disk[l]) \in Nat
    BY DEF IInv, TypeOK
  <2> QED BY <2>1, <2>2, <2>3 DEF Contents, Prefix, Torn, InOrder, Holds, Held
<1>14. CASE Look(l)
  <2>1. /\ pc[l] = "got" /\ pc'[l] = (IF file[l] = "none" THEN "loop" ELSE "record")
        /\ UNCHANGED <<lost, late, disk, accepted, file, hand, queue>>
    BY <1>14 DEF Look, IInv, TypeOK
  <2>2. Contents(l)
    BY DEF IInv
  <2> QED BY <2>1, <2>2 DEF Contents, Prefix, Torn, InOrder, Holds, Held
<1>15. CASE WriteRaises(l)
  <2>1. /\ pc[l] \in {"record", "payload"} /\ file[l] # "open" /\ pc'[l] = "done"
        /\ UNCHANGED <<lost, late, disk, accepted, file, hand, queue>>
    BY <1>15 DEF WriteRaises, IInv, TypeOK
  <2>2. Contents(l) /\ late[l]
    BY <2>1 DEF IInv, Lives, Life
  <2> QED BY <2>1, <2>2 DEF Contents, Prefix, Torn, InOrder, Holds, Held
<1> QED
  BY <1>1, <1>3, <1>4, <1>5, <1>6, <1>7, <1>8, <1>9, <1>10, <1>11, <1>12, <1>13, <1>14, <1>15
  DEF Next, Stopping, Write, Loop

-----------------------------------------------------------------------------
LEMMA Invariance == Spec => []IInv
<1>1. IInv /\ [Next]_vars => IInv'
  BY TypeStep, RegistryStep, ContentsStep DEF IInv
<1> QED
  BY InitIInv, <1>1, PTL DEF Spec

\* What a file holds is the beginning of what its logger was given, in order, without a gap and
\* without a torn record but perhaps the last, and all of it when the stop was not cut short,
\* however many loggers, chunks and refused writes there are (DataLogger).
THEOREM FilesAreFaithful == Spec => []FileIsFaithful
<1>1. IInv => FileIsFaithful
  <2> SUFFICES ASSUME IInv PROVE FileIsFaithful
    OBVIOUS
  <2>1. \A l \in Logger : Contents(l)
    BY DEF IInv
  <2> QED
    BY <2>1 DEF FileIsFaithful, FileIsPrefix, RecordsWhole, StoppedIsComplete, Contents, Prefix, Torn
<1> QED
  BY Invariance, <1>1, PTL

\* A logger that takes data is registered, so it can be stopped, and one that is registered takes
\* data into an open file until it is being stopped, whichever port each panel shows by then
\* (DataLoggerManager, on_logging_start_requested, on_logging_stop_requested).
THEOREM LoggersAreRegistered == Spec => []RegisteredIsLogging
<1>1. IInv => RegisteredIsLogging
  <2> SUFFICES ASSUME IInv PROVE RegisteredIsLogging
    OBVIOUS
  <2>1. Serving => \A l \in Logger : ~Leaving(l)
    BY DEF Serving, Leaving
  <2> QED BY <2>1 DEF RegisteredIsLogging, IInv, Registry, TypeOK
<1> QED
  BY Invariance, <1>1, PTL
=============================================================================
