--------------------- MODULE ConnectionControllerProofs ---------------------
(***************************************************************************)
(* What the dictionary of workers says of the threads, for every number of *)
(* names, workers, payloads and signals. The inductive invariant Inv ties  *)
(* an entry to the port its worker was created for (EntryOfPort), puts the *)
(* closed signal behind the thread's work (ClosedIsLast), and follows a    *)
(* close_connection(None) through the names it has done (ClosedSoFar).     *)
(* That each thread keeps the lifecycle needs what its signals so far say  *)
(* of its phase (LogOfPhase).                                              *)
(***************************************************************************)
EXTENDS ConnectionController, SequenceTheorems, TLAPS

EntryOfPort ==
    /\ \A p \in Port : Registered(p) =>
          port[workers[p]] = p /\ phase[workers[p]] # "unused"
    /\ \A w \in Worker : phase[w] # "unused" => port[w] \in Port

ClosedIsLast ==
    \A w \in Worker : Closed(w) \/ Pending(w) => phase[w] \in {"ending", "finished"}

ClosedSoFar ==
    closingAll => \A p \in Port \ todo :
        Registered(p) => ~AtWork(workers[p]) \/ waiting = workers[p]

Known(e) == phase[e[2]] # "unused"
EventsKnown == \A i \in 1..Len(events) : Known(events[i])

Inv == /\ TypeOK /\ EntryOfPort /\ EventsKnown /\ ClosedIsLast
       /\ RunnerIsRegistered /\ DeadEntryHasCause /\ ClosedSoFar

-----------------------------------------------------------------------------
(* Membership in a sequence *)

LEMMA InAppend ==
  ASSUME NEW S, NEW s \in Seq(S), NEW e \in S, NEW x
  PROVE  In(x, Append(s, e)) <=> In(x, s) \/ x = e
  BY AppendProperties, LenProperties DEF In

LEMMA InTail ==
  ASSUME NEW S, NEW s \in Seq(S), s # <<>>, NEW x
  PROVE  /\ In(x, Tail(s)) => In(x, s)
         /\ In(x, s) => x = s[1] \/ In(x, Tail(s))
<1>1. Len(s) \in Nat /\ Len(Tail(s)) = Len(s) - 1
      /\ \A i \in 1..Len(Tail(s)) : Tail(s)[i] = s[i + 1]
  BY HeadTailProperties, LenProperties
<1>2. ASSUME In(x, Tail(s)) PROVE In(x, s)
  <2>1. PICK i \in 1..Len(Tail(s)) : Tail(s)[i] = x
    BY <1>2 DEF In
  <2>2. i + 1 \in 1..Len(s) /\ s[i + 1] = x
    BY <1>1, <2>1
  <2> QED
    BY <2>2 DEF In
<1>3. ASSUME In(x, s), x # s[1] PROVE In(x, Tail(s))
  <2>1. PICK i \in 1..Len(s) : s[i] = x
    BY <1>3 DEF In
  <2>2. i - 1 \in 1..Len(Tail(s)) /\ Tail(s)[i - 1] = x
    BY <1>1, <1>3, <2>1
  <2> QED
    BY <2>2 DEF In
<1> QED
  BY <1>2, <1>3

Event == (Signal \cup {"data"}) \X Worker

-----------------------------------------------------------------------------
(* What a step does to the signals *)

\* The step serves the closed signal of w.
Served(w) == OnWorkerClosed /\ events[1] = <<"closed", w>>

LEMMA EmitSignals ==
  ASSUME TypeOK, NEW v \in Worker, NEW s \in Signal, Emit(v, s), NEW w \in Worker
  PROVE  /\ Closed(w)' <=> Closed(w) \/ (w = v /\ s = "closed")
         /\ Pending(w)' <=> Pending(w) \/ (w = v /\ s = "closed")
<1>1. /\ events \in Seq(Event) /\ <<s, v>> \in Event /\ events' = Append(events, <<s, v>>)
      /\ signals[v] \in Seq(Signal) /\ signals'[v] = Append(signals[v], s)
      /\ w # v => signals'[w] = signals[w]
  BY DEF Emit, TypeOK, Event
<1>2. Pending(w)' <=> Pending(w) \/ <<"closed", w>> = <<s, v>>
  BY <1>1, InAppend DEF Pending
<1>3. Closed(v)' <=> Closed(v) \/ s = "closed"
  BY <1>1, InAppend DEF Closed
<1>4. w # v => (Closed(w)' <=> Closed(w))
  BY <1>1 DEF Closed, In
<1> QED
  BY <1>2, <1>3, <1>4

LEMMA ServeSignals ==
  ASSUME TypeOK, events # <<>>, events' = Tail(events), UNCHANGED signals, NEW w \in Worker
  PROVE  /\ Closed(w)' <=> Closed(w)
         /\ Pending(w)' => Pending(w)
         /\ Pending(w) => Pending(w)' \/ events[1] = <<"closed", w>>
<1>1. events \in Seq(Event)
  BY DEF TypeOK, Event
<1>2. Closed(w)' <=> Closed(w)
  BY DEF Closed, In
<1> QED
  BY <1>1, <1>2, InTail DEF Pending

LEMMA SignalStep ==
  ASSUME TypeOK, [Next]_vars, NEW w \in Worker
  PROVE  /\ Closed(w)' => Closed(w) \/ phase'[w] = "ending"
         /\ Pending(w)' => Pending(w) \/ phase'[w] = "ending"
         /\ Closed(w)' /\ ~Closed(w) => Pending(w)'
         /\ Pending(w) => Pending(w)' \/ Served(w)
<1>1. CASE Serve
  <2>1. events # <<>> /\ events' = Tail(events) /\ UNCHANGED signals
    BY <1>1 DEF Serve, PassOn, OnWorkerClosed, HandleDataReceived, threadVars
  <2>2. events[1] = <<"closed", w>> => OnWorkerClosed
    BY <1>1 DEF Serve, PassOn, OnWorkerClosed, HandleDataReceived
  <2> QED
    BY <2>1, <2>2, ServeSignals DEF Served
<1>2. ASSUME NEW v \in Worker, OpenFails(v) \/ EnterLoop(v) \/ IoError(v) \/ CloseRaises(v)
      PROVE  (Closed(w)' <=> Closed(w)) /\ (Pending(w)' <=> Pending(w))
  <2>1. PICK s \in {"opened", "error"} : Emit(v, s)
    BY <1>2 DEF OpenFails, EnterLoop, IoError, CloseRaises
  <2> QED
    BY <2>1, EmitSignals DEF Signal
<1>3. ASSUME NEW v \in Worker, CloseOk(v)
      PROVE  /\ Closed(w)' <=> Closed(w) \/ w = v
             /\ Pending(w)' <=> Pending(w) \/ w = v
             /\ phase'[v] = "ending"
  <2>1. Emit(v, "closed") /\ phase'[v] = "ending"
    BY <1>3 DEF CloseOk, TypeOK
  <2> QED
    BY <2>1, EmitSignals DEF Signal
<1>4. ASSUME NEW v \in Worker, Receive(v)
      PROVE  (Closed(w)' <=> Closed(w)) /\ (Pending(w)' <=> Pending(w))
  <2>1. events' = Append(events, <<"data", v>>) /\ UNCHANGED signals
    BY <1>4 DEF Receive, threadVars
  <2>2. events \in Seq(Event) /\ <<"data", v>> \in Event
    BY DEF TypeOK, Event
  <2> QED
    BY <2>1, <2>2, InAppend DEF Pending, Closed, In
<1>5. CASE UNCHANGED <<events, signals>>
  BY <1>5 DEF Pending, Closed, In
<1>6. Serve \/ (\E v \in Worker : OpenFails(v) \/ EnterLoop(v) \/ IoError(v) \/ CloseRaises(v)
                                 \/ CloseOk(v) \/ Receive(v)) \/ UNCHANGED <<events, signals>>
  BY DEF Next, vars, threadVars, ClosingStep, WaitReturns, CloseAllReturns, CloseNext,
         OpenConnection, CloseConnection, CloseAll, Thread, OpenOk, LeaveLoop, Finish
<1> QED
  BY <1>1, <1>2, <1>3, <1>4, <1>5, <1>6

-----------------------------------------------------------------------------
(* What a step does to the rest *)

\* The steps of the GUI thread, of a sender, and of a worker v, by what they change.
LEMMA FrameOfThread ==
  ASSUME TypeOK, NEW v \in Worker, Thread(v)
  PROVE  /\ UNCHANGED <<workers, port, guiVars>>
         /\ phase' \in [Worker -> Phases]
         /\ \A w \in Worker : w # v => phase'[w] = phase[w]
         /\ phase[v] \notin {"unused", "finished"} /\ phase'[v] # "unused"
         /\ AtWork(v)' => AtWork(v)
         /\ phase[v] \in {"ending", "finished"} => phase'[v] \in {"ending", "finished"}
  BY DEF Thread, ThreadFrame, threadVars, TypeOK, Phases, AtWork, OpenOk, OpenFails, EnterLoop,
         Receive, IoError, LeaveLoop, CloseOk, CloseRaises, Finish

\* The signal at the head of the queue is a known worker's, on a port of its own.
LEMMA HeadKnown ==
  ASSUME TypeOK, EventsKnown, EntryOfPort, events # <<>>
  PROVE  /\ events[1] \in Event /\ events[1][2] \in Worker /\ port[events[1][2]] \in Port
         /\ Tail(events) \in Seq(Event) /\ 1 \in 1..Len(events)
<1>1. events \in Seq(Event)
  BY DEF TypeOK, Event
<1>2. 1 \in 1..Len(events) /\ events[1] \in Event /\ Tail(events) \in Seq(Event)
  BY <1>1, EmptySeq, ElementOfSeq, HeadTailProperties
<1>3. events[1][2] \in Worker /\ Known(events[1])
  BY <1>2 DEF Event, EventsKnown
<1> QED
  BY <1>2, <1>3 DEF Known, EntryOfPort

LEMMA TypeStep == TypeOK /\ EventsKnown /\ EntryOfPort /\ [Next]_vars => TypeOK'
<1> SUFFICES ASSUME TypeOK, EventsKnown, EntryOfPort, [Next]_vars PROVE TypeOK'
  OBVIOUS
<1> USE BoundAssumption, NoneAssumption DEF guiVars, threadVars
<1>1. CASE \E p \in Port : OpenConnection(p)
  BY <1>1 DEF OpenConnection, TypeOK, Phases
<1>2. CASE \E p \in Port : CloseConnection(p)
  BY <1>2 DEF CloseConnection, Stop, Registered, TypeOK
<1>3. CASE CloseAll
  BY <1>3 DEF CloseAll, TypeOK
<1>4. CASE ClosingStep
  <2>1. CASE \E p \in Port : CloseNext(p)
    <3>1. PICK p \in Port : CloseNext(p)
      BY <2>1
    <3>2. workers[p] \in Worker \cup {None}
      BY DEF TypeOK
    <3>3. flag' \in [Worker -> BOOLEAN] /\ waiting' \in Worker \cup {None} /\ todo' \subseteq Port
      BY <3>1, <3>2 DEF CloseNext, Stop, TypeOK
    <3> QED
      BY <3>1, <3>3 DEF CloseNext, TypeOK
  <2>2. CASE CloseAllReturns \/ WaitReturns
    BY <2>2 DEF CloseAllReturns, WaitReturns, TypeOK
  <2> QED
    BY <1>4, <2>1, <2>2 DEF ClosingStep
<1>5. CASE Serve
  <2>1. events # <<>> /\ events' = Tail(events)
    BY <1>5 DEF Serve, PassOn, OnWorkerClosed, HandleDataReceived
  <2>2. events' \in Seq(Event)
    BY <2>1, HeadKnown
  <2>3. CASE PassOn
    BY <2>2, <2>3 DEF PassOn, TypeOK, Event
  <2>4. CASE OnWorkerClosed
    BY <2>1, <2>2, <2>4, HeadKnown DEF OnWorkerClosed, TypeOK, Event
  <2>5. CASE HandleDataReceived
    BY <2>1, <2>2, <2>5, HeadKnown DEF HandleDataReceived, TypeOK, Event
  <2> QED
    BY <1>5, <2>3, <2>4, <2>5 DEF Serve
<1>9. ASSUME NEW v \in Worker, NEW s \in Signal, Emit(v, s)
      PROVE  signals' \in [Worker -> Seq(Signal)] /\ events' \in Seq(Event)
  <2>1. signals[v] \in Seq(Signal) /\ events \in Seq(Event) /\ <<s, v>> \in Event
    BY DEF TypeOK, Event
  <2>2. Append(signals[v], s) \in Seq(Signal) /\ Append(events, <<s, v>>) \in Seq(Event)
    BY <2>1, AppendProperties
  <2> QED
    BY <1>9, <2>2 DEF Emit, TypeOK
<1>10. ASSUME NEW v \in Worker, Thread(v) PROVE TypeOK'
  <2>1. CASE OpenFails(v) \/ EnterLoop(v) \/ IoError(v) \/ CloseOk(v) \/ CloseRaises(v)
    <3>1. \E s \in Signal : Emit(v, s)
      BY <2>1 DEF OpenFails, EnterLoop, IoError, CloseOk, CloseRaises, Signal
    <3>2. signals' \in [Worker -> Seq(Signal)] /\ events' \in Seq(Event)
      BY <3>1, <1>9
    <3>3. phase' \in [Worker -> Phases] /\ UNCHANGED <<workers, port, guiVars>>
      BY <1>10, FrameOfThread
    <3>4. flag' \in [Worker -> BOOLEAN] /\ dev' \in [Worker -> BOOLEAN]
      BY <2>1 DEF OpenFails, EnterLoop, IoError, CloseOk, CloseRaises, TypeOK
    <3>5. UNCHANGED <<received, evicted>>
      BY <2>1 DEF OpenFails, EnterLoop, IoError, CloseOk, CloseRaises, ThreadFrame
    <3> QED
      BY <3>2, <3>3, <3>4, <3>5 DEF TypeOK, Event
  <2>2. CASE OpenOk(v) \/ LeaveLoop(v) \/ Finish(v)
    BY <2>2 DEF OpenOk, LeaveLoop, Finish, ThreadFrame, TypeOK, Phases
  <2>3. CASE Receive(v)
    <3>1. events \in Seq(Event) /\ <<"data", v>> \in Event
      BY DEF TypeOK, Event
    <3>2. events' \in Seq(Event)
      BY <2>3, <3>1, AppendProperties DEF Receive
    <3>3. received' \in 0..MaxData
      BY <2>3 DEF Receive, TypeOK
    <3>4. UNCHANGED <<workers, port, phase, flag, dev, signals, guiVars, evicted>>
      BY <2>3 DEF Receive, ThreadFrame
    <3> QED
      BY <3>2, <3>3, <3>4 DEF TypeOK, Event
  <2> QED
    BY <1>10, <2>1, <2>2, <2>3 DEF Thread
<1>11. CASE UNCHANGED vars
  BY <1>11 DEF vars, TypeOK
<1> QED
  BY <1>1, <1>2, <1>3, <1>4, <1>5, <1>10, <1>11 DEF Next

LEMMA PhaseStep ==
  ASSUME TypeOK, [Next]_vars, NEW w \in Worker
  PROVE  /\ phase[w] # "unused" => phase'[w] # "unused"
         /\ phase[w] # "unused" /\ AtWork(w)' => AtWork(w)
         /\ phase[w] \in {"ending", "finished"} => phase'[w] \in {"ending", "finished"}
<1>1. CASE \E p \in Port : OpenConnection(p)
  BY <1>1 DEF OpenConnection, TypeOK, AtWork
<1>2. CASE \E v \in Worker : Thread(v)
  BY <1>2, FrameOfThread DEF AtWork
<1>3. CASE UNCHANGED phase
  BY <1>3 DEF AtWork
<1> QED
  BY <1>1, <1>2, <1>3
     DEF Next, vars, threadVars, ClosingStep, WaitReturns, CloseAllReturns, CloseNext, Serve,
         PassOn, OnWorkerClosed, HandleDataReceived, CloseConnection, CloseAll

\* Only three steps touch the entries: an open, a served closed signal, nothing else.
LEMMA EntryCases ==
  ASSUME [Next]_vars
  PROVE  \/ \E p \in Port : OpenConnection(p)
         \/ OnWorkerClosed
         \/ UNCHANGED <<workers, port, evicted>>
            /\ (UNCHANGED phase \/ \E v \in Worker : Thread(v))
<1>1. ASSUME NEW v \in Worker, Thread(v) PROVE UNCHANGED <<workers, port, evicted>>
  BY <1>1 DEF Thread, ThreadFrame, OpenOk, OpenFails, EnterLoop, Receive, IoError,
              LeaveLoop, CloseOk, CloseRaises, Finish
<1> QED
  BY <1>1 DEF Next, vars, threadVars, ClosingStep, WaitReturns, CloseAllReturns,
         CloseNext, Serve, PassOn, HandleDataReceived, CloseConnection,
         CloseAll

LEMMA EntryStep == TypeOK /\ EventsKnown /\ EntryOfPort /\ [Next]_vars => EntryOfPort'
<1> SUFFICES ASSUME TypeOK, EventsKnown, EntryOfPort, [Next]_vars PROVE EntryOfPort'
  OBVIOUS
<1>1. CASE \E p \in Port : OpenConnection(p)
  BY <1>1, NoneAssumption DEF OpenConnection, TypeOK, EntryOfPort, Registered
<1>2. CASE OnWorkerClosed
  BY <1>2 DEF OnWorkerClosed, threadVars, TypeOK, EntryOfPort, Registered
<1>3. CASE UNCHANGED <<workers, port, evicted>> /\ UNCHANGED phase
  BY <1>3 DEF EntryOfPort, Registered
<1>4. CASE UNCHANGED <<workers, port, evicted>> /\ \E v \in Worker : Thread(v)
  BY <1>4, FrameOfThread DEF TypeOK, EntryOfPort, Registered
<1> QED
  BY <1>1, <1>2, <1>3, <1>4, EntryCases

LEMMA KnownStep == TypeOK /\ EventsKnown /\ [Next]_vars => EventsKnown'
<1> SUFFICES ASSUME TypeOK, EventsKnown, [Next]_vars PROVE EventsKnown'
  OBVIOUS
<1>1. events \in Seq(Event)
  BY DEF TypeOK, Event
<1>2. \A e \in Event : Known(e) => Known(e)'
  BY PhaseStep DEF Known, Event
<1>3. \A i \in 1..Len(events) : events[i] \in Event
  BY <1>1, ElementOfSeq
<1>4. CASE events # <<>> /\ events' = Tail(events)
  <2>1. /\ Len(Tail(events)) = Len(events) - 1 /\ Len(events) \in Nat
        /\ \A i \in 1..Len(Tail(events)) : Tail(events)[i] = events[i + 1]
    BY <1>1, <1>4, HeadTailProperties, LenProperties
  <2>2. \A i \in 1..Len(events) : phase'[events[i][2]] # "unused"
    BY <1>2, <1>3 DEF EventsKnown, Known
  <2>3. \A i \in 1..Len(Tail(events)) : phase'[Tail(events)[i][2]] # "unused"
    BY <2>1, <2>2
  <2> QED
    BY <1>4, <2>3 DEF EventsKnown, Known
<1>5. ASSUME NEW v \in Worker, NEW k \in Signal \cup {"data"},
             events' = Append(events, <<k, v>>), phase'[v] # "unused"
      PROVE  EventsKnown'
  <2>1. <<k, v>> \in Event
    BY DEF Event
  <2>2. /\ Len(events') = Len(events) + 1 /\ Len(events) \in Nat
        /\ \A i \in 1..Len(events) : events'[i] = events[i]
        /\ events'[Len(events) + 1] = <<k, v>>
    BY <1>1, <1>5, <2>1, AppendProperties, LenProperties
  <2>3. \A i \in 1..Len(events) : phase'[events[i][2]] # "unused"
    BY <1>2, <1>3 DEF EventsKnown, Known
  <2> QED
    BY <1>5, <2>2, <2>3 DEF EventsKnown, Known
<1>6. CASE UNCHANGED events
  BY <1>2, <1>3, <1>6 DEF EventsKnown, Known
<1>7. ASSUME NEW v \in Worker, Thread(v)
      PROVE  UNCHANGED events \/ \E k \in Signal \cup {"data"} : events' = Append(events, <<k, v>>)
  BY <1>7 DEF Thread, OpenOk, OpenFails, EnterLoop, Receive, IoError, LeaveLoop, CloseOk,
              CloseRaises, Finish, Emit, Signal
<1>8. CASE \E v \in Worker : Thread(v)
  BY <1>5, <1>6, <1>7, <1>8, FrameOfThread
<1> QED
  BY <1>4, <1>6, <1>8
     DEF Next, vars, threadVars, ClosingStep, WaitReturns, CloseAllReturns, CloseNext, Serve,
         PassOn, OnWorkerClosed, HandleDataReceived, OpenConnection, CloseConnection,
         CloseAll

LEMMA ClosedLastStep == TypeOK /\ ClosedIsLast /\ [Next]_vars => ClosedIsLast'
<1> SUFFICES ASSUME TypeOK, ClosedIsLast, [Next]_vars, NEW w \in Worker, (Closed(w) \/ Pending(w))'
             PROVE  phase'[w] \in {"ending", "finished"}
  BY DEF ClosedIsLast
<1> QED
  BY SignalStep, PhaseStep DEF ClosedIsLast

LEMMA RunnerStep ==
  TypeOK /\ EventsKnown /\ EntryOfPort /\ ClosedIsLast /\ RunnerIsRegistered /\ [Next]_vars
    => RunnerIsRegistered'
<1> SUFFICES ASSUME TypeOK, EventsKnown, EntryOfPort, ClosedIsLast, RunnerIsRegistered,
                    [Next]_vars, NEW w \in Worker, AtWork(w)'
             PROVE  workers'[port'[w]] = w \/ w \in evicted'
  BY DEF RunnerIsRegistered
<1>1. ASSUME NEW p \in Port, OpenConnection(p) PROVE workers'[port'[w]] = w \/ w \in evicted'
  <2>1. PICK v \in Worker : /\ phase[v] = "unused"
                            /\ port' = [port EXCEPT ![v] = p]
                            /\ phase' = [phase EXCEPT ![v] = "opening"]
                            /\ workers' = [workers EXCEPT ![p] = v]
    BY <1>1 DEF OpenConnection
  <2>2. evicted' = evicted
    BY <1>1 DEF OpenConnection
  <2>3. CASE w = v
    BY <2>1, <2>3 DEF TypeOK
  <2>4. CASE w # v
    <3>1. AtWork(w) /\ port'[w] = port[w] /\ port[w] \in Port
      BY <2>1, <2>4 DEF AtWork, TypeOK, EntryOfPort
    <3>2. workers[port[w]] = w => port[w] # p
      BY <1>1, <3>1, NoneAssumption
         DEF OpenConnection, MayOpen, IsConnectionOpen, Registered, Running, AtWork
    <3> QED
      BY <2>1, <2>2, <3>1, <3>2 DEF RunnerIsRegistered, TypeOK
  <2> QED
    BY <2>3, <2>4
<1>2. CASE OnWorkerClosed
  <2>1. events # <<>> /\ UNCHANGED <<port, phase>>
    BY <1>2 DEF OnWorkerClosed, threadVars
  <2>2. events[1][2] \in Worker /\ port[events[1][2]] \in Port /\ events[1] \in Event
    BY <2>1, HeadKnown
  <2> DEFINE v == events[1][2]
  <2>3. events[1] = <<"closed", v>>
    BY <1>2, <2>2 DEF OnWorkerClosed, Event
  <2>4. Pending(v)
    BY <2>1, <2>3, HeadKnown DEF Pending, In
  <2>5. ~AtWork(v) /\ AtWork(w)
    BY <2>1, <2>2, <2>4 DEF ClosedIsLast, AtWork
  <2>6. /\ workers' = [workers EXCEPT ![port[v]] = None]
        /\ evicted' = IF workers[port[v]] \in {v, None} THEN evicted
                                                        ELSE evicted \cup {workers[port[v]]}
    BY <1>2 DEF OnWorkerClosed
  <2>7. w \in evicted \/ workers[port[w]] = w
    BY <2>5 DEF RunnerIsRegistered
  <2>8. port[w] \in Port /\ w # None
    BY <2>5, NoneAssumption DEF EntryOfPort, AtWork
  <2> QED
    BY <2>1, <2>2, <2>5, <2>6, <2>7, <2>8 DEF TypeOK
<1>3. CASE UNCHANGED <<workers, port, evicted>>
           /\ (UNCHANGED phase \/ \E v \in Worker : Thread(v))
  <2>1. AtWork(w)
    BY <1>3, FrameOfThread DEF AtWork
  <2> QED
    BY <1>3, <2>1 DEF RunnerIsRegistered
<1> QED
  BY <1>1, <1>2, <1>3, EntryCases

LEMMA DeadStep ==
  TypeOK /\ EventsKnown /\ EntryOfPort /\ ClosedIsLast /\ DeadEntryHasCause /\ [Next]_vars
    => DeadEntryHasCause'
<1> SUFFICES ASSUME TypeOK, EventsKnown, EntryOfPort, ClosedIsLast, DeadEntryHasCause,
                    [Next]_vars, NEW p \in Port, workers'[p] # None,
                    NEW w, w = workers'[p], Closed(w)'
             PROVE  Pending(w)'
  BY DEF DeadEntryHasCause, Registered, Closed, Pending
<1>0. w \in Worker /\ TypeOK'
  BY TypeStep DEF TypeOK
<1>1. CASE workers[p] = w
  <2>1. ~Served(w)
    <3>1. SUFFICES ASSUME Served(w) PROVE FALSE
      OBVIOUS
    <3>2. port[w] = p
      BY <1>0, <1>1, NoneAssumption DEF EntryOfPort, Registered
    <3>3. events[1][2] = w
      BY <3>1 DEF Served
    <3> QED
      BY <1>0, <3>1, <3>2, <3>3, NoneAssumption DEF Served, OnWorkerClosed, TypeOK
  <2>2. Closed(w) => Pending(w)
    BY <1>0, <1>1, NoneAssumption DEF DeadEntryHasCause, Registered
  <2> QED
    BY <1>0, <2>1, <2>2, SignalStep
<1>2. CASE workers[p] # w
  <2>1. PICK q \in Port : OpenConnection(q)
    BY <1>0, <1>2, EntryCases, NoneAssumption DEF OnWorkerClosed, TypeOK
  <2>2. phase[w] = "unused" /\ phase'[w] = "opening"
    BY <1>0, <1>2, <2>1 DEF OpenConnection, TypeOK
  <2>3. ~Closed(w) /\ UNCHANGED signals
    BY <1>0, <2>1, <2>2 DEF ClosedIsLast, OpenConnection
  <2> QED
    BY <2>3 DEF Closed, In
<1> QED
  BY <1>1, <1>2

LEMMA ClosedSoFarStep == TypeOK /\ ClosedSoFar /\ [Next]_vars => ClosedSoFar'
<1> SUFFICES ASSUME TypeOK, ClosedSoFar, [Next]_vars, closingAll',
                    NEW p \in Port \ todo', workers'[p] # None
             PROVE  ~AtWork(workers[p])' \/ waiting' = workers'[p]
  BY DEF ClosedSoFar, Registered
<1>1. CASE CloseAll
  BY <1>1 DEF CloseAll, Registered
<1>2. CASE \E q \in Port : CloseNext(q)
  <2>1. PICK q \in Port : CloseNext(q)
    BY <1>2
  <2>2. /\ closingAll /\ waiting = None /\ UNCHANGED <<workers, phase>>
        /\ todo' = todo \ {q}
        /\ waiting' = IF Running(workers[q]) THEN workers[q] ELSE None
    BY <2>1 DEF CloseNext, Stop
  <2>3. CASE p = q
    BY <2>2, <2>3 DEF Running, AtWork
  <2>4. CASE p # q
    BY <2>2, <2>4 DEF ClosedSoFar, Registered, AtWork
  <2> QED
    BY <2>3, <2>4
<1>3. CASE WaitReturns
  BY <1>3 DEF WaitReturns, threadVars, ClosedSoFar, Registered, AtWork, Running
<1>4. ASSUME NEW v \in Worker, Thread(v) PROVE ~AtWork(workers[p])' \/ waiting' = workers'[p]
  <2>1. UNCHANGED <<workers, waiting, todo, closingAll>>
    BY <1>4, FrameOfThread DEF guiVars
  <2>2. workers[p] \in Worker /\ (AtWork(workers[p])' => AtWork(workers[p]))
    BY <1>4, <2>1, FrameOfThread DEF TypeOK, AtWork
  <2> QED
    BY <2>1, <2>2 DEF ClosedSoFar, Registered
<1>5. CASE UNCHANGED <<workers, phase, waiting, todo, closingAll>>
  BY <1>5 DEF ClosedSoFar, Registered, AtWork
<1>6. ~closingAll' \/ CloseAll \/ (\E q \in Port : CloseNext(q)) \/ WaitReturns
      \/ (\E v \in Worker : Thread(v)) \/ UNCHANGED <<workers, phase, waiting, todo, closingAll>>
  BY DEF Next, vars, threadVars, guiVars, ClosingStep, CloseAllReturns, Serve, PassOn,
         OnWorkerClosed, HandleDataReceived, OpenConnection, CloseConnection, GuiIdle
<1> QED
  BY <1>1, <1>2, <1>3, <1>4, <1>5, <1>6

-----------------------------------------------------------------------------
(* The theorems *)

LEMMA InitInv == Init => Inv
<1> SUFFICES ASSUME Init PROVE Inv
  OBVIOUS
<1>1. <<>> \in Seq(Event) /\ <<>> \in Seq(Signal) /\ Len(<<>>) = 0
  BY EmptySeq
<1>2. TypeOK
  <2>1. phase \in [Worker -> Phases] /\ 0 \in 0..MaxData
    BY BoundAssumption DEF Init, Phases
  <2>2. signals \in [Worker -> Seq(Signal)] /\ events \in Seq(Event)
    BY <1>1 DEF Init
  <2> QED
    BY <2>1, <2>2 DEF Init, TypeOK, Event
<1>3. EntryOfPort /\ RunnerIsRegistered /\ DeadEntryHasCause /\ ClosedSoFar
  BY DEF Init, EntryOfPort, RunnerIsRegistered, DeadEntryHasCause, ClosedSoFar, Registered, AtWork
<1>4. EventsKnown /\ ClosedIsLast
  BY <1>1 DEF Init, EventsKnown, ClosedIsLast, Closed, Pending, In
<1> QED
  BY <1>2, <1>3, <1>4 DEF Inv

LEMMA NextInv == Inv /\ [Next]_vars => Inv'
  BY TypeStep, EntryStep, KnownStep, ClosedLastStep, RunnerStep, DeadStep, ClosedSoFarStep DEF Inv

\* Every reachable state is well typed.
THEOREM TypeCorrect == Spec => []TypeOK
<1>1. Inv => TypeOK
  BY DEF Inv
<1> QED
  BY <1>1, InitInv, NextInv, PTL DEF Spec

\* A worker that still has work to do is the one registered under its port, unless
\* the late closed signal of an earlier worker of that port removed it.
THEOREM RunnersAreRegistered == Spec => []RunnerIsRegistered
<1>1. Inv => RunnerIsRegistered
  BY DEF Inv
<1> QED
  BY <1>1, InitInv, NextInv, PTL DEF Spec

\* A worker that emitted its closed signal stays in the dictionary only while that
\* signal waits in the event queue.
THEOREM DeadEntriesHaveCause == Spec => []DeadEntryHasCause
<1>1. Inv => DeadEntryHasCause
  BY DEF Inv
<1> QED
  BY <1>1, InitInv, NextInv, PTL DEF Spec

\* close_connection(None) returns only when every thread that is not at its end was
\* evicted by a late closed signal.
THEOREM CloseAllIsComplete == Spec => CloseAllStopsEveryone
<1>1. Inv /\ [Next]_vars =>
        [closingAll /\ ~closingAll' => \A w \in Worker : AtWork(w) => w \in evicted]_vars
  <2> SUFFICES ASSUME Inv, [Next]_vars, closingAll, ~closingAll', NEW w \in Worker, AtWork(w)
               PROVE  w \in evicted
    OBVIOUS
  <2>1. CloseAllReturns
    BY FrameOfThread
       DEF Inv, Next, vars, threadVars, guiVars, ClosingStep, WaitReturns, CloseNext, Serve,
           PassOn, OnWorkerClosed, HandleDataReceived, OpenConnection, CloseConnection, CloseAll,
           GuiIdle
  <2>2. port[w] \in Port
    BY DEF Inv, EntryOfPort, AtWork
  <2>3. workers[port[w]] # w
    BY <2>1, <2>2, NoneAssumption DEF Inv, CloseAllReturns, ClosedSoFar, Registered
  <2> QED
    BY <2>3 DEF Inv, RunnerIsRegistered
<1> QED
  BY <1>1, InitInv, NextInv, PTL DEF Spec, CloseAllStopsEveryone

\* For every number of ports and workers the dictionary and the threads agree.
THEOREM EntriesAreTrue == Spec => []EntriesMatchRunners
  BY RunnersAreRegistered, DeadEntriesHaveCause, PTL DEF EntriesMatchRunners

-----------------------------------------------------------------------------
(* The lifecycle of each thread *)

\* Before the loop a thread has emitted nothing, in it that it opened and nothing else.
LogOfPhase ==
    \A w \in Worker :
        /\ phase[w] \in {"unused", "opening", "opened"} => signals[w] = <<>>
        /\ phase[w] = "loop" => signals[w] = <<"opened">>

LEMMA LogStep == TypeOK /\ LogOfPhase /\ [Next]_vars => LogOfPhase'
<1> SUFFICES ASSUME TypeOK, LogOfPhase, [Next]_vars, NEW w \in Worker
             PROVE  /\ phase'[w] \in {"unused", "opening", "opened"} => signals'[w] = <<>>
                    /\ phase'[w] = "loop" => signals'[w] = <<"opened">>
  BY DEF LogOfPhase
<1>1. ASSUME NEW v \in Worker, Thread(v)
      PROVE  /\ phase'[w] \in {"unused", "opening", "opened"} => signals'[w] = <<>>
             /\ phase'[w] = "loop" => signals'[w] = <<"opened">>
  <2>1. CASE EnterLoop(v)
    <3>1. w = v => signals'[w] = Append(signals[w], "opened") /\ signals[w] = <<>>
                   /\ phase'[w] = "loop"
      BY <2>1 DEF EnterLoop, Emit, TypeOK, LogOfPhase
    <3>2. Append(<<>>, "opened") = <<"opened">>
      OBVIOUS
    <3>3. w # v => phase'[w] = phase[w] /\ signals'[w] = signals[w]
      BY <2>1 DEF EnterLoop, Emit, TypeOK
    <3> QED
      BY <3>1, <3>2, <3>3 DEF LogOfPhase
  <2>2. CASE ~EnterLoop(v)
    BY <1>1, <2>2 DEF Thread, OpenOk, OpenFails, Receive, IoError, LeaveLoop, CloseOk,
                      CloseRaises, Finish, Emit, threadVars, TypeOK, LogOfPhase
  <2> QED
    BY <2>1, <2>2
<1>2. ASSUME NEW p \in Port, OpenConnection(p)
      PROVE  /\ phase'[w] \in {"unused", "opening", "opened"} => signals'[w] = <<>>
             /\ phase'[w] = "loop" => signals'[w] = <<"opened">>
  BY <1>2 DEF OpenConnection, TypeOK, LogOfPhase
<1>3. CASE UNCHANGED <<phase, signals>>
  BY <1>3 DEF LogOfPhase
<1>4. \/ UNCHANGED <<phase, signals>> \/ \E p \in Port : OpenConnection(p)
      \/ \E v \in Worker : Thread(v)
  BY DEF Next, vars, threadVars, ClosingStep, WaitReturns, CloseAllReturns, CloseNext, Serve,
         PassOn, OnWorkerClosed, HandleDataReceived, CloseConnection, CloseAll
<1> QED
  BY <1>1, <1>2, <1>3, <1>4

\* A step of the controller is, seen from one worker, a step of its lifecycle or none.
LEMMA LifecycleStep ==
  ASSUME TypeOK, LogOfPhase, [Next]_vars, NEW w \in Worker
  PROVE  [Lifecycle(w)!Next]_(Lifecycle(w)!lvars)
<1> USE DEF Lifecycle!lvars
<1>1. ASSUME NEW v \in Worker, Thread(v), v # w PROVE UNCHANGED <<phase[w], signals[w]>>
  BY <1>1 DEF Thread, OpenOk, OpenFails, EnterLoop, Receive, IoError, LeaveLoop, CloseOk,
              CloseRaises, Finish, Emit, threadVars, TypeOK
<1>2. UNCHANGED <<phase[w], signals[w]>> => UNCHANGED Lifecycle(w)!lvars
  OBVIOUS
<1>3. ASSUME NEW p \in Port, OpenConnection(p) PROVE [Lifecycle(w)!Next]_(Lifecycle(w)!lvars)
  <2>1. \/ UNCHANGED <<phase[w], signals[w]>>
        \/ phase[w] = "unused" /\ phase'[w] = "opening" /\ UNCHANGED signals[w]
    BY <1>3 DEF OpenConnection, TypeOK
  <2> QED
    BY <2>1, <1>2 DEF Lifecycle!Next, Lifecycle!Start
<1>4. CASE Thread(w)
  <2>1. CASE OpenOk(w)
    BY <2>1 DEF OpenOk, TypeOK
  <2>2. CASE OpenFails(w)
    <3>1. phase[w] = "opening" /\ phase'[w] = "ending"
          /\ signals'[w] = Append(signals[w], "error")
      BY <2>2 DEF OpenFails, Emit, TypeOK
    <3> QED
      BY <3>1 DEF Lifecycle!Next, Lifecycle!Fail
  <2>3. CASE EnterLoop(w)
    <3>1. phase[w] = "opened" /\ phase'[w] = "loop"
          /\ signals'[w] = Append(signals[w], "opened")
      BY <2>3 DEF EnterLoop, Emit, TypeOK
    <3> QED
      BY <3>1 DEF Lifecycle!Next, Lifecycle!Open
  <2>4. CASE IoError(w)
    <3>1. phase[w] = "loop" /\ phase'[w] = "closing"
          /\ signals'[w] = Append(signals[w], "error") /\ signals[w] = <<"opened">>
      BY <2>4 DEF IoError, Emit, TypeOK, LogOfPhase
    <3> QED
      BY <3>1 DEF Lifecycle!Next, Lifecycle!Break
  <2>5. CASE CloseOk(w)
    <3>1. phase[w] = "closing" /\ phase'[w] = "ending"
          /\ signals'[w] = Append(signals[w], "closed")
      BY <2>5 DEF CloseOk, Emit, TypeOK
    <3> QED
      BY <3>1 DEF Lifecycle!Next, Lifecycle!Close
  <2>6. CASE CloseRaises(w)
    <3>1. phase[w] = "closing" /\ phase'[w] = "ending"
          /\ signals'[w] = Append(signals[w], "error")
      BY <2>6 DEF CloseRaises, Emit, TypeOK
    <3> QED
      BY <3>1 DEF Lifecycle!Next, Lifecycle!Close
  <2>7. CASE Receive(w)
    BY <2>7 DEF Receive, threadVars
  <2>8. CASE LeaveLoop(w)
    BY <2>8 DEF LeaveLoop, TypeOK
  <2>9. CASE Finish(w)
    BY <2>9 DEF Finish, TypeOK
  <2> QED
    BY <1>4, <2>1, <2>2, <2>3, <2>4, <2>5, <2>6, <2>7, <2>8, <2>9 DEF Thread
<1>5. CASE UNCHANGED <<phase, signals>>
  BY <1>5
<1>6. \/ UNCHANGED <<phase, signals>> \/ \E p \in Port : OpenConnection(p)
      \/ \E v \in Worker : Thread(v)
  BY DEF Next, vars, threadVars, ClosingStep, WaitReturns, CloseAllReturns, CloseNext, Serve,
         PassOn, OnWorkerClosed, HandleDataReceived, CloseConnection, CloseAll
<1> QED
  BY <1>1, <1>2, <1>3, <1>4, <1>5, <1>6

\* Whatever the controller does, every thread it starts goes through the lifecycle that
\* ConnectionWorker is shown to implement.
THEOREM ThreadsImplementLifecycle == Spec => ThreadsKeepLifecycle
<1>1. Init => LogOfPhase /\ \A w \in Worker : Lifecycle(w)!Init
  BY DEF Init, LogOfPhase, Lifecycle!Init
<1>2. TypeOK /\ LogOfPhase /\ [Next]_vars =>
        [\A w \in Worker : [Lifecycle(w)!Next]_(Lifecycle(w)!lvars)]_vars
  BY LifecycleStep
<1>3. Spec => []TypeOK
  BY TypeCorrect
<1> QED
  BY <1>1, <1>2, <1>3, LogStep, PTL DEF Spec, ThreadsKeepLifecycle

=============================================================================
