------------------------- MODULE ReceivePathProofs -------------------------
(***************************************************************************)
(* Proofs about ReceivePath, for any number of tabs, ports and inputs and  *)
(* any nesting of dispatches: first the bytes and the counters, then the   *)
(* bus (who is still due to hear an event, BusInv). Then LogView: the      *)
(* arithmetic of one trim (Limits), the rows a filter shows (FilterInv)    *)
(* and where a search goes next. Last PacketParsing, for any streams and   *)
(* sizes: the ring (RingHolds), a parser fed in pieces (SplitJoined) and   *)
(* the matcher (FoundIs).                                                  *)
(***************************************************************************)
EXTENDS ReceivePath, LogView, SequenceTheorems, FiniteSetTheorems, WellFoundedInduction, TLAPS

Event == [topic : RouterTopic \ {"port.packet_received"}]
         \cup [topic : {"port.packet_received"}, packet : Seq(Nat)]
Frame == [id : Nat, event : Event, left : Seq(Callback)]

TypeOK ==
    /\ frames \in Seq(Frame) /\ pending \in Seq(Event) /\ events \in Seq(Event)
    /\ received \in [Port -> Seq(Nat)] /\ handed \in [Port -> Seq(Nat)]
    /\ rx_buffer \in [Port -> Seq(Nat)]
    /\ counted \in [rx : Nat, tx : Nat, shown_rx : Nat, shown_tx : Nat]
    /\ rx_count \in Nat /\ tx_count \in Nat

\* What was sent is published by a handler of the event loop, whose dispatch nothing interrupts:
\* until the router is called, one byte is not counted yet.
Sent(e) == e.topic = "port.data_sent"

SentAlone ==
    /\ \A i \in 1 .. Len(pending) : ~Sent(pending[i])
    /\ \A i \in 1 .. Len(frames) : Sent(frames[i].event) =>
          Len(frames) = 1 /\ frames[i].left \in {<<"router">>, <<>>}

Uncounted == IF frames # <<>> /\ Sent(frames[1].event) /\ frames[1].left # <<>> THEN 1 ELSE 0

RxConserved == /\ \A p \in Port : received[p] = handed[p] \o rx_buffer[p]
               /\ counted.rx = counted.shown_rx + rx_count
TxConserved == counted.tx = counted.shown_tx + tx_count + Uncounted

IInv == TypeOK /\ SentAlone /\ RxConserved /\ TxConserved

-----------------------------------------------------------------------------
(* Dispatches *)

LEMMA SubscribersTyped == \A topic \in RouterTopic : Due(topic) \in Seq(Callback)
<1> DEFINE F == [RouterTopic -> Seq(Callback)]
<1>1. ASSUME NEW f \in F, NEW topic \in RouterTopic, NEW c \in Callback
      PROVE  Subscribe(f, topic, c) \in F
  <2>1. f[topic] \in Seq(Callback)
    OBVIOUS
  <2>2. Append(f[topic], c) \in Seq(Callback)
    BY <2>1
  <2> QED BY <2>1, <2>2 DEF Subscribe
<1>2. [t \in RouterTopic |-> <<>>] \in F
  OBVIOUS
<1>3. RunnerSubscribed \in F
  <2>1. "port.data_received" \in RouterTopic /\ "runner" \in Callback
    BY DEF RouterTopic, Callback
  <2> HIDE DEF F
  <2> QED BY <1>1, <1>2, <2>1 DEF RunnerSubscribed
<1>4. ASSUME NEW topic \in RouterTopic PROVE Due(topic) \in Seq(Callback)
  <2>1. "router" \in Callback
    BY DEF Callback
  <2>2. Subscribe(RunnerSubscribed, topic, "router")[topic] \in Seq(Callback)
    BY <1>1, <1>3, <2>1
  <2> QED BY <2>2 DEF Due, SubscribeEvents
<1> QED BY <1>4

\* The router is the only subscriber of what was sent.
LEMMA SentHasOneSubscriber == Due("port.data_sent") = <<"router">>
<1>1. "port.data_sent" \in RouterTopic /\ "port.data_received" \in RouterTopic
  BY DEF RouterTopic
<1>2. RunnerSubscribed["port.data_sent"] = <<>>
  BY <1>1 DEF RunnerSubscribed, Subscribe
<1>3. Subscribe(RunnerSubscribed, "port.data_sent", "router")["port.data_sent"] = <<"router">>
  <2>1. "port.data_sent" \in DOMAIN RunnerSubscribed
    BY <1>1 DEF RunnerSubscribed, Subscribe
  <2>2. ~Contains(<<>>, "router")
    BY DEF Contains
  <2> QED BY <1>2, <2>1, <2>2 DEF Subscribe
<1> QED
  BY <1>1, <1>3 DEF Due, SubscribeEvents

LEMMA DispatchesTyped ==
    ASSUME events \in Seq(Event), NEW es \in Seq(Event)
    PROVE  /\ Dispatches(es) \in Seq(Frame) /\ Len(Dispatches(es)) = Len(es)
           /\ \A i \in 1 .. Len(es) : /\ Dispatches(es)[i].event = es[i]
                                      /\ Dispatches(es)[i].left = Due(es[i].topic)
<1>1. ASSUME NEW i \in 1 .. Len(es)
      PROVE  [id |-> Len(events) + i, event |-> es[i], left |-> Due(es[i].topic)] \in Frame
  <2>1. es[i] \in Event
    BY ElementOfSeq
  <2>2. es[i].topic \in RouterTopic
    BY <2>1 DEF Event, RouterTopic
  <2>3. Due(es[i].topic) \in Seq(Callback)
    BY <2>2, SubscribersTyped
  <2> QED BY <2>1, <2>3 DEF Frame
<1>2. Len(es) \in Nat
  OBVIOUS
<1>3. Dispatches(es) \in Seq(Frame)
  BY <1>1, <1>2 DEF Dispatches
<1> QED
  BY <1>2, <1>3 DEF Dispatches

\* publish() of events that are not sent data, on the GUI thread.
LEMMA PublishOther ==
    ASSUME IInv, NEW es \in Seq(Event), \A i \in 1 .. Len(es) : ~Sent(es[i]),
           \A i \in 1 .. Len(frames) : ~Sent(frames[i].event), PublishHere(es)
    PROVE  /\ frames' \in Seq(Frame) /\ events' \in Seq(Event)
           /\ \A i \in 1 .. Len(frames') : ~Sent(frames'[i].event)
<1> DEFINE d == Dispatches(es)
<1>1. /\ d \in Seq(Frame) /\ Len(d) = Len(es) /\ frames \in Seq(Frame)
      /\ \A i \in 1 .. Len(d) : ~Sent(d[i].event)
  BY DispatchesTyped DEF IInv, TypeOK
<1>2. frames' = d \o frames
  BY DEF PublishHere
<1> HIDE DEF d
<1>3. frames' \in Seq(Frame)
  BY <1>1, <1>2
<1>4. ASSUME NEW i \in 1 .. Len(frames') PROVE ~Sent(frames'[i].event)
  <2>1. frames'[i] = IF i <= Len(d) THEN d[i] ELSE frames[i - Len(d)]
    BY <1>1, <1>2
  <2>2. i <= Len(d) => i \in 1 .. Len(d)
    BY <1>1
  <2>3. ~(i <= Len(d)) => i - Len(d) \in 1 .. Len(frames)
    BY <1>1, <1>2
  <2> QED BY <1>1, <2>1, <2>2, <2>3
<1>5. events' \in Seq(Event)
  <2>1. events' = events \o es
    BY DEF PublishHere
  <2> QED BY <2>1 DEF IInv, TypeOK
<1> QED
  BY <1>3, <1>4, <1>5

\* A dispatch calls its next subscriber: the one of sent data, or any other.
LEMMA CallOther ==
    ASSUME IInv, NEW es \in Seq(Event), \A i \in 1 .. Len(es) : ~Sent(es[i]), NEW raises,
           ~Sent(frames[1].event), CallNext(es, raises)
    PROVE  /\ frames' \in Seq(Frame) /\ events' \in Seq(Event)
           /\ \A i \in 1 .. Len(frames') : ~Sent(frames'[i].event)
<1> DEFINE d == Dispatches(es)
           top == [frames[1] EXCEPT !.left = Tail(frames[1].left)]
           rest == <<top>> \o Tail(frames)
<1>1. /\ d \in Seq(Frame) /\ Len(d) = Len(es) /\ frames \in Seq(Frame) /\ frames # <<>>
      /\ \A i \in 1 .. Len(d) : ~Sent(d[i].event)
  BY DispatchesTyped DEF IInv, TypeOK, CallNext
<1>2. frames[1] \in Frame /\ Len(frames) \in Nat \ {0}
  BY <1>1
<1>3. frames[1].left # <<>> /\ frames' = d \o rest /\ events' = events \o es
  <2>1. Head(frames) = frames[1]
    BY <1>1
  <2> HIDE DEF d
  <2>2. LeftAfter(Head(frames), raises) = Tail(frames[1].left)
    BY <2>1 DEF LeftAfter
  <2>3. frames[1].left # <<>>
    BY <2>1 DEF CallNext
  <2>4. /\ frames' = Dispatches(es) \o (<<[Head(frames) EXCEPT !.left = LeftAfter(Head(frames), raises)]>>
                                        \o Tail(frames))
        /\ events' = events \o es
    BY Zenon DEF CallNext
  <2> QED BY <2>1, <2>2, <2>3, <2>4, Zenon DEF d
<1>4. top \in Frame /\ top.event = frames[1].event
  <2>1. frames[1].left \in Seq(Callback)
    BY <1>2 DEF Frame
  <2>2. Tail(frames[1].left) \in Seq(Callback)
    BY <1>3, <2>1
  <2> QED BY <1>2, <2>2 DEF Frame
<1>5. \A i \in 1 .. Len(frames) : ~Sent(frames[i].event)
  <2> SUFFICES ASSUME NEW i \in 1 .. Len(frames), Sent(frames[i].event) PROVE FALSE
    OBVIOUS
  <2>1. Len(frames) = 1
    BY DEF IInv, SentAlone
  <2> QED BY <2>1, <1>2
<1>6. /\ rest \in Seq(Frame) /\ Len(rest) = Len(frames)
      /\ \A i \in 1 .. Len(frames) : rest[i] = IF i = 1 THEN top ELSE frames[i]
  <2>1. Tail(frames) \in Seq(Frame) /\ Len(Tail(frames)) = Len(frames) - 1
        /\ \A i \in 1 .. Len(frames) - 1 : Tail(frames)[i] = frames[i + 1]
    BY <1>1, HeadTailProperties
  <2> HIDE DEF top
  <2>2. <<top>> \in Seq(Frame) /\ Len(<<top>>) = 1 /\ <<top>>[1] = top
    BY <1>4
  <2>3. rest \in Seq(Frame) /\ Len(rest) = 1 + (Len(frames) - 1)
        /\ \A i \in 1 .. 1 + (Len(frames) - 1) :
              rest[i] = IF i <= 1 THEN <<top>>[i] ELSE Tail(frames)[i - 1]
    BY <2>1, <2>2, ConcatProperties
  <2>4. ASSUME NEW i \in 1 .. Len(frames) PROVE rest[i] = IF i = 1 THEN top ELSE frames[i]
    <3>1. CASE i = 1
      BY <1>2, <2>2, <2>3, <3>1
    <3>2. CASE i # 1
      <4>1. i - 1 \in 1 .. Len(frames) - 1 /\ ~(i <= 1) /\ (i - 1) + 1 = i
            /\ i \in 1 .. 1 + (Len(frames) - 1)
        BY <1>2, <3>2
      <4>2. rest[i] = Tail(frames)[i - 1]
        BY <2>3, <4>1
      <4> QED BY <2>1, <3>2, <4>1, <4>2
    <3> QED BY <3>1, <3>2
  <2> QED BY <1>2, <2>3, <2>4
<1>7. \A i \in 1 .. Len(rest) : ~Sent(rest[i].event)
  BY <1>2, <1>4, <1>5, <1>6 DEF Sent
<1> HIDE DEF d, rest
<1>8. frames' \in Seq(Frame) /\ Len(frames') = Len(d) + Len(rest)
  <2>1. /\ d \o rest \in Seq(Frame) /\ Len(d \o rest) = Len(d) + Len(rest)
    <3>1. d \in Seq(Frame) /\ rest \in Seq(Frame)
      BY <1>1, <1>6
    <3> QED BY <3>1, ConcatProperties, Zenon
  <2> QED BY <1>3, <2>1
<1>9. ASSUME NEW i \in 1 .. Len(frames') PROVE ~Sent(frames'[i].event)
  <2>1. frames'[i] = IF i <= Len(d) THEN d[i] ELSE rest[i - Len(d)]
    BY <1>1, <1>3, <1>6, <1>8
  <2>2. i <= Len(d) => i \in 1 .. Len(d)
    BY <1>1
  <2>3. ~(i <= Len(d)) => i - Len(d) \in 1 .. Len(rest)
    BY <1>1, <1>6, <1>8
  <2> QED BY <1>1, <1>7, <2>1, <2>2, <2>3
<1>10. events' \in Seq(Event)
  BY <1>3 DEF IInv, TypeOK
<1> QED
  BY <1>8, <1>9, <1>10

LEMMA CallSent ==
    ASSUME IInv, NEW raises, frames # <<>>, Sent(frames[1].event), CallNext(<<>>, raises)
    PROVE  /\ frames' \in Seq(Frame) /\ events' = events
           /\ frames[1].left = <<"router">> /\ Len(frames') = 1 /\ frames'[1].left = <<>>
<1>1. frames \in Seq(Frame) /\ frames[1] \in Frame /\ events \in Seq(Event)
  BY DEF IInv, TypeOK
<1>2. Len(frames) = 1 /\ frames[1].left = <<"router">>
  <2>1. 1 \in 1 .. Len(frames)
    BY <1>1
  <2>2. frames[1].left \in {<<"router">>, <<>>} /\ Len(frames) = 1
    BY <2>1 DEF IInv, SentAlone
  <2>3. frames[1].left # <<>>
    BY <1>1 DEF CallNext
  <2> QED BY <2>2, <2>3
<1>3. Tail(frames) = <<>>
  <2>1. frames # <<>> /\ Tail(frames) \in Seq(Frame) /\ Len(Tail(frames)) = Len(frames) - 1
    BY <1>1, HeadTailProperties
  <2>2. Len(Tail(frames)) = 0
    BY <1>2, <2>1
  <2> QED BY <2>1, <2>2, EmptySeq
<1>4. Dispatches(<<>>) = <<>>
  BY <1>1, DispatchesTyped DEF Dispatches
<1> DEFINE top == [frames[1] EXCEPT !.left = <<>>]
<1>5. Tail(frames[1].left) = <<>>
  BY <1>2
<1>6. frames' = <<top>> /\ events' = events
  <2>1. Head(frames) = frames[1]
    BY <1>1
  <2>2. /\ frames' = Dispatches(<<>>) \o (<<[Head(frames) EXCEPT !.left = LeftAfter(Head(frames), raises)]>>
                                          \o Tail(frames))
        /\ events' = events \o <<>>
    BY Zenon DEF CallNext
  <2>3. LeftAfter(Head(frames), raises) = <<>>
    BY <2>1, <1>5 DEF LeftAfter
  <2>4. top \in Frame
    <3>1. <<>> \in Seq(Callback)
      OBVIOUS
    <3> QED BY <1>1, <3>1 DEF Frame
  <2>5. frames' = <<>> \o (<<top>> \o <<>>)
    BY <1>3, <1>4, <2>1, <2>2, <2>3, Zenon
  <2> HIDE DEF top
  <2>6. <<top>> \o <<>> = <<top>> /\ <<>> \o <<top>> = <<top>>
    <3>1. <<top>> \in Seq(Frame)
      BY <2>4
    <3> QED BY <3>1
  <2>7. events \o <<>> = events
    BY <1>1
  <2> QED BY <2>2, <2>5, <2>6, <2>7, Zenon
<1>7. top \in Frame /\ top.left = <<>>
  <2>1. <<>> \in Seq(Callback)
    OBVIOUS
  <2> QED BY <1>1, <2>1 DEF Frame
<1> HIDE DEF top
<1> QED
  BY <1>2, <1>6, <1>7

-----------------------------------------------------------------------------
(* Steps *)

\* Received and counted, and nothing of the bus.
RxVars == <<received, handed, rx_buffer, rx_count, counted>>
OtherVars == <<RxVars, tx_count>>

LEMMA TwoInARow == ASSUME NEW a, NEW b PROVE <<a>> \o <<b>> = <<a, b>>
<1> DEFINE S == {a, b}
<1>1. <<a>> \in Seq(S) /\ <<b>> \in Seq(S) /\ <<a, b>> \in Seq(S) /\ b \in S
      /\ Len(<<a>>) = 1 /\ Len(<<b>>) = 1 /\ Len(<<a, b>>) = 2
  OBVIOUS
<1> HIDE DEF S
<1>2. Append(<<a>>, b) = <<a>> \o <<b>>
  BY <1>1, AppendIsConcat
<1>3. /\ Append(<<a>>, b) \in Seq(S) /\ Len(Append(<<a>>, b)) = 2
      /\ Append(<<a>>, b)[1] = a /\ Append(<<a>>, b)[2] = b
  BY <1>1, AppendProperties
<1>4. \A i \in 1 .. 2 : Append(<<a>>, b)[i] = <<a, b>>[i]
  BY <1>3
<1> QED
  BY <1>1, <1>2, <1>3, <1>4, SeqEqual

LEMMA RxTyped ==
    ASSUME IInv, NEW p \in Port, NEW c \in Nat
    PROVE  /\ Append(received[p], c) \in Seq(Nat) /\ Append(rx_buffer[p], c) \in Seq(Nat)
           /\ Append(received[p], c) = handed[p] \o Append(rx_buffer[p], c)
<1>1. /\ received[p] \in Seq(Nat) /\ handed[p] \in Seq(Nat) /\ rx_buffer[p] \in Seq(Nat)
      /\ received[p] = handed[p] \o rx_buffer[p]
  BY DEF IInv, TypeOK, RxConserved
<1>2. Append(handed[p] \o rx_buffer[p], c) = handed[p] \o Append(rx_buffer[p], c)
  <2> DEFINE h == handed[p]  b == rx_buffer[p]
  <2>1. h \in Seq(Nat) /\ b \in Seq(Nat) /\ <<c>> \in Seq(Nat)
    BY <1>1
  <2> HIDE DEF h, b
  <2>2. h \o b \in Seq(Nat)
    BY <2>1
  <2>3. Append(h \o b, c) = (h \o b) \o <<c>> /\ Append(b, c) = b \o <<c>>
    BY <2>1, <2>2, AppendIsConcat, SMTT(30)
  <2>4. (h \o b) \o <<c>> = h \o (b \o <<c>>)
    BY <2>1, ConcatAssociative
  <2> QED BY <2>3, <2>4 DEF h, b
<1> QED
  BY <1>1, <1>2

\* Nothing of what was sent is in progress while the event loop is idle.
LEMMA IdleCounted == ASSUME IInv, Idle PROVE Uncounted = 0 /\ \A i \in 1 .. Len(frames) : ~Sent(frames[i].event)
<1>1. frames = <<>>
  BY DEF Idle
<1> QED
  BY <1>1 DEF Uncounted

\* Dispatches of other events leave nothing uncounted.
LEMMA NoneUncounted ==
    ASSUME NEW f \in Seq(Frame), \A i \in 1 .. Len(f) : ~Sent(f[i].event)
    PROVE  ~(f # <<>> /\ Sent(f[1].event) /\ f[1].left # <<>>)
  OBVIOUS

LEMMA OnePacket ==
    ASSUME NEW whole, NEW piece, Len(whole) = 1, whole[1] = piece
    PROVE  [k \in 1 .. Len(whole) |-> [topic |-> "port.packet_received", packet |-> whole[k]]]
             = <<[topic |-> "port.packet_received", packet |-> piece]>>
  OBVIOUS

\* What is published for a chunk: the data and the packet it makes.
LEMMA ReceivedEvents ==
    ASSUME NEW chunk \in Nat, NEW whole, whole = Parse([type |-> "Raw"], <<>>, <<chunk>>).packets,
           NEW es, es = <<[topic |-> "port.data_received"]>>
                        \o [k \in 1 .. Len(whole) |-> [topic |-> "port.packet_received", packet |-> whole[k]]]
    PROVE  es \in Seq(Event) /\ \A i \in 1 .. Len(es) : ~Sent(es[i])
<1>1. chunk \in Nat /\ whole = << <<chunk>> >>
  <2>1. <<chunk>> # <<>>
    OBVIOUS
  <2> QED BY <2>1 DEF Parse, RawParse
<1>2. es \in Seq(Event) /\ \A i \in 1 .. Len(es) : ~Sent(es[i])
  <2>1. es = <<[topic |-> "port.data_received"],
               [topic |-> "port.packet_received", packet |-> <<chunk>>]>>
    <3>0. PICK piece : piece = <<chunk>>
      BY SMTT(30)
    <3>1. Len(whole) = 1 /\ whole[1] = piece
      BY <1>1, <3>0, SMTT(30)
    <3>4. [k \in 1 .. Len(whole) |-> [topic |-> "port.packet_received", packet |-> whole[k]]]
            = <<[topic |-> "port.packet_received", packet |-> piece]>>
      BY <3>1, OnePacket
    <3>2. [k \in 1 .. Len(whole) |-> [topic |-> "port.packet_received", packet |-> whole[k]]]
            = <<[topic |-> "port.packet_received", packet |-> <<chunk>>]>>
      BY <3>0, <3>4
    <3>3. <<[topic |-> "port.data_received"]>>
             \o <<[topic |-> "port.packet_received", packet |-> <<chunk>>]>>
            = <<[topic |-> "port.data_received"],
                [topic |-> "port.packet_received", packet |-> <<chunk>>]>>
      BY TwoInARow, Zenon
    <3> QED BY <3>2, <3>3, Zenon
  <2>2. [topic |-> "port.data_received"] \in Event
    BY DEF Event, RouterTopic
  <2>3. [topic |-> "port.packet_received", packet |-> <<chunk>>] \in Event
    BY <1>1 DEF Event, RouterTopic
  <2> DEFINE a == [topic |-> "port.data_received"]
             b == [topic |-> "port.packet_received", packet |-> <<chunk>>]
  <2>4. ~Sent(a) /\ ~Sent(b)
    BY DEF Sent
  <2>5. es = <<a, b>> /\ a \in Event /\ b \in Event
    BY <2>1, <2>2, <2>3, Zenon
  <2> HIDE DEF a, b
  <2>6. <<a, b>> \in Seq(Event) /\ Len(<<a, b>>) = 2 /\ <<a, b>>[1] = a /\ <<a, b>>[2] = b
    BY <2>5
  <2>7. \A i \in 1 .. Len(<<a, b>>) : i = 1 \/ i = 2
    BY <2>6
  <2> QED BY <2>4, <2>5, <2>6, <2>7
<1> QED
  BY <1>2

LEMMA ReceiveStep == ASSUME IInv, NEW p \in Port, HandleDataReceived(p) PROVE IInv'
<1> DEFINE chunk == counted.rx + 1
           whole == Parse([type |-> "Raw"], <<>>, <<chunk>>).packets
           es == <<[topic |-> "port.data_received"]>>
                 \o [k \in 1 .. Len(whole) |-> [topic |-> "port.packet_received", packet |-> whole[k]]]
<1>1. chunk \in Nat /\ whole = << <<chunk>> >>
  <2>1. chunk \in Nat
    BY DEF IInv, TypeOK
  <2>2. <<chunk>> # <<>>
    OBVIOUS
  <2> HIDE DEF chunk
  <2> QED BY <2>1, <2>2 DEF Parse, RawParse
<1> HIDE DEF chunk, whole
<1>2. es \in Seq(Event) /\ \A i \in 1 .. Len(es) : ~Sent(es[i])
  BY <1>1, ReceivedEvents DEF whole
<1>3. /\ Idle /\ PublishHere(es) /\ UNCHANGED <<pending, handed, tx_count>>
      /\ rx_count' = rx_count + 1 /\ rx_buffer' = [rx_buffer EXCEPT ![p] = Append(@, chunk)]
      /\ received' = [received EXCEPT ![p] = Append(@, chunk)]
      /\ counted' = [counted EXCEPT !.rx = chunk]
  BY DEF HandleDataReceived, Input, OnFastDataReceived, chunk, whole
<1> HIDE DEF es
<1>4. /\ frames' \in Seq(Frame) /\ events' \in Seq(Event)
      /\ \A i \in 1 .. Len(frames') : ~Sent(frames'[i].event)
  BY <1>2, <1>3, IdleCounted, PublishOther
<1>5. TypeOK'
  <2>1. counted' \in [rx : Nat, tx : Nat, shown_rx : Nat, shown_tx : Nat]
    BY <1>1, <1>3 DEF IInv, TypeOK
  <2>2. received' \in [Port -> Seq(Nat)] /\ rx_buffer' \in [Port -> Seq(Nat)]
    <3>1. Append(received[p], chunk) \in Seq(Nat) /\ Append(rx_buffer[p], chunk) \in Seq(Nat)
      BY <1>1, RxTyped
    <3>2. received \in [Port -> Seq(Nat)] /\ rx_buffer \in [Port -> Seq(Nat)]
      BY DEF IInv, TypeOK
    <3> QED BY <1>3, <3>1, <3>2
  <2>3. handed' \in [Port -> Seq(Nat)] /\ pending' \in Seq(Event) /\ rx_count' \in Nat /\ tx_count' \in Nat
    BY <1>3 DEF IInv, TypeOK
  <2> QED BY <1>4, <2>1, <2>2, <2>3 DEF TypeOK
<1>6. SentAlone'
  BY <1>3, <1>4 DEF IInv, SentAlone
<1>7. RxConserved'
  <2>1. \A q \in Port : received'[q] = handed'[q] \o rx_buffer'[q]
    BY <1>1, <1>3, RxTyped DEF IInv, TypeOK, RxConserved
  <2>2. counted'.rx = counted'.shown_rx + rx_count'
    BY <1>3 DEF IInv, TypeOK, RxConserved, chunk
  <2> QED BY <2>1, <2>2 DEF RxConserved
<1>8. TxConserved'
  <2>1. Uncounted' = 0 /\ Uncounted = 0
    BY <1>3, <1>4, NoneUncounted, IdleCounted DEF Uncounted
  <2> QED BY <1>3, <2>1 DEF IInv, TypeOK, TxConserved
<1> QED BY <1>5, <1>6, <1>7, <1>8 DEF IInv

LEMMA SentStep == ASSUME IInv, DataSent PROVE IInv'
<1> DEFINE e == [topic |-> "port.data_sent"]
<1>1. e \in Event /\ Sent(e) /\ <<e>> \in Seq(Event)
  BY DEF Event, RouterTopic, Sent
<1>2. /\ frames = <<>> /\ PublishHere(<<e>>) /\ UNCHANGED <<pending, received, handed, rx_buffer, rx_count, tx_count>>
      /\ counted' = [counted EXCEPT !.tx = @ + 1]
  BY DEF DataSent, Input, Idle, handlerVars
<1>3. /\ Dispatches(<<e>>) \in Seq(Frame) /\ Len(Dispatches(<<e>>)) = 1
      /\ Dispatches(<<e>>)[1].event = e /\ Dispatches(<<e>>)[1].left = <<"router">>
  <2>1. Len(<<e>>) = 1 /\ <<e>>[1] = e /\ events \in Seq(Event) /\ 1 \in 1 .. 1
    BY DEF IInv, TypeOK
  <2>2. e.topic = "port.data_sent"
    OBVIOUS
  <2> HIDE DEF e
  <2> QED BY <1>1, <2>1, <2>2, DispatchesTyped, SentHasOneSubscriber
<1>4. frames' = Dispatches(<<e>>) /\ events' \in Seq(Event)
  BY <1>1, <1>2, <1>3 DEF PublishHere, IInv, TypeOK
<1> HIDE DEF e
<1>5. TypeOK'
  <2>1. counted' \in [rx : Nat, tx : Nat, shown_rx : Nat, shown_tx : Nat]
    <3>1. counted \in [rx : Nat, tx : Nat, shown_rx : Nat, shown_tx : Nat]
      BY DEF IInv, TypeOK
    <3>2. counted.tx + 1 \in Nat
      BY <3>1
    <3> QED BY <1>2, <3>1, <3>2
  <2>2. frames' \in Seq(Frame)
    BY <1>3, <1>4
  <2>3. /\ received' \in [Port -> Seq(Nat)] /\ handed' \in [Port -> Seq(Nat)]
        /\ rx_buffer' \in [Port -> Seq(Nat)] /\ pending' \in Seq(Event)
        /\ rx_count' \in Nat /\ tx_count' \in Nat
    BY <1>2 DEF IInv, TypeOK
  <2> QED BY <1>4, <2>1, <2>2, <2>3 DEF TypeOK
<1>6. SentAlone'
  BY <1>2, <1>3, <1>4 DEF IInv, SentAlone
<1>7. RxConserved'
  BY <1>2 DEF IInv, TypeOK, RxConserved
<1>8. TxConserved'
  <2>1. Uncounted = 0 /\ Uncounted' = 1
    BY <1>1, <1>2, <1>3, <1>4 DEF Uncounted
  <2>2. counted'.tx = counted.tx + 1 /\ counted'.shown_tx = counted.shown_tx
    BY <1>2 DEF IInv, TypeOK
  <2> QED BY <1>2, <2>1, <2>2 DEF IInv, TypeOK, TxConserved
<1> QED BY <1>5, <1>6, <1>7, <1>8 DEF IInv

\* An event that is published beside others: a closed port, a macro, and what threads report.
LEMMA PublishStep ==
    ASSUME IInv, NEW topic \in RouterTopic \ {"port.data_sent", "port.packet_received"}, Idle,
           PublishHere(<<[topic |-> topic]>>), UNCHANGED <<pending, RxVars, tx_count>>
    PROVE  IInv'
<1> DEFINE e == [topic |-> topic]
<1>1. e \in Event /\ ~Sent(e)
  BY DEF Event, Sent
<1> HIDE DEF e
<1>2. <<e>> \in Seq(Event) /\ \A i \in 1 .. Len(<<e>>) : ~Sent(<<e>>[i])
  BY <1>1
<1>3. /\ frames' \in Seq(Frame) /\ events' \in Seq(Event)
      /\ \A i \in 1 .. Len(frames') : ~Sent(frames'[i].event)
  BY <1>2, IdleCounted, PublishOther DEF e
<1>4. Uncounted = 0 /\ Uncounted' = 0
  BY <1>3, NoneUncounted, IdleCounted DEF Uncounted
<1> QED
  BY <1>3, <1>4 DEF RxVars, IInv, TypeOK, SentAlone, RxConserved, TxConserved

LEMMA ThreadStep == ASSUME IInv, ThreadPublishes PROVE IInv'
<1>1. PICK topic \in {"macro.error", "file.error"} : PublishThere([topic |-> topic])
  BY DEF ThreadPublishes
<1> DEFINE e == [topic |-> topic]
<1>2. e \in Event /\ ~Sent(e)
  BY DEF Event, Sent, RouterTopic
<1>3. pending' = Append(pending, e)
  BY <1>1 DEF PublishThere
<1>4. UNCHANGED <<frames, events, RxVars, tx_count>>
  BY DEF ThreadPublishes, handlerVars, historyVars, RxVars
<1> HIDE DEF e
<1>5. pending' \in Seq(Event) /\ \A i \in 1 .. Len(pending') : ~Sent(pending'[i])
  <2>1. pending \in Seq(Event) /\ \A i \in 1 .. Len(pending) : ~Sent(pending[i])
    BY DEF IInv, TypeOK, SentAlone
  <2>2. /\ pending' \in Seq(Event) /\ Len(pending') = Len(pending) + 1
        /\ \A i \in 1 .. Len(pending) : pending'[i] = pending[i]
        /\ pending'[Len(pending) + 1] = e
    BY <1>2, <1>3, <2>1, AppendProperties
  <2>3. Len(pending) \in Nat
    BY <2>1
  <2>4. \A i \in 1 .. Len(pending') : i = Len(pending) + 1 \/ i \in 1 .. Len(pending)
    BY <2>2, <2>3
  <2> QED BY <1>2, <2>1, <2>2, <2>4
<1> QED
  BY <1>4, <1>5 DEF RxVars, IInv, TypeOK, SentAlone, RxConserved, TxConserved, Uncounted

LEMMA CallStep == ASSUME IInv, CallSubscriber PROVE IInv'
<1> DEFINE e == Head(frames).event  c == Head(Head(frames).left)
<1>1. /\ frames \in Seq(Frame) /\ frames # <<>> /\ Head(frames) = frames[1] /\ 1 \in 1 .. Len(frames)
      /\ UNCHANGED pending /\ Called(c, e)
  BY DEF CallSubscriber, IInv, TypeOK
<1>2. CASE Sent(frames[1].event)
  <2>1. frames[1].left = <<"router">>
    <3>1. frames[1].left \in {<<"router">>, <<>>}
      BY <1>1, <1>2 DEF IInv, SentAlone
    <3> QED BY <1>1, <3>1 DEF CallSubscriber
  <2>2. c = "router" /\ e.topic = "port.data_sent"
    BY <1>1, <1>2, <2>1 DEF Sent
  <2>3. /\ CallNext(<<>>, FALSE) /\ tx_count' = tx_count + 1
        /\ UNCHANGED <<RxVars>>
    BY <1>1, <2>2 DEF Called, historyVars, RxVars
  <2>4. /\ frames' \in Seq(Frame) /\ events' = events /\ Len(frames') = 1 /\ frames'[1].left = <<>>
    BY <1>1, <1>2, <2>3, CallSent
  <2>5. Uncounted = 1 /\ Uncounted' = 0
    BY <1>1, <1>2, <2>1, <2>4, SMTT(30) DEF Uncounted
  <2>6. TypeOK' /\ SentAlone' /\ RxConserved'
    BY <1>1, <2>3, <2>4 DEF RxVars, IInv, TypeOK, SentAlone, RxConserved
  <2>7. TxConserved'
    BY <2>3, <2>5 DEF RxVars, IInv, TypeOK, TxConserved
  <2> QED BY <2>6, <2>7 DEF IInv
<1>3. CASE ~Sent(frames[1].event)
  <2>1. /\ \E es \in {<<>>, <<[topic |-> "macro.finished"]>>}, raises \in BOOLEAN : CallNext(es, raises)
        /\ UNCHANGED <<RxVars, tx_count>>
    <3>1. e.topic # "port.data_sent"
      BY <1>1, <1>3 DEF Sent
    <3>2. CASE c = "router" /\ e.topic = "port.packet_received"
      BY <1>1, <3>1, <3>2 DEF Called, handlerVars, historyVars, RxVars
    <3>3. CASE c = "router" /\ e.topic = "port.closed"
      BY <1>1, <3>1, <3>3 DEF Called, handlerVars, historyVars, RxVars
    <3>4. CASE ~(c = "router" /\ e.topic \in {"port.packet_received", "port.closed"})
      BY <1>1, <3>1, <3>4 DEF Called, handlerVars, historyVars, RxVars
    <3> QED BY <3>2, <3>3, <3>4
  <2>2. PICK es \in {<<>>, <<[topic |-> "macro.finished"]>>}, raises \in BOOLEAN : CallNext(es, raises)
    BY <2>1
  <2>3. es \in Seq(Event) /\ \A i \in 1 .. Len(es) : ~Sent(es[i])
    <3> DEFINE f == [topic |-> "macro.finished"]
    <3>1. f \in Event /\ ~Sent(f)
      BY DEF Event, RouterTopic, Sent
    <3>2. es = <<>> \/ es = <<f>>
      OBVIOUS
    <3> HIDE DEF f
    <3>3. CASE es = <<>>
      BY <3>3
    <3>4. CASE es = <<f>>
      <4>1. <<f>> \in Seq(Event) /\ Len(<<f>>) = 1 /\ <<f>>[1] = f
        BY <3>1
      <4> QED BY <3>1, <3>4, <4>1
    <3> QED BY <3>2, <3>3, <3>4
  <2>4. /\ frames' \in Seq(Frame) /\ events' \in Seq(Event)
        /\ \A i \in 1 .. Len(frames') : ~Sent(frames'[i].event)
    BY <1>3, <2>2, <2>3, CallOther
  <2>5. Uncounted = 0 /\ Uncounted' = 0
    BY <1>3, <2>4, NoneUncounted DEF Uncounted
  <2> QED
    BY <1>1, <2>1, <2>4, <2>5 DEF RxVars, IInv, TypeOK, SentAlone, RxConserved, TxConserved
<1> QED BY <1>2, <1>3

LEMMA ServeStep == ASSUME IInv, ServeBus PROVE IInv'
<1>1. UNCHANGED <<RxVars, tx_count>>
  BY DEF ServeBus, handlerVars, historyVars, RxVars
<1>2. CASE DispatchEvent
  <2> DEFINE e == Head(pending)
  <2>1. pending \in Seq(Event) /\ pending # <<>> /\ Len(pending) \in Nat \ {0}
    BY <1>2 DEF DispatchEvent, IInv, TypeOK
  <2>2. e \in Event /\ e = pending[1] /\ ~Sent(e)
    BY <2>1 DEF IInv, SentAlone
  <2>3. /\ Tail(pending) \in Seq(Event) /\ Len(Tail(pending)) = Len(pending) - 1
        /\ \A i \in 1 .. Len(pending) - 1 : Tail(pending)[i] = pending[i + 1]
    BY <2>1, HeadTailProperties
  <2>4. pending' = Tail(pending) /\ PublishHere(<<e>>) /\ Idle
    BY <1>2 DEF DispatchEvent
  <2> HIDE DEF e
  <2>5. <<e>> \in Seq(Event) /\ \A i \in 1 .. Len(<<e>>) : ~Sent(<<e>>[i])
    BY <2>2
  <2>6. /\ frames' \in Seq(Frame) /\ events' \in Seq(Event)
        /\ \A i \in 1 .. Len(frames') : ~Sent(frames'[i].event)
    BY <2>4, <2>5, IdleCounted, PublishOther
  <2>7. Uncounted = 0 /\ Uncounted' = 0
    BY <2>4, <2>6, NoneUncounted, IdleCounted DEF Uncounted
  <2>8. \A i \in 1 .. Len(pending') : ~Sent(pending'[i])
    <3> SUFFICES ASSUME NEW i \in 1 .. Len(pending') PROVE ~Sent(pending'[i])
      OBVIOUS
    <3>1. i + 1 \in 1 .. Len(pending) /\ pending'[i] = pending[i + 1]
      BY <2>1, <2>3, <2>4
    <3> QED BY <3>1 DEF IInv, SentAlone
  <2> QED
    BY <1>1, <2>3, <2>4, <2>6, <2>7, <2>8
    DEF RxVars, IInv, TypeOK, SentAlone, RxConserved, TxConserved
<1>3. CASE DispatchEnds
  <2>1. /\ frames \in Seq(Frame) /\ frames # <<>> /\ Len(frames) \in Nat \ {0}
        /\ frames[1].left = <<>> /\ frames' = Tail(frames) /\ UNCHANGED <<pending, events>>
    BY <1>3 DEF DispatchEnds, IInv, TypeOK
  <2>2. /\ frames' \in Seq(Frame) /\ Len(frames') = Len(frames) - 1
        /\ \A i \in 1 .. Len(frames) - 1 : frames'[i] = frames[i + 1]
    BY <2>1, HeadTailProperties
  <2>3. ASSUME NEW i \in 1 .. Len(frames') PROVE ~Sent(frames'[i].event)
    <3>1. i + 1 \in 1 .. Len(frames) /\ frames'[i] = frames[i + 1] /\ Len(frames) # 1
      BY <2>1, <2>2
    <3> QED BY <3>1 DEF IInv, SentAlone
  <2>4. Uncounted = 0
    BY <2>1 DEF Uncounted
  <2>5. Uncounted' = 0
    BY <2>2, <2>3, NoneUncounted DEF Uncounted
  <2> QED
    BY <1>1, <2>1, <2>2, <2>3, <2>4, <2>5
    DEF RxVars, IInv, TypeOK, SentAlone, RxConserved, TxConserved
<1> QED BY <1>2, <1>3 DEF ServeBus

\* What the handler buffered goes to the view as a whole.
LEMMA FlushStep == ASSUME IInv, FlushRxBuffer PROVE IInv'
<1>1. /\ handed' = [p \in Port |-> IF p \in PendingPorts THEN handed[p] \o rx_buffer[p] ELSE handed[p]]
      /\ rx_buffer' = [p \in Port |-> IF p \in PendingPorts THEN <<>> ELSE rx_buffer[p]]
      /\ UNCHANGED <<frames, pending, events, received, rx_count, tx_count, counted>>
  BY DEF FlushRxBuffer, busVars
<1>2. ASSUME NEW p \in Port
      PROVE  /\ handed'[p] \in Seq(Nat) /\ rx_buffer'[p] \in Seq(Nat)
             /\ received[p] = handed'[p] \o rx_buffer'[p]
  <2> DEFINE h == handed[p]  b == rx_buffer[p]
  <2>1. h \in Seq(Nat) /\ b \in Seq(Nat) /\ received[p] = h \o b
    BY DEF IInv, TypeOK, RxConserved
  <2>2. CASE p \in PendingPorts
    <3>1. handed'[p] = h \o b /\ rx_buffer'[p] = <<>>
      BY <1>1, <2>2
    <3> HIDE DEF h, b
    <3>2. h \o b \in Seq(Nat)
      BY <2>1
    <3>3. (h \o b) \o <<>> = h \o b
      BY <3>2, ConcatEmptySeq
    <3> QED BY <2>1, <3>1, <3>2, <3>3
  <2>3. CASE p \notin PendingPorts
    BY <1>1, <2>1, <2>3
  <2> QED BY <2>2, <2>3
<1>3. handed' \in [Port -> Seq(Nat)] /\ rx_buffer' \in [Port -> Seq(Nat)]
  <2>1. DOMAIN handed' = Port /\ DOMAIN rx_buffer' = Port
        /\ handed' = [p \in Port |-> handed'[p]] /\ rx_buffer' = [p \in Port |-> rx_buffer'[p]]
    BY <1>1
  <2> QED BY <1>2, <2>1
<1>4. TypeOK'
  BY <1>1, <1>3 DEF IInv, TypeOK
<1>5. RxConserved'
  BY <1>1, <1>2 DEF IInv, RxConserved
<1> QED
  BY <1>1, <1>4, <1>5 DEF IInv, SentAlone, TxConserved, Uncounted

LEMMA StatusStep == ASSUME IInv, UpdateStatusBar PROVE IInv'
<1>1. /\ counted' = [counted EXCEPT !.shown_rx = @ + rx_count, !.shown_tx = @ + tx_count]
      /\ rx_count' = 0 /\ tx_count' = 0 /\ Idle
      /\ UNCHANGED <<frames, pending, events, received, handed, rx_buffer>>
  BY DEF UpdateStatusBar, CountsShown, busVars
<1>2. /\ counted \in [rx : Nat, tx : Nat, shown_rx : Nat, shown_tx : Nat]
      /\ rx_count \in Nat /\ tx_count \in Nat
  BY DEF IInv, TypeOK
<1>3. counted.shown_rx + rx_count \in Nat /\ counted.shown_tx + tx_count \in Nat
  BY <1>2
<1>4. /\ counted' \in [rx : Nat, tx : Nat, shown_rx : Nat, shown_tx : Nat]
      /\ counted'.rx = counted.rx /\ counted'.shown_rx = counted.shown_rx + rx_count
      /\ counted'.tx = counted.tx /\ counted'.shown_tx = counted.shown_tx + tx_count
  BY <1>1, <1>2, <1>3
<1>5. Uncounted = 0 /\ Uncounted' = 0
  BY <1>1 DEF Uncounted, Idle
<1> QED
  <2>1. TypeOK' /\ SentAlone'
    BY <1>1, <1>4 DEF IInv, TypeOK, SentAlone
  <2>2. counted.rx = counted.shown_rx + rx_count /\ counted.tx = counted.shown_tx + tx_count
    BY <1>2, <1>5 DEF IInv, RxConserved, TxConserved
  <2>3. counted'.rx = counted'.shown_rx + rx_count' /\ counted'.tx = counted'.shown_tx + tx_count' + Uncounted'
    BY <1>1, <1>2, <1>3, <1>4, <1>5, <2>2
  <2> QED
    BY <1>1, <2>1, <2>3 DEF IInv, RxConserved, TxConserved

LEMMA InitHolds == Init => IInv
<1> SUFFICES ASSUME Init PROVE IInv
  OBVIOUS
<1>1. TypeOK /\ SentAlone /\ TxConserved
  BY DEF Init, BusInit, TypeOK, SentAlone, TxConserved, Uncounted
<1>2. RxConserved
  BY DEF Init, RxConserved
<1> QED BY <1>1, <1>2 DEF IInv

LEMMA Step == IInv /\ [Next]_vars => IInv'
<1> SUFFICES ASSUME IInv, [Next]_vars PROVE IInv'
  OBVIOUS
<1>1. CASE UNCHANGED <<frames, pending, events, RxVars, tx_count>>
  BY <1>1 DEF RxVars, IInv, TypeOK, SentAlone, RxConserved, TxConserved, Uncounted
<1>2. CASE UNCHANGED vars \/ User \/ \E t \in Tabs : FlushBuffer(t)
  BY <1>1, <1>2
  DEF User, SelectPort, TogglePause, LocalEcho, ClearDataLog, RefreshAllData, ToggleCapture,
      ClearPackets, PacketSettings, StopHandler, FlushBuffer, Input, vars, busVars, handlerVars,
      historyVars, RxVars
<1>3. ASSUME NEW p \in Port, HandleDataReceived(p) PROVE IInv'
  BY <1>3, ReceiveStep
<1>4. CASE PortClosed \/ StartMacro
  <2>1. PICK topic \in {"port.closed", "macro.started"} : PublishHere(<<[topic |-> topic]>>)
    BY <1>4 DEF PortClosed, StartMacro
  <2>2. Idle /\ UNCHANGED <<pending, RxVars, tx_count>> /\ topic \in RouterTopic
    BY <1>4 DEF PortClosed, StartMacro, Input, handlerVars, historyVars, RxVars, RouterTopic
  <2> QED BY <2>1, <2>2, PublishStep
<1> QED
  BY <1>2, <1>3, <1>4, SentStep, ThreadStep, CallStep, ServeStep, FlushStep, StatusStep DEF Next

-----------------------------------------------------------------------------
(* The inspector *)

\* The rows are the last ones captured.
LastOf(s, n) == SubSeq(s, Len(s) - n + 1, Len(s))

Recent ==
    /\ captured \in Seq(Seq(Nat)) /\ packets \in Seq(Seq(Nat)) /\ packet_max \in Nat \ {0}
    /\ Len(packets) <= packet_max /\ Len(packets) <= Len(captured)
    /\ packets = LastOf(captured, Len(packets))

LEMMA LastFacts ==
    ASSUME NEW S, NEW s \in Seq(S), NEW n \in 0 .. Len(s)
    PROVE  /\ LastOf(s, n) \in Seq(S) /\ Len(LastOf(s, n)) = n
           /\ \A i \in 1 .. n : LastOf(s, n)[i] = s[Len(s) - n + i]
  BY DEF LastOf

LEMMA LastIsSuffix ==
    ASSUME NEW S, NEW s \in Seq(S), NEW t \in Seq(S), Len(t) <= Len(s), t = LastOf(s, Len(t))
    PROVE  IsSuffix(t, s)
<1> DEFINE n == Len(t)  m == Len(s)
<1>1. n \in Nat /\ m \in Nat /\ n <= m
  OBVIOUS
<1>2. \A i \in 1 .. n : t[i] = s[m - n + i]
  <2>1. \A i \in 1 .. n : SubSeq(s, m - n + 1, m)[i] = s[m - n + i]
    BY <1>1
  <2> QED BY <2>1 DEF LastOf
<1>3. Reverse(t) \in Seq(S) /\ Len(Reverse(t)) = n /\ \A i \in 1 .. n : Reverse(t)[i] = t[n - i + 1]
  <2>1. \A i \in 1 .. n : t[n - i + 1] \in S
    OBVIOUS
  <2>2. Reverse(t) = [i \in 1 .. n |-> t[n - i + 1]]
    BY DEF Reverse
  <2> QED BY <1>1, <2>1, <2>2
<1>4. Reverse(s) \in Seq(S) /\ Len(Reverse(s)) = m /\ \A i \in 1 .. m : Reverse(s)[i] = s[m - i + 1]
  <2>1. \A i \in 1 .. m : s[m - i + 1] \in S
    OBVIOUS
  <2>2. Reverse(s) = [i \in 1 .. m |-> s[m - i + 1]]
    BY DEF Reverse
  <2> QED BY <1>1, <2>1, <2>2
<1>5. ASSUME NEW i \in 1 .. n PROVE Reverse(t)[i] = Reverse(s)[i]
  <2>1. n - i + 1 \in 1 .. n /\ m - n + (n - i + 1) = m - i + 1 /\ i \in 1 .. m
    BY <1>1
  <2> QED BY <1>2, <1>3, <1>4, <2>1
<1> DEFINE rt == Reverse(t)  rs == Reverse(s)
<1>6. /\ rt \in Seq(S) /\ rs \in Seq(S) /\ Len(rt) = n /\ Len(rs) = m
      /\ \A i \in 1 .. n : rt[i] = rs[i]
  BY <1>3, <1>4, <1>5
<1> HIDE DEF n, m, rt, rs
<1>7. SubSeq(rt, 1, n) = SubSeq(rs, 1, n)
  BY <1>1, <1>6
<1> QED
  BY <1>1, <1>6, <1>7 DEF IsSuffix, IsPrefix, rt, rs

\* The newest of the newest are the newest.
LEMMA LastOfLast ==
    ASSUME NEW S, NEW s \in Seq(S), NEW n \in 0 .. Len(s), NEW k \in 0 .. n
    PROVE  LastOf(LastOf(s, n), k) = LastOf(s, k) /\ LastOf(s, n) \in Seq(S) /\ Len(LastOf(s, n)) = n
<1> DEFINE m == Len(s)  t == LastOf(s, n)
<1>1. m \in Nat
  OBVIOUS
<1>2. t \in Seq(S) /\ Len(t) = n /\ \A i \in 1 .. n : t[i] = s[m - n + i]
  BY DEF LastOf
<1>3. LastOf(s, k) \in Seq(S) /\ Len(LastOf(s, k)) = k /\ \A i \in 1 .. k : LastOf(s, k)[i] = s[m - k + i]
  BY DEF LastOf
<1> HIDE DEF t
<1>4. LastOf(t, k) \in Seq(S) /\ Len(LastOf(t, k)) = k /\ \A i \in 1 .. k : LastOf(t, k)[i] = t[n - k + i]
  BY <1>2 DEF LastOf
<1>5. ASSUME NEW i \in 1 .. k PROVE LastOf(t, k)[i] = LastOf(s, k)[i]
  <2>1. n - k + i \in 1 .. n /\ m - n + (n - k + i) = m - k + i
    BY <1>1
  <2> QED BY <1>2, <1>3, <1>4, <2>1
<1> QED
  BY <1>2, <1>3, <1>4, <1>5, SeqEqual DEF t

LEMMA LastAppended ==
    ASSUME NEW S, NEW s \in Seq(S), NEW n \in 0 .. Len(s), NEW x \in S
    PROVE  Append(LastOf(s, n), x) = LastOf(Append(s, x), n + 1)
<1> DEFINE m == Len(s)  t == LastOf(s, n)  a == Append(s, x)
<1>1. t \in Seq(S) /\ Len(t) = n /\ m \in Nat /\ \A i \in 1 .. n : t[i] = s[m - n + i]
  BY DEF LastOf
<1>2. a \in Seq(S) /\ Len(a) = m + 1 /\ a[m + 1] = x /\ \A i \in 1 .. m : a[i] = s[i]
  BY AppendProperties
<1> HIDE DEF t, a
<1>3. /\ Append(t, x) \in Seq(S) /\ Len(Append(t, x)) = n + 1 /\ Append(t, x)[n + 1] = x
      /\ \A i \in 1 .. n : Append(t, x)[i] = t[i]
  BY <1>1, AppendProperties
<1> HIDE DEF m
<1>4. /\ LastOf(a, n + 1) \in Seq(S) /\ Len(LastOf(a, n + 1)) = n + 1
      /\ \A i \in 1 .. n + 1 : LastOf(a, n + 1)[i] = a[m - n + i]
  <2>1. n \in 0 .. m
    BY DEF m
  <2>2. n + 1 \in 0 .. Len(a) /\ m \in Nat
    BY <1>1, <1>2, <2>1
  <2>3. /\ LastOf(a, n + 1) \in Seq(S) /\ Len(LastOf(a, n + 1)) = n + 1
        /\ \A i \in 1 .. n + 1 : LastOf(a, n + 1)[i] = a[Len(a) - (n + 1) + i]
    BY <1>2, <2>2, LastFacts
  <2>4. \A i \in 1 .. n + 1 : Len(a) - (n + 1) + i = m - n + i
    BY <1>2, <2>1, <2>2
  <2> QED BY <2>3, <2>4
<1>5. ASSUME NEW i \in 1 .. n + 1 PROVE Append(t, x)[i] = LastOf(a, n + 1)[i]
  <2>1. n \in 0 .. m
    BY DEF m
  <2>2. CASE i = n + 1
    <3>1. m - n + i = m + 1
      BY <1>1, <2>1, <2>2
    <3> QED BY <1>2, <1>3, <1>4, <2>2, <3>1
  <2>3. CASE i # n + 1
    <3>1. PICK j \in 1 .. m : j = m - n + i
      BY <1>1, <2>1, <2>3
    <3>2. i \in 1 .. n
      BY <2>1, <2>3
    <3>3. Append(t, x)[i] = t[i] /\ t[i] = s[j] /\ a[j] = s[j]
      BY <1>1, <1>2, <1>3, <3>1, <3>2
    <3>4. LastOf(a, n + 1)[i] = a[j]
      BY <1>1, <1>2, <1>4, <3>1
    <3> QED BY <3>3, <3>4
  <2> QED BY <2>2, <2>3
<1>6. n + 1 \in Nat
  OBVIOUS
<1> QED
  BY <1>3, <1>4, <1>5, <1>6, SeqEqual DEF t, a

LEMMA TailIsLast ==
    ASSUME NEW S, NEW s \in Seq(S), s # <<>>
    PROVE  Tail(s) = LastOf(s, Len(s) - 1) /\ Len(s) - 1 \in 0 .. Len(s)
<1>1. /\ Tail(s) \in Seq(S) /\ Len(Tail(s)) = Len(s) - 1 /\ Len(s) \in Nat \ {0}
      /\ \A i \in 1 .. Len(s) - 1 : Tail(s)[i] = s[i + 1]
  BY HeadTailProperties
<1> DEFINE m == Len(s)
<1>2. /\ LastOf(s, m - 1) \in Seq(S) /\ Len(LastOf(s, m - 1)) = m - 1
      /\ \A i \in 1 .. m - 1 : LastOf(s, m - 1)[i] = s[i + 1]
  <2>1. m - 1 \in 0 .. m /\ \A i \in 1 .. m - 1 : m - (m - 1) + i = i + 1
    BY <1>1
  <2>2. /\ LastOf(s, m - 1) \in Seq(S) /\ Len(LastOf(s, m - 1)) = m - 1
        /\ \A i \in 1 .. m - 1 : LastOf(s, m - 1)[i] = s[m - (m - 1) + i]
    BY <2>1, LastFacts
  <2> QED BY <2>1, <2>2
<1> QED
  BY <1>1, <1>2, SeqEqual

\* At the limit the oldest row goes before the new one comes.
LEMMA AppendKeepsRecent ==
    ASSUME Recent, NEW x \in Seq(Nat)
    PROVE  LET p == AppendPacket(x)  c == Append(captured, x) IN
           /\ c \in Seq(Seq(Nat)) /\ p \in Seq(Seq(Nat))
           /\ Len(p) <= packet_max /\ Len(p) <= Len(c) /\ p = LastOf(c, Len(p))
<1> DEFINE S == Seq(Nat)
           q == IF Len(packets) >= packet_max THEN Tail(packets) ELSE packets
           c == Append(captured, x)  p == Append(q, x)
<1>1. /\ captured \in Seq(S) /\ packets \in Seq(S) /\ packet_max \in Nat \ {0}
      /\ Len(packets) <= packet_max /\ Len(packets) \in 0 .. Len(captured)
      /\ packets = LastOf(captured, Len(packets)) /\ Len(captured) \in Nat
  BY DEF Recent
<1> HIDE DEF S
<1>2. /\ q \in Seq(S) /\ Len(q) + 1 <= packet_max /\ Len(q) \in 0 .. Len(captured)
      /\ q = LastOf(captured, Len(q))
  <2>1. CASE Len(packets) >= packet_max
    <3> DEFINE k == Len(packets) - 1
    <3>1. packets # <<>> /\ Len(packets) = packet_max
      BY <1>1, <2>1
    <3>2. q = LastOf(packets, k) /\ k \in 0 .. Len(packets)
      BY <1>1, <2>1, <3>1, TailIsLast
    <3> HIDE DEF q, k
    <3>3. LastOf(LastOf(captured, Len(packets)), k) = LastOf(captured, k)
      BY <1>1, <3>2, LastOfLast
    <3>4. LastOf(packets, k) \in Seq(S) /\ Len(LastOf(packets, k)) = k
      BY <1>1, <3>2, LastOfLast
    <3>5. q = LastOf(captured, k) /\ q \in Seq(S) /\ Len(q) = k
      BY <1>1, <3>2, <3>3, <3>4
    <3>6. k + 1 <= packet_max /\ k \in 0 .. Len(captured)
      BY <1>1, <3>1, <3>2 DEF k
    <3> QED BY <3>5, <3>6
  <2>2. CASE ~(Len(packets) >= packet_max)
    BY <1>1, <2>2
  <2> QED BY <2>1, <2>2
<1> HIDE DEF q
<1>3. x \in S
  BY DEF S
<1>4. p = LastOf(c, Len(q) + 1)
  BY <1>1, <1>2, <1>3, LastAppended
<1>5. /\ c \in Seq(S) /\ Len(c) = Len(captured) + 1 /\ p \in Seq(S) /\ Len(p) = Len(q) + 1
  BY <1>1, <1>2, <1>3, AppendProperties
<1>6. AppendPacket(x) = p
  BY DEF AppendPacket, q
<1> HIDE DEF c, p
<1>7. Len(p) <= packet_max /\ Len(p) <= Len(c)
  BY <1>1, <1>2, <1>5
<1> QED
  BY <1>4, <1>5, <1>6, <1>7 DEF S, c

\* A buffer of another size keeps what is newest in it.
LEMMA KeptIsRecent ==
    ASSUME Recent, NEW size \in BufferSize
    PROVE  LET p == Kept(packets, size) IN
           /\ p \in Seq(Seq(Nat)) /\ size \in Nat \ {0}
           /\ Len(p) <= size /\ Len(p) <= Len(captured) /\ p = LastOf(captured, Len(p))
<1> DEFINE S == Seq(Nat)
           n == Len(packets)
           k == IF n <= size THEN n ELSE size
<1>1. /\ captured \in Seq(S) /\ packets \in Seq(S) /\ size \in Nat \ {0}
      /\ n \in 0 .. Len(captured) /\ packets = LastOf(captured, n) /\ Len(captured) \in Nat
  BY ReceiveAssumption DEF Recent
<1>2. Max({1, n - size + 1}) = n - k + 1
  <2> HIDE DEF n
  <2>1. Max({1, n - size + 1}) \in {1, n - size + 1} /\ \A y \in {1, n - size + 1} : Max({1, n - size + 1}) >= y
    <3>1. \E m \in {1, n - size + 1} : \A y \in {1, n - size + 1} : m >= y
      BY <1>1
    <3> QED BY <3>1, Zenon DEF Max
  <2> DEFINE mx == Max({1, n - size + 1})
  <2>2. /\ mx = 1 \/ mx = n - size + 1
        /\ mx >= 1 /\ mx >= n - size + 1
    BY <2>1
  <2> HIDE DEF mx
  <2>3. n \in Nat /\ size \in Nat
    BY <1>1
  <2>4. mx = n - k + 1
    BY <2>2, <2>3
  <2> QED BY <2>4 DEF mx
<1>3. k \in 0 .. n /\ k <= size
  BY <1>1
<1>4. Kept(packets, size) = LastOf(packets, k)
  BY <1>2 DEF Kept, LastOf
<1> HIDE DEF S, k, n
<1>5. LastOf(packets, k) = LastOf(captured, k) /\ LastOf(packets, k) \in Seq(S) /\ Len(LastOf(packets, k)) = k
  <2>1. LastOf(LastOf(captured, n), k) = LastOf(captured, k)
    BY <1>1, <1>3, LastOfLast
  <2>2. k \in 0 .. Len(captured) /\ k \in 0 .. Len(packets)
    BY <1>1, <1>3 DEF n
  <2>3. LastOf(packets, k) \in Seq(S) /\ Len(LastOf(packets, k)) = k
    BY <1>1, <2>2, LastOfLast
  <2> QED BY <1>1, <2>1, <2>3
<1>6. k <= Len(captured)
  BY <1>1, <1>3
<1> QED
  BY <1>1, <1>3, <1>4, <1>5, <1>6 DEF S

LEMMA RecentStep == IInv /\ Recent /\ [Next]_vars => Recent'
<1> SUFFICES ASSUME IInv, Recent, [Next]_vars PROVE Recent'
  OBVIOUS
<1>1. CASE UNCHANGED <<captured, packets, packet_max>>
  BY <1>1 DEF Recent, LastOf
<1>2. CASE CallSubscriber
  <2> DEFINE e == Head(frames).event  c == Head(Head(frames).left)
  <2>1. Called(c, e)
    BY <1>2 DEF CallSubscriber
  <2>2. CASE c = "router" /\ e.topic = "port.packet_received"
    <3>1. OnPacketReceived(e.packet)
      BY <2>1, <2>2 DEF Called
    <3>2. e.packet \in Seq(Nat)
      <4>1. Head(frames) \in Frame
        BY <1>2, HeadTailProperties DEF CallSubscriber, IInv, TypeOK
      <4>2. e \in Event
        BY <4>1 DEF Frame
      <4> HIDE DEF e
      <4> QED BY <2>2, <4>2 DEF Event
    <3> DEFINE x == e.packet
    <3> HIDE DEF e
    <3>3. CASE capturing
      <4>1. packets' = AppendPacket(x) /\ captured' = Append(captured, x) /\ packet_max' = packet_max
        BY <3>1, <3>3 DEF OnPacketReceived
      <4> HIDE DEF x
      <4>2. /\ Append(captured, x) \in Seq(Seq(Nat)) /\ AppendPacket(x) \in Seq(Seq(Nat))
            /\ Len(AppendPacket(x)) <= packet_max
            /\ Len(AppendPacket(x)) <= Len(Append(captured, x))
            /\ AppendPacket(x) = LastOf(Append(captured, x), Len(AppendPacket(x)))
        BY <3>2, AppendKeepsRecent DEF x
      <4>3. packet_max \in Nat \ {0}
        BY DEF Recent
      <4>4. LastOf(captured', Len(packets')) = LastOf(Append(captured, x), Len(AppendPacket(x)))
        BY <4>1
      <4> QED BY <4>1, <4>2, <4>3, <4>4 DEF Recent, LastOf
    <3>4. CASE ~capturing
      BY <1>1, <3>1, <3>4 DEF OnPacketReceived
    <3> QED BY <3>3, <3>4
  <2>3. CASE ~(c = "router" /\ e.topic = "port.packet_received")
    BY <1>1, <2>1, <2>3 DEF Called, packetVars
  <2> QED BY <2>2, <2>3
<1>3. CASE ClearPackets
  <2>1. packets' = <<>> /\ captured' = <<>> /\ packet_max' = packet_max
    BY <1>3 DEF ClearPackets
  <2> QED BY <2>1 DEF Recent, LastOf
<1>4. ASSUME NEW size \in BufferSize, NEW realtime \in BOOLEAN, PacketSettings(size, realtime)
      PROVE  Recent'
  <2>1. packets' = Kept(packets, size) /\ packet_max' = size /\ captured' = captured
    BY <1>4 DEF PacketSettings
  <2>2. /\ Kept(packets, size) \in Seq(Seq(Nat)) /\ size \in Nat \ {0}
        /\ Len(Kept(packets, size)) <= size /\ Len(Kept(packets, size)) <= Len(captured)
        /\ Kept(packets, size) = LastOf(captured, Len(Kept(packets, size)))
    BY KeptIsRecent
  <2>3. captured \in Seq(Seq(Nat))
    BY DEF Recent
  <2>4. LastOf(captured', Len(packets')) = LastOf(captured, Len(Kept(packets, size)))
    BY <2>1
  <2> QED BY <2>1, <2>2, <2>3, <2>4 DEF Recent, LastOf
<1>5. CASE UNCHANGED vars \/ FlushRxBuffer \/ DataSent \/ PortClosed \/ StartMacro \/ ThreadPublishes
           \/ ServeBus \/ UpdateStatusBar \/ ToggleCapture \/ StopHandler
  BY <1>1, <1>5 DEF FlushRxBuffer, DataSent, PortClosed, StartMacro, ThreadPublishes, ServeBus,
     UpdateStatusBar, ToggleCapture, StopHandler, vars, packetVars
<1>6. ASSUME NEW p \in Port, HandleDataReceived(p) PROVE Recent'
  BY <1>1, <1>6 DEF HandleDataReceived, packetVars
<1>7. ASSUME NEW t \in Tabs, \/ FlushBuffer(t) \/ \E p \in Port : SelectPort(t, p)
                             \/ TogglePause(t) \/ LocalEcho(t) \/ ClearDataLog(t) \/ RefreshAllData(t)
      PROVE Recent'
  BY <1>1, <1>7 DEF FlushBuffer, SelectPort, TogglePause, LocalEcho, ClearDataLog, RefreshAllData, packetVars
<1> QED
  BY <1>2, <1>3, <1>4, <1>5, <1>6, <1>7 DEF Next, User

-----------------------------------------------------------------------------
(* Theorems *)

\* Every byte received is in the buffer of the handler or was given to the view, in order and once,
\* and every byte received or sent is in the counters or was shown in the status bar, however many
\* ports, tabs and events there are and whichever way dispatches nest (DataTrafficHandler,
\* EventBus, update_status_bar).
THEOREM BytesAreConserved == Spec => []Conserved
<1>1. IInv => Conserved
  <2> SUFFICES ASSUME IInv PROVE Conserved
    OBVIOUS
  <2>1. Idle => Uncounted = 0
    BY IdleCounted
  <2> QED BY <2>1 DEF IInv, TypeOK, RxConserved, TxConserved, Conserved
<1> QED
  BY InitHolds, Step, <1>1, PTL DEF Spec

\* The inspector shows the newest of the packets captured since it was cleared, in order and no more
\* than its buffer holds, whatever sizes it is given while packets come in (PacketModel).
THEOREM InspectorIsRecent == Spec => []PacketsAreRecent
<1>1. Init => IInv /\ Recent
  <2> SUFFICES ASSUME Init PROVE IInv /\ Recent
    OBVIOUS
  <2>1. IInv
    BY InitHolds
  <2>2. packet_max \in Nat \ {0} /\ packets = <<>> /\ captured = <<>>
    BY ReceiveAssumption DEF Init, PacketInit
  <2>3. Recent
    BY <2>2 DEF Recent, LastOf
  <2> QED BY <2>1, <2>3
<1>2. Recent => PacketsAreRecent
  BY LastIsSuffix DEF Recent, PacketsAreRecent
<1> QED
  BY <1>1, Step, RecentStep, <1>2, PTL DEF Spec
-----------------------------------------------------------------------------
(* Every event reaches its subscribers *)

\* Callback c is still to be called with event i by a dispatch of fs; the calls it had with i.
Owes(fs, c, i) == \E j \in 1 .. Len(fs) : fs[j].id = i /\ Contains(fs[j].left, c)
Calls(sn, c, i) == {k \in 1 .. Len(sn[c]) : sn[c][k] = i}

FramesOK(fs, evs) ==
    /\ fs \in Seq(Frame)
    /\ \A j \in 1 .. Len(fs) : /\ fs[j].id \in 1 .. Len(evs) /\ fs[j].event = evs[fs[j].id]
                               /\ fs[j].left \in {Due(fs[j].event.topic), <<"router">>, <<>>}
    /\ \A j, k \in 1 .. Len(fs) : fs[j].id = fs[k].id => j = k
SeenOK(fs, sn, evs) ==
    /\ sn \in [Callback -> Seq(Nat)]
    /\ \A c \in Callback : \A k \in 1 .. Len(sn[c]) : sn[c][k] \in 1 .. Len(evs)
    /\ \A c \in Callback, i \in 1 .. Len(evs) :
          IF Contains(Due(evs[i].topic), c) /\ ~Owes(fs, c, i) THEN \E k : Calls(sn, c, i) = {k}
                                                               ELSE Calls(sn, c, i) = {}
BusOK(fs, sn, evs) == FramesOK(fs, evs) /\ SeenOK(fs, sn, evs)

LEMMA DueIs ==
    ASSUME NEW topic \in RouterTopic
    PROVE  Due(topic) = IF topic = "port.data_received" THEN <<"runner", "router">> ELSE <<"router">>
<1>1. "port.data_received" \in RouterTopic
  BY DEF RouterTopic
<1>2. ~Contains(<<>>, "runner") /\ ~Contains(<<>>, "router") /\ ~Contains(<<"runner">>, "router")
  BY DEF Contains
<1>3. /\ DOMAIN RunnerSubscribed = RouterTopic
      /\ RunnerSubscribed[topic] = IF topic = "port.data_received" THEN <<"runner">> ELSE <<>>
  BY <1>1, <1>2 DEF RunnerSubscribed, Subscribe
<1>4. Due(topic) = IF Contains(RunnerSubscribed[topic], "router") THEN RunnerSubscribed[topic]
                   ELSE Append(RunnerSubscribed[topic], "router")
  BY <1>3 DEF Due, SubscribeEvents, Subscribe
<1>5. Append(<<"runner">>, "router") = <<"runner", "router">> /\ Append(<<>>, "router") = <<"router">>
  <2>1. Append(<<>>, "router") = <<"router">>
    OBVIOUS
  <2>2. \A a, b : Append(<<a>>, b) = <<a, b>>
    <3> SUFFICES ASSUME NEW a, NEW b PROVE Append(<<a>>, b) = <<a, b>>
      OBVIOUS
    <3> DEFINE S == {a, b}
    <3>1. <<a>> \in Seq(S) /\ b \in S
      OBVIOUS
    <3> HIDE DEF S
    <3>2. Append(<<a>>, b) = <<a>> \o <<b>>
      BY <3>1, AppendIsConcat
    <3> QED
      BY <3>2, TwoInARow
  <2> QED
    BY <2>1, <2>2
<1> QED
  BY <1>2, <1>3, <1>4, <1>5

\* What is left of the subscribers of a topic, and what remains after the next of them is called.
LEMMA LeftFacts ==
    ASSUME NEW topic \in RouterTopic, NEW left \in {Due(topic), <<"router">>, <<>>}, left # <<>>
    PROVE  /\ Head(left) \in Callback /\ Contains(Due(topic), Head(left))
           /\ Tail(left) \in {Due(topic), <<"router">>, <<>>} /\ Tail(left) \in Seq(Callback)
           /\ \A c : Contains(Tail(left), c) <=> Contains(left, c) /\ c # Head(left)
<1>1. left \in {<<"runner", "router">>, <<"router">>} /\ Due(topic) \in {<<"runner", "router">>, <<"router">>}
      /\ (left = <<"runner", "router">> => Due(topic) = left)
  BY DueIs
<1>2. "runner" \in Callback /\ "router" \in Callback
  BY DEF Callback
<1>3. /\ \A c : Contains(<<"runner", "router">>, c) <=> c \in {"runner", "router"}
      /\ \A c : Contains(<<"router">>, c) <=> c = "router"
      /\ \A c : ~Contains(<<>>, c)
  BY DEF Contains
<1>4. CASE left = <<"runner", "router">>
  <2>1. Head(left) = "runner" /\ Tail(left) = <<"router">>
    BY <1>4
  <2> QED
    BY <1>1, <1>2, <1>3, <1>4, <2>1
<1>5. CASE left = <<"router">>
  <2>1. Head(left) = "router" /\ Tail(left) = <<>>
    BY <1>5
  <2>2. Contains(Due(topic), "router")
    BY <1>1, <1>3
  <2> QED
    BY <1>1, <1>2, <1>3, <1>5, <2>1, <2>2
<1> QED
  BY <1>1, <1>4, <1>5

LEMMA OwesConcat ==
    ASSUME NEW f \in Seq(Frame), NEW g \in Seq(Frame), NEW c, NEW i
    PROVE  Owes(f \o g, c, i) <=> Owes(f, c, i) \/ Owes(g, c, i)
<1>1. /\ Len(f) \in Nat /\ Len(g) \in Nat /\ Len(f \o g) = Len(f) + Len(g)
      /\ \A j \in 1 .. Len(f) + Len(g) : (f \o g)[j] = IF j <= Len(f) THEN f[j] ELSE g[j - Len(f)]
  BY ConcatProperties, LenProperties
<1>2. ASSUME Owes(f \o g, c, i) PROVE Owes(f, c, i) \/ Owes(g, c, i)
  <2>1. PICK j \in 1 .. Len(f) + Len(g) : (f \o g)[j].id = i /\ Contains((f \o g)[j].left, c)
    BY <1>1, <1>2 DEF Owes
  <2>2. CASE j <= Len(f)
    <3>1. j \in 1 .. Len(f) /\ (f \o g)[j] = f[j]
      BY <1>1, <2>2
    <3> QED
      BY <2>1, <3>1 DEF Owes
  <2>3. CASE ~(j <= Len(f))
    <3>1. j - Len(f) \in 1 .. Len(g) /\ (f \o g)[j] = g[j - Len(f)]
      BY <1>1, <2>3
    <3> QED
      BY <2>1, <3>1 DEF Owes
  <2> QED
    BY <2>2, <2>3
<1>3. ASSUME Owes(f, c, i) PROVE Owes(f \o g, c, i)
  <2>1. PICK j \in 1 .. Len(f) : f[j].id = i /\ Contains(f[j].left, c)
    BY <1>3 DEF Owes
  <2>2. j \in 1 .. Len(f) + Len(g) /\ (f \o g)[j] = f[j]
    BY <1>1
  <2> QED
    BY <1>1, <2>1, <2>2 DEF Owes
<1>4. ASSUME Owes(g, c, i) PROVE Owes(f \o g, c, i)
  <2>1. PICK j \in 1 .. Len(g) : g[j].id = i /\ Contains(g[j].left, c)
    BY <1>4 DEF Owes
  <2>2. PICK m : m = j + Len(f)
    OBVIOUS
  <2>3. m \in 1 .. Len(f) + Len(g) /\ ~(m <= Len(f)) /\ m - Len(f) = j
    BY <1>1, <2>2
  <2>4. (f \o g)[m] = g[j]
    BY <1>1, <2>3
  <2> QED
    BY <1>1, <2>1, <2>3, <2>4 DEF Owes
<1> QED
  BY <1>2, <1>3, <1>4

LEMMA LeftHead ==
    ASSUME NEW topic \in RouterTopic, NEW left \in {Due(topic), <<"router">>, <<>>}, left # <<>>
    PROVE  Contains(left, Head(left))
<1>1. left \in {<<"runner", "router">>, <<"router">>}
  BY DueIs
<1> QED
  BY <1>1 DEF Contains

\* Publishing: the new dispatches owe the new events to their subscribers.
LEMMA PublishKeeps ==
    ASSUME events \in Seq(Event), NEW es \in Seq(Event), NEW fs, NEW sn, BusOK(fs, sn, events)
    PROVE  BusOK(Dispatches(es) \o fs, sn, events \o es)
<1> DEFINE d == Dispatches(es)  n == Len(events)  all == events \o es
<1>1. /\ d \in Seq(Frame) /\ Len(d) = Len(es)
      /\ \A j \in 1 .. Len(es) : d[j].id = n + j /\ d[j].event = es[j] /\ d[j].left = Due(es[j].topic)
  BY DispatchesTyped DEF Dispatches
<1>2. /\ n \in Nat /\ Len(es) \in Nat /\ Len(all) = n + Len(es)
      /\ \A i \in 1 .. n + Len(es) : all[i] = IF i <= n THEN events[i] ELSE es[i - n]
  BY ConcatProperties, LenProperties
<1>3. /\ fs \in Seq(Frame) /\ Len(fs) \in Nat
      /\ \A j \in 1 .. Len(fs) : /\ fs[j].id \in 1 .. n /\ fs[j].event = events[fs[j].id]
                                 /\ fs[j].left \in {Due(fs[j].event.topic), <<"router">>, <<>>}
      /\ \A j, k \in 1 .. Len(fs) : fs[j].id = fs[k].id => j = k
  BY LenProperties DEF BusOK, FramesOK
<1>4. /\ sn \in [Callback -> Seq(Nat)]
      /\ \A c \in Callback : \A k \in 1 .. Len(sn[c]) : sn[c][k] \in 1 .. n
      /\ \A c \in Callback, i \in 1 .. n :
            IF Contains(Due(events[i].topic), c) /\ ~Owes(fs, c, i) THEN \E k : Calls(sn, c, i) = {k}
                                                                    ELSE Calls(sn, c, i) = {}
  BY DEF BusOK, SeenOK
<1> HIDE DEF d, n, all
<1>5. /\ d \o fs \in Seq(Frame) /\ Len(d \o fs) = Len(es) + Len(fs)
      /\ \A j \in 1 .. Len(es) + Len(fs) : (d \o fs)[j] = IF j <= Len(es) THEN d[j] ELSE fs[j - Len(es)]
  <2>1. /\ d \o fs \in Seq(Frame) /\ Len(d \o fs) = Len(d) + Len(fs)
        /\ \A j \in 1 .. Len(d) + Len(fs) : (d \o fs)[j] = IF j <= Len(d) THEN d[j] ELSE fs[j - Len(d)]
    <3>1. d \in Seq(Frame) /\ fs \in Seq(Frame)
      BY <1>1, <1>3
    <3> QED
      BY <3>1, ConcatProperties
  <2>2. Len(d) = Len(es)
    BY <1>1
  <2> QED
    BY <2>1, <2>2
<1>6. ASSUME NEW j \in 1 .. Len(es) + Len(fs)
      PROVE  \/ j \in 1 .. Len(es) /\ (d \o fs)[j] = d[j]
             \/ j - Len(es) \in 1 .. Len(fs) /\ ~(j <= Len(es)) /\ (d \o fs)[j] = fs[j - Len(es)]
  BY <1>2, <1>3, <1>5
<1>7. FramesOK(d \o fs, all)
  <2>1. ASSUME NEW j \in 1 .. Len(es) + Len(fs)
        PROVE  /\ (d \o fs)[j].id \in 1 .. n + Len(es) /\ (d \o fs)[j].event = all[(d \o fs)[j].id]
               /\ (d \o fs)[j].left \in {Due((d \o fs)[j].event.topic), <<"router">>, <<>>}
    <3>1. CASE j \in 1 .. Len(es) /\ (d \o fs)[j] = d[j]
      <4>1. PICK i : i = n + j
        OBVIOUS
      <4>2. i \in 1 .. n + Len(es) /\ ~(i <= n) /\ i - n = j
        BY <1>2, <3>1, <4>1
      <4>3. all[i] = es[j]
        BY <1>2, <4>2
      <4> QED
        BY <1>1, <3>1, <4>1, <4>2, <4>3
    <3>2. CASE j - Len(es) \in 1 .. Len(fs) /\ (d \o fs)[j] = fs[j - Len(es)]
      <4>1. PICK g : g = fs[j - Len(es)]
        OBVIOUS
      <4>2. g.id \in 1 .. n /\ g.event = events[g.id] /\ g.left \in {Due(g.event.topic), <<"router">>, <<>>}
        BY <1>3, <3>2, <4>1
      <4>3. g.id \in 1 .. n + Len(es) /\ g.id <= n
        BY <1>2, <4>2
      <4> QED
        BY <1>2, <3>2, <4>1, <4>2, <4>3
    <3> QED
      BY <1>6, <3>1, <3>2
  <2>2. ASSUME NEW j \in 1 .. Len(es) + Len(fs), NEW k \in 1 .. Len(es) + Len(fs), (d \o fs)[j].id = (d \o fs)[k].id
        PROVE  j = k
    <3>1. ASSUME NEW m \in 1 .. Len(es) + Len(fs)
          PROVE  \/ m \in 1 .. Len(es) /\ (d \o fs)[m].id = n + m
                 \/ /\ m - Len(es) \in 1 .. Len(fs) /\ (d \o fs)[m].id = fs[m - Len(es)].id
                    /\ fs[m - Len(es)].id \in 1 .. n
      BY <1>1, <1>3, <1>6
    <3>4. PICK x : x = (d \o fs)[j].id /\ x = (d \o fs)[k].id
      BY <2>2
    <3>5. x \in Int
      <4>1. x = n + j \/ x \in 1 .. n
        BY <3>1, <3>4
      <4> QED
        BY <1>2, <4>1
    <3>2. CASE x <= n
      <4>1. ASSUME NEW m \in 1 .. Len(es) + Len(fs), (d \o fs)[m].id = x
            PROVE  m - Len(es) \in 1 .. Len(fs) /\ x = fs[m - Len(es)].id
        <5>1. ~(m \in 1 .. Len(es) /\ x = n + m)
          BY <1>2, <3>2
        <5> QED
          BY <3>1, <4>1, <5>1
      <4>2. /\ j - Len(es) \in 1 .. Len(fs) /\ k - Len(es) \in 1 .. Len(fs)
            /\ fs[j - Len(es)].id = fs[k - Len(es)].id
        BY <3>4, <4>1
      <4>3. j - Len(es) = k - Len(es)
        BY <1>3, <4>2
      <4> QED
        BY <1>2, <4>3
    <3>3. CASE ~(x <= n)
      <4>1. ASSUME NEW m \in 1 .. Len(es) + Len(fs), (d \o fs)[m].id = x
            PROVE  x = n + m
        <5>1. ~(x \in 1 .. n)
          BY <1>2, <3>3
        <5> QED
          BY <3>1, <4>1, <5>1
      <4>2. x = n + j /\ x = n + k
        BY <3>4, <4>1
      <4> QED
        BY <1>2, <4>2
    <3> QED
      BY <3>2, <3>3
  <2> QED
    BY <1>2, <1>5, <2>1, <2>2 DEF FramesOK
<1>8. ASSUME NEW c \in Callback, NEW i \in 1 .. n + Len(es)
      PROVE  IF Contains(Due(all[i].topic), c) /\ ~Owes(d \o fs, c, i) THEN \E k : Calls(sn, c, i) = {k}
                                                                       ELSE Calls(sn, c, i) = {}
  <2>1. Owes(d \o fs, c, i) <=> Owes(d, c, i) \/ Owes(fs, c, i)
    BY <1>1, <1>3, OwesConcat
  <2>2. CASE i <= n
    <3>1. ~Owes(d, c, i)
      <4> SUFFICES ASSUME NEW j \in 1 .. Len(es), d[j].id = i PROVE FALSE
        BY <1>1 DEF Owes
      <4> QED
        BY <1>1, <1>2, <2>2
    <3>2. i \in 1 .. n /\ all[i] = events[i]
      BY <1>2, <2>2
    <3> QED
      BY <1>4, <2>1, <3>1, <3>2
  <2>3. CASE ~(i <= n)
    <3>1. i - n \in 1 .. Len(es) /\ all[i] = es[i - n]
      BY <1>2, <2>3
    <3>2. Contains(Due(all[i].topic), c) => Owes(d, c, i)
      <4>1. d[i - n].id = i /\ d[i - n].left = Due(all[i].topic)
        <5>1. PICK j \in 1 .. Len(es) : j = i - n
          BY <3>1, SMTT(30)
        <5>2. d[j].id = n + j /\ d[j].left = Due(es[j].topic) /\ n + j = i /\ all[i] = es[j]
          BY <1>1, <1>2, <3>1, <5>1, SMTT(30)
        <5> QED
          BY <5>1, <5>2
      <4> QED
        BY <1>1, <3>1, <4>1 DEF Owes
    <3>3. Calls(sn, c, i) = {}
      BY <1>2, <1>4, <2>3 DEF Calls
    <3> QED
      BY <2>1, <3>2, <3>3
  <2> QED
    BY <2>2, <2>3
<1>9. \A c \in Callback : \A k \in 1 .. Len(sn[c]) : sn[c][k] \in 1 .. n + Len(es)
  <2>1. \A x \in 1 .. n : x \in 1 .. n + Len(es)
    BY <1>2
  <2> QED
    BY <1>4, <2>1
<1> QED
  BY <1>2, <1>4, <1>7, <1>8, <1>9 DEF BusOK, SeenOK, d, all

\* The next subscriber is called: it is owed the event no more, and has been called with it.
LEMMA CallKeeps ==
    ASSUME NEW evs \in Seq(Event), NEW fs, NEW sn, BusOK(fs, sn, evs), fs # <<>>, fs[1].left # <<>>,
           NEW top, top = fs[1], NEW after, after = [top EXCEPT !.left = Tail(top.left)]
    PROVE  BusOK(<<after>> \o Tail(fs), [sn EXCEPT ![Head(top.left)] = Append(@, top.id)], evs)
<1> DEFINE rest == <<after>> \o Tail(fs)
           c0 == Head(top.left)
           new == [sn EXCEPT ![c0] = Append(@, top.id)]
<1>1. /\ fs \in Seq(Frame) /\ Len(fs) \in Nat \ {0}
      /\ \A j \in 1 .. Len(fs) : /\ fs[j].id \in 1 .. Len(evs) /\ fs[j].event = evs[fs[j].id]
                                 /\ fs[j].left \in {Due(fs[j].event.topic), <<"router">>, <<>>}
      /\ \A j, k \in 1 .. Len(fs) : fs[j].id = fs[k].id => j = k
  BY EmptySeq, LenProperties DEF BusOK, FramesOK
<1>2. /\ sn \in [Callback -> Seq(Nat)]
      /\ \A c \in Callback : \A k \in 1 .. Len(sn[c]) : sn[c][k] \in 1 .. Len(evs)
      /\ \A c \in Callback, i \in 1 .. Len(evs) :
            IF Contains(Due(evs[i].topic), c) /\ ~Owes(fs, c, i) THEN \E k : Calls(sn, c, i) = {k}
                                                                 ELSE Calls(sn, c, i) = {}
  BY DEF BusOK, SeenOK
<1>3. 1 \in 1 .. Len(fs) /\ top \in Frame /\ top.event \in Event /\ top.event.topic \in RouterTopic
  <2>1. 1 \in 1 .. Len(fs)
    BY <1>1
  <2>2. top \in Frame
    BY <1>1, <2>1, ElementOfSeq
  <2>3. top.event \in Event
    BY <2>2 DEF Frame
  <2>4. top.event.topic \in RouterTopic
    BY <2>3 DEF Event, RouterTopic
  <2> QED
    BY <2>1, <2>2, <2>3, <2>4
<1>4. /\ top.id \in 1 .. Len(evs) /\ top.event = evs[top.id]
      /\ top.left \in {Due(top.event.topic), <<"router">>, <<>>} /\ top.left # <<>>
  BY <1>1, <1>3
<1>5. /\ c0 \in Callback /\ Contains(Due(top.event.topic), c0) /\ Tail(top.left) \in Seq(Callback)
      /\ Tail(top.left) \in {Due(top.event.topic), <<"router">>, <<>>}
      /\ \A c : Contains(Tail(top.left), c) <=> Contains(top.left, c) /\ c # c0
  BY <1>3, <1>4, LeftFacts
<1>6. /\ after \in Frame /\ after.id = top.id /\ after.event = top.event /\ after.left = Tail(top.left)
  BY <1>3, <1>5 DEF Frame
<1>7. /\ Tail(fs) \in Seq(Frame) /\ Len(Tail(fs)) = Len(fs) - 1
      /\ \A j \in 1 .. Len(fs) - 1 : Tail(fs)[j] = fs[j + 1]
  BY <1>1, HeadTailProperties
<1>8. /\ rest \in Seq(Frame) /\ Len(rest) = Len(fs)
      /\ \A j \in 1 .. Len(fs) : rest[j] = IF j = 1 THEN after ELSE fs[j]
  <2>1. <<after>> \in Seq(Frame) /\ Len(<<after>>) = 1 /\ <<after>>[1] = after
    BY <1>6
  <2>2. /\ rest \in Seq(Frame) /\ Len(rest) = 1 + (Len(fs) - 1)
        /\ \A j \in 1 .. 1 + (Len(fs) - 1) : rest[j] = IF j <= 1 THEN <<after>>[j] ELSE Tail(fs)[j - 1]
    BY <1>7, <2>1, ConcatProperties
  <2> HIDE DEF rest
  <2>4. 1 + (Len(fs) - 1) = Len(fs)
    BY <1>1
  <2>3. ASSUME NEW j \in 1 .. Len(fs) PROVE rest[j] = IF j = 1 THEN after ELSE fs[j]
    <3>1. rest[j] = IF j <= 1 THEN <<after>>[j] ELSE Tail(fs)[j - 1]
      BY <2>2, <2>4
    <3>2. CASE j = 1
      BY <2>1, <3>1, <3>2
    <3>3. CASE j # 1
      <4>1. ~(j <= 1) /\ j - 1 \in 1 .. Len(fs) - 1 /\ (j - 1) + 1 = j
        BY <1>1, <3>3
      <4> QED
        BY <1>7, <3>1, <3>3, <4>1
    <3> QED
      BY <3>2, <3>3
  <2> QED
    BY <2>2, <2>3, <2>4
<1> HIDE DEF rest, c0
<1>9. FramesOK(rest, evs)
  <2>1. \A j \in 1 .. Len(fs) : rest[j].id = fs[j].id /\ rest[j].event = fs[j].event
    BY <1>6, <1>8
  <2>2. \A j \in 1 .. Len(fs) : rest[j].left \in {Due(fs[j].event.topic), <<"router">>, <<>>}
    <3> SUFFICES ASSUME NEW j \in 1 .. Len(fs)
                 PROVE  rest[j].left \in {Due(fs[j].event.topic), <<"router">>, <<>>}
      OBVIOUS
    <3>1. CASE j = 1
      BY <1>5, <1>6, <1>8, <3>1
    <3>2. CASE j # 1
      BY <1>1, <1>8, <3>2
    <3> QED
      BY <3>1, <3>2
  <2> QED
    BY <1>1, <1>8, <2>1, <2>2 DEF FramesOK
<1>10. ASSUME NEW c \in Callback, NEW i \in 1 .. Len(evs)
       PROVE  Owes(rest, c, i) <=> Owes(fs, c, i) /\ ~(c = c0 /\ i = top.id)
  <2>1. ASSUME Owes(rest, c, i) PROVE Owes(fs, c, i) /\ ~(c = c0 /\ i = top.id)
    <3>1. PICK j \in 1 .. Len(fs) : rest[j].id = i /\ Contains(rest[j].left, c)
      BY <1>8, <2>1 DEF Owes
    <3>2. CASE j = 1
      <4>1. i = top.id /\ Contains(Tail(top.left), c)
        BY <1>6, <1>8, <3>1, <3>2
      <4>2. c # c0 /\ Contains(fs[1].left, c)
        BY <1>5, <4>1
      <4> QED
        BY <1>3, <4>1, <4>2 DEF Owes
    <3>3. CASE j # 1
      <4>1. fs[j].id = i /\ Contains(fs[j].left, c)
        BY <1>8, <3>1, <3>3
      <4>2. i # top.id
        BY <1>1, <1>3, <3>3, <4>1
      <4> QED
        BY <4>1, <4>2 DEF Owes
    <3> QED
      BY <3>2, <3>3
  <2>2. ASSUME Owes(fs, c, i), ~(c = c0 /\ i = top.id) PROVE Owes(rest, c, i)
    <3>1. PICK j \in 1 .. Len(fs) : fs[j].id = i /\ Contains(fs[j].left, c)
      BY <2>2 DEF Owes
    <3>2. CASE j = 1
      <4>1. rest[1].id = i /\ Contains(rest[1].left, c)
        BY <1>3, <1>5, <1>6, <1>8, <2>2, <3>1, <3>2
      <4> QED
        BY <1>3, <1>8, <4>1 DEF Owes
    <3>3. CASE j # 1
      BY <1>8, <3>1, <3>3 DEF Owes
    <3> QED
      BY <3>2, <3>3
  <2> QED
    BY <2>1, <2>2
<1>11. /\ new \in [Callback -> Seq(Nat)]
       /\ \A c \in Callback : c # c0 => new[c] = sn[c]
       /\ Len(sn[c0]) \in Nat /\ Len(new[c0]) = Len(sn[c0]) + 1 /\ new[c0][Len(sn[c0]) + 1] = top.id
       /\ \A k \in 1 .. Len(sn[c0]) : new[c0][k] = sn[c0][k]
  <2>1. sn[c0] \in Seq(Nat) /\ top.id \in Nat
    BY <1>2, <1>3, <1>5 DEF Frame
  <2>2. new[c0] = Append(sn[c0], top.id) /\ \A c \in Callback : c # c0 => new[c] = sn[c]
    BY <1>2, <1>5
  <2>3. /\ Append(sn[c0], top.id) \in Seq(Nat) /\ Len(Append(sn[c0], top.id)) = Len(sn[c0]) + 1
        /\ Append(sn[c0], top.id)[Len(sn[c0]) + 1] = top.id
        /\ \A k \in 1 .. Len(sn[c0]) : Append(sn[c0], top.id)[k] = sn[c0][k]
    BY <2>1, AppendProperties
  <2>4. new \in [Callback -> Seq(Nat)]
    BY <1>2, <1>5, <2>3
  <2> QED
    BY <2>1, <2>2, <2>3, <2>4, LenProperties
<1> HIDE DEF new
<1>12. \A k \in 1 .. Len(sn[c0]) + 1 : k \in 1 .. Len(sn[c0]) \/ k = Len(sn[c0]) + 1
  BY <1>11
<1>13. ASSUME NEW c \in Callback PROVE \A k \in 1 .. Len(new[c]) : new[c][k] \in 1 .. Len(evs)
  <2>1. CASE c = c0
    BY <1>2, <1>4, <1>11, <1>12, <2>1
  <2>2. CASE c # c0
    BY <1>2, <1>11, <2>2
  <2> QED
    BY <2>1, <2>2
<1>14. ASSUME NEW c \in Callback, NEW i \in 1 .. Len(evs)
       PROVE  IF Contains(Due(evs[i].topic), c) /\ ~Owes(rest, c, i) THEN \E k : Calls(new, c, i) = {k}
                                                                     ELSE Calls(new, c, i) = {}
  <2>1. CASE c = c0 /\ i = top.id
    <3>1. Owes(fs, c, i)
      <4>1. Contains(fs[1].left, c0)
        BY <1>3, <1>4, LeftHead DEF c0
      <4> QED
        BY <1>3, <2>1, <4>1 DEF Owes
    <3>2. Calls(sn, c, i) = {}
      BY <1>2, <3>1
    <3>3. Calls(new, c, i) = {Len(sn[c0]) + 1}
      BY <1>11, <1>12, <2>1, <3>2 DEF Calls
    <3>4. Contains(Due(evs[i].topic), c) /\ ~Owes(rest, c, i)
      BY <1>4, <1>5, <1>10, <2>1
    <3> QED
      BY <3>3, <3>4
  <2>2. CASE ~(c = c0 /\ i = top.id)
    <3>1. Calls(new, c, i) = Calls(sn, c, i)
      <4>1. CASE c # c0
        BY <1>11, <4>1 DEF Calls
      <4>2. CASE c = c0
        <5>1. new[c][Len(sn[c]) + 1] # i
          BY <1>11, <2>2, <4>2
        <5>2. \A k \in 1 .. Len(sn[c]) : k \in 1 .. Len(sn[c]) + 1
          BY <1>11, <4>2
        <5> QED
          BY <1>11, <1>12, <4>2, <5>1, <5>2 DEF Calls
      <4> QED
        BY <4>1, <4>2
    <3>2. Owes(rest, c, i) <=> Owes(fs, c, i)
      BY <1>10, <2>2
    <3> QED
      BY <1>2, <3>1, <3>2
  <2> QED
    BY <2>1, <2>2
<1>15. SeenOK(rest, new, evs)
  BY <1>11, <1>13, <1>14 DEF SeenOK
<1> QED
  BY <1>9, <1>15 DEF BusOK, rest, new, c0

\* A dispatch that is over owes nothing.
LEMMA EndKeeps ==
    ASSUME NEW evs, NEW fs, NEW sn, BusOK(fs, sn, evs), fs # <<>>, fs[1].left = <<>>
    PROVE  BusOK(Tail(fs), sn, evs)
<1>1. /\ fs \in Seq(Frame) /\ Len(fs) \in Nat \ {0}
      /\ \A j \in 1 .. Len(fs) : /\ fs[j].id \in 1 .. Len(evs) /\ fs[j].event = evs[fs[j].id]
                                 /\ fs[j].left \in {Due(fs[j].event.topic), <<"router">>, <<>>}
      /\ \A j, k \in 1 .. Len(fs) : fs[j].id = fs[k].id => j = k
  BY EmptySeq, LenProperties DEF BusOK, FramesOK
<1>2. /\ Tail(fs) \in Seq(Frame) /\ Len(Tail(fs)) = Len(fs) - 1
      /\ \A j \in 1 .. Len(fs) - 1 : Tail(fs)[j] = fs[j + 1]
  BY <1>1, HeadTailProperties
<1>3. \A j \in 1 .. Len(fs) - 1 : j + 1 \in 1 .. Len(fs)
  BY <1>1
<1>4. FramesOK(Tail(fs), evs)
  <2>1. ASSUME NEW j \in 1 .. Len(fs) - 1, NEW k \in 1 .. Len(fs) - 1, Tail(fs)[j].id = Tail(fs)[k].id
        PROVE  j = k
    <3>1. j + 1 = k + 1
      BY <1>1, <1>2, <1>3, <2>1
    <3> QED
      BY <3>1
  <2>2. \A j \in 1 .. Len(fs) - 1 :
           /\ Tail(fs)[j].id \in 1 .. Len(evs) /\ Tail(fs)[j].event = evs[Tail(fs)[j].id]
           /\ Tail(fs)[j].left \in {Due(Tail(fs)[j].event.topic), <<"router">>, <<>>}
    BY <1>1, <1>2, <1>3
  <2> QED
    BY <1>2, <2>1, <2>2 DEF FramesOK
<1>5. \A c, i : Owes(Tail(fs), c, i) <=> Owes(fs, c, i)
  <2> SUFFICES ASSUME NEW c, NEW i PROVE Owes(Tail(fs), c, i) <=> Owes(fs, c, i)
    OBVIOUS
  <2>1. ASSUME Owes(fs, c, i) PROVE Owes(Tail(fs), c, i)
    <3>1. PICK j \in 1 .. Len(fs) : fs[j].id = i /\ Contains(fs[j].left, c)
      BY <2>1 DEF Owes
    <3>2. ~Contains(<<>>, c)
      BY DEF Contains
    <3>3. j # 1
      BY <3>1, <3>2
    <3>4. PICK m : m = j - 1
      OBVIOUS
    <3>5. m \in 1 .. Len(fs) - 1 /\ m + 1 = j
      BY <1>1, <3>3, <3>4
    <3>6. Tail(fs)[m] = fs[j]
      BY <1>2, <3>5
    <3> QED
      BY <1>2, <3>1, <3>5, <3>6 DEF Owes
  <2>2. ASSUME Owes(Tail(fs), c, i) PROVE Owes(fs, c, i)
    <3>1. PICK j \in 1 .. Len(fs) - 1 : Tail(fs)[j].id = i /\ Contains(Tail(fs)[j].left, c)
      BY <1>2, <2>2 DEF Owes
    <3>2. PICK m \in 1 .. Len(fs) : m = j + 1
      BY <1>3
    <3>3. Tail(fs)[j] = fs[m]
      BY <1>2, <3>2
    <3> QED
      BY <3>1, <3>3 DEF Owes
  <2> QED
    BY <2>1, <2>2
<1> QED
  BY <1>4, <1>5 DEF BusOK, SeenOK

BusInv == BusOK(frames, seen, events)

LEMMA OneEvent ==
    ASSUME NEW topic \in RouterTopic \ {"port.packet_received"}
    PROVE  <<[topic |-> topic]>> \in Seq(Event)
<1>1. [topic |-> topic] \in Event
  BY DEF Event
<1> QED
  BY <1>1

LEMMA BusPublish ==
    ASSUME IInv, BusInv, NEW es \in Seq(Event), PublishHere(es), seen' = seen
    PROVE  BusInv'
<1>1. BusOK(Dispatches(es) \o frames, seen, events \o es)
  BY PublishKeeps DEF BusInv, IInv, TypeOK
<1>2. frames' = Dispatches(es) \o frames /\ events' = events \o es
  BY DEF PublishHere
<1> QED
  BY <1>1, <1>2 DEF BusInv

LEMMA BusCall ==
    ASSUME IInv, BusInv, NEW es \in Seq(Event), NEW raises, CallNext(es, raises)
    PROVE  BusInv'
<1>1. PICK top : top = Head(frames)
  OBVIOUS
<1>2. PICK after : after = [top EXCEPT !.left = Tail(top.left)]
  OBVIOUS
<1>3. PICK rest : rest = <<after>> \o Tail(frames)
  OBVIOUS
<1>4. PICK new : new = [seen EXCEPT ![Head(top.left)] = Append(@, top.id)]
  OBVIOUS
<1>5. /\ frames # <<>> /\ top.left # <<>>
      /\ seen' = new /\ frames' = Dispatches(es) \o rest /\ events' = events \o es
  BY <1>1, <1>2, <1>3, <1>4, Zenon DEF CallNext, LeftAfter
<1>6. top = frames[1] /\ events \in Seq(Event)
  BY <1>1, <1>5 DEF IInv, TypeOK
<1>7. BusOK(rest, new, events)
  BY <1>2, <1>3, <1>4, <1>5, <1>6, CallKeeps DEF BusInv
<1>8. BusOK(Dispatches(es) \o rest, new, events \o es)
  BY <1>6, <1>7, PublishKeeps
<1> QED
  BY <1>5, <1>8 DEF BusInv

LEMMA BusStep == IInv /\ BusInv /\ [Next]_vars => BusInv'
<1> SUFFICES ASSUME IInv, BusInv, [Next]_vars PROVE BusInv'
  OBVIOUS
<1>1. ASSUME NEW p \in Port, HandleDataReceived(p) PROVE BusInv'
  <2>1. PICK chunk \in Nat : chunk = counted.rx + 1
    BY DEF IInv, TypeOK
  <2>2. PICK es : es = <<[topic |-> "port.data_received"]>>
                       \o [k \in 1 .. Len(Parse([type |-> "Raw"], <<>>, <<chunk>>).packets) |->
                             [topic |-> "port.packet_received",
                              packet |-> Parse([type |-> "Raw"], <<>>, <<chunk>>).packets[k]]]
    OBVIOUS
  <2>3. es \in Seq(Event)
    BY <2>2, ReceivedEvents
  <2>4. PublishHere(es) /\ seen' = seen
    BY <1>1, <2>1, <2>2 DEF HandleDataReceived
  <2> QED
    BY <2>3, <2>4, BusPublish
<1>2. ASSUME NEW topic \in RouterTopic \ {"port.packet_received"}, PublishHere(<<[topic |-> topic]>>), seen' = seen
      PROVE  BusInv'
  BY <1>2, OneEvent, BusPublish
<1>3. CASE DataSent \/ PortClosed \/ StartMacro
  <2>1. /\ {"port.data_sent", "port.closed", "macro.started"} \subseteq RouterTopic \ {"port.packet_received"}
        /\ seen' = seen
    BY <1>3 DEF DataSent, PortClosed, StartMacro, RouterTopic
  <2>2. PICK topic \in {"port.data_sent", "port.closed", "macro.started"} : PublishHere(<<[topic |-> topic]>>)
    BY <1>3 DEF DataSent, PortClosed, StartMacro
  <2> QED
    BY <1>2, <2>1, <2>2
<1>4. CASE UNCHANGED <<frames, seen, events>>
  BY <1>4 DEF BusInv
<1>5. CASE ThreadPublishes
  BY <1>4, <1>5 DEF ThreadPublishes
<1>6. CASE FlushRxBuffer \/ UpdateStatusBar \/ \E t \in Tabs : FlushBuffer(t)
  BY <1>4, <1>6 DEF FlushRxBuffer, UpdateStatusBar, FlushBuffer, busVars
<1>7. CASE CallSubscriber
  <2>1. <<[topic |-> "macro.finished"]>> \in Seq(Event) /\ <<>> \in Seq(Event)
    BY OneEvent DEF RouterTopic
  <2>2. \E es \in {<<>>, <<[topic |-> "macro.finished"]>>}, raises \in BOOLEAN : CallNext(es, raises)
    <3> DEFINE e == Head(frames).event  c == Head(Head(frames).left)
    <3>0. Called(c, e)
      BY <1>7 DEF CallSubscriber
    <3> HIDE DEF c, e
    <3>1. CASE c = "router" /\ e.topic \in {"port.packet_received", "port.data_sent"}
      BY <3>0, <3>1 DEF Called
    <3>2. CASE c = "router" /\ e.topic = "port.closed"
      BY <3>0, <3>2 DEF Called
    <3>3. CASE ~(c = "router" /\ e.topic \in {"port.packet_received", "port.data_sent", "port.closed"})
      BY <3>0, <3>3 DEF Called
    <3> QED
      BY <3>1, <3>2, <3>3
  <2>3. PICK es \in {<<>>, <<[topic |-> "macro.finished"]>>}, raises \in BOOLEAN : CallNext(es, raises)
    BY <2>2
  <2>4. es \in Seq(Event)
    BY <2>1
  <2> QED
    BY <2>3, <2>4, BusCall
<1>8. CASE ServeBus
  <2>1. CASE DispatchEvent
    <3>1. /\ pending \in Seq(Event) /\ pending # <<>> /\ PublishHere(<<Head(pending)>>) /\ seen' = seen
      BY <2>1 DEF DispatchEvent, IInv, TypeOK
    <3>2. PICK e \in Event : e = Head(pending)
      BY <3>1
    <3>3. <<e>> \in Seq(Event)
      OBVIOUS
    <3> QED
      BY <3>1, <3>2, <3>3, BusPublish
  <2>2. CASE DispatchEnds
    <3>1. frames # <<>> /\ frames[1].left = <<>> /\ frames' = Tail(frames) /\ UNCHANGED <<seen, events>>
      BY <2>2 DEF DispatchEnds, IInv, TypeOK
    <3>2. BusOK(Tail(frames), seen, events)
      BY <3>1, EndKeeps DEF BusInv
    <3> QED
      BY <3>1, <3>2 DEF BusInv
  <2> QED
    BY <1>8, <2>1, <2>2 DEF ServeBus
<1>9. CASE User
  BY <1>4, <1>9 DEF User, SelectPort, TogglePause, LocalEcho, ClearDataLog, RefreshAllData, ToggleCapture, ClearPackets,
                    StopHandler, PacketSettings, busVars, Input
<1>10. CASE UNCHANGED vars
  BY <1>4, <1>10 DEF vars, busVars
<1> QED
  BY <1>1, <1>3, <1>5, <1>6, <1>7, <1>8, <1>9, <1>10 DEF Next

LEMMA BusInitHolds == Init => BusInv
<1> SUFFICES ASSUME Init PROVE BusInv
  OBVIOUS
<1>1. frames = <<>> /\ events = <<>> /\ seen = [c \in Callback |-> <<>>]
  BY DEF Init, BusInit
<1>2. frames \in Seq(Frame) /\ Len(frames) = 0 /\ Len(events) = 0
  BY <1>1
<1>3. seen \in [Callback -> Seq(Nat)] /\ \A c \in Callback : Len(seen[c]) = 0
  BY <1>1
<1> QED
  BY <1>2, <1>3 DEF BusInv, BusOK, FramesOK, SeenOK

\* Once no dispatch is in progress every event has reached each subscriber of its topic exactly once,
\* and no one else, however the dispatches nested, what the subscribers raised and what other threads
\* published meanwhile (EventBus._notify_subscribers, publish).
THEOREM EveryEventReachesAll == Spec => []EventsReachAll
<1>1. BusInv => EventsReachAll
  <2> SUFFICES ASSUME BusInv, Idle, NEW c \in Callback, NEW i \in 1 .. Len(events)
               PROVE  Cardinality(Calls(seen, c, i)) = (IF Contains(Due(events[i].topic), c) THEN 1 ELSE 0)
    BY DEF EventsReachAll, Calls
  <2>1. ~Owes(frames, c, i)
    <3>1. Len(frames) = 0
      BY DEF Idle
    <3> QED
      BY <3>1 DEF Owes
  <2>2. CASE Contains(Due(events[i].topic), c)
    <3>1. PICK k : Calls(seen, c, i) = {k}
      BY <2>1, <2>2 DEF BusInv, BusOK, SeenOK
    <3> QED
      BY <2>2, <3>1, FS_Singleton
  <2>3. CASE ~Contains(Due(events[i].topic), c)
    <3>1. Calls(seen, c, i) = {}
      BY <2>3 DEF BusInv, BusOK, SeenOK
    <3> QED
      BY <2>3, <3>1, FS_EmptySet
  <2> QED
    BY <2>2, <2>3
<1> QED
  BY <1>1, InitHolds, Step, BusInitHolds, BusStep, PTL DEF Spec

-----------------------------------------------------------------------------
(* The list of the system log *)

LEMMA MinOfTwo ==
    ASSUME NEW a \in Int, NEW b \in Int
    PROVE  Min({a, b}) = IF a <= b THEN a ELSE b
<1>1. Min({a, b}) \in {a, b} /\ \A y \in {a, b} : Min({a, b}) <= y
  <2>1. \E x \in {a, b} : \A y \in {a, b} : x <= y
    OBVIOUS
  <2> QED BY <2>1, Zenon DEF Min
<1> QED BY <1>1

\* The guard of _trim against removing too much never applies: above the limit, a fifth less
\* still leaves four fifths of it.
LEMMA RemovedOfMany ==
    ASSUME NEW n \in Nat
    PROVE  /\ TrimSize \in Nat /\ TrimSize <= MaxLines
           /\ RemoveCount(n) = IF n <= MaxLines THEN 0 ELSE TrimSize
  BY LogAssumption DEF TrimSize, RemoveCount

\* The lines kept are known from their number and that of the last one.
Newest(last, n) == [i \in 1 .. n |-> last - n + i]
Batch(last, n) == [i \in 1 .. n |-> last + i]

Limits(n, last, since, above) ==
    n <= MaxLines + above /\ n >= Min({last - since, MaxLines - TrimSize})

LogInv == /\ written \in Nat /\ cleared \in 0 .. written /\ excess \in Nat
        /\ Len(lines) \in 0 .. written /\ lines = Newest(written, Len(lines))
        /\ Limits(Len(lines), written, cleared, excess)

LEMMA NewestLength ==
    ASSUME NEW last \in Nat, NEW n \in Nat
    PROVE  Newest(last, n) \in Seq(Int) /\ Len(Newest(last, n)) = n
<1>1. \A i \in 1 .. n : last - n + i \in Int
  OBVIOUS
<1>2. Newest(last, n) \in Seq(Int)
  BY <1>1 DEF Newest
<1> QED
  BY <1>2 DEF Newest

\* More of the newest, and the oldest of them removed, are the newest.
LEMMA NewestExtended ==
    ASSUME NEW last \in Nat, NEW n \in 0 .. last, NEW k \in Nat
    PROVE  Newest(last, n) \o Batch(last, k) = Newest(last + k, n + k)
<1> DEFINE s == Newest(last, n)  t == Batch(last, k)
<1>1. s \in Seq(Int) /\ Len(s) = n /\ \A i \in 1 .. n : s[i] = last - n + i
  BY NewestLength DEF Newest
<1>2. t \in Seq(Int) /\ Len(t) = k /\ \A i \in 1 .. k : t[i] = last + i
  <2>1. \A i \in 1 .. k : last + i \in Int
    OBVIOUS
  <2> QED BY <2>1 DEF Batch
<1>3. Newest(last + k, n + k) \in Seq(Int) /\ Len(Newest(last + k, n + k)) = n + k
      /\ \A i \in 1 .. n + k : Newest(last + k, n + k)[i] = last - n + i
  <2>1. \A i \in 1 .. n + k : (last + k) - (n + k) + i = last - n + i
    OBVIOUS
  <2> QED BY <2>1, NewestLength DEF Newest
<1> HIDE DEF s, t
<1>4. s \o t \in Seq(Int) /\ Len(s \o t) = n + k
      /\ \A i \in 1 .. n + k : (s \o t)[i] = IF i <= n THEN s[i] ELSE t[i - n]
  BY <1>1, <1>2, ConcatProperties, ZenonT(40)
<1>5. \A i \in 1 .. n + k : (s \o t)[i] = Newest(last + k, n + k)[i]
  <2> SUFFICES ASSUME NEW i \in 1 .. n + k
               PROVE  (s \o t)[i] = Newest(last + k, n + k)[i]
    OBVIOUS
  <2>1. CASE i <= n
    <3>1. i \in 1 .. n
      BY <2>1
    <3> QED BY <1>1, <1>3, <1>4, <3>1
  <2>2. CASE ~(i <= n)
    <3>1. i - n \in 1 .. k /\ last + (i - n) = last - n + i
      BY <2>2
    <3> QED BY <1>2, <1>3, <1>4, <2>2, <3>1
  <2> QED BY <2>1, <2>2
<1> QED
  BY <1>3, <1>4, <1>5, SeqEqual DEF s, t

LEMMA NewestTrimmed ==
    ASSUME NEW last \in Nat, NEW n \in 0 .. last, NEW r \in 0 .. n
    PROVE  SubSeq(Newest(last, n), r + 1, n) = Newest(last, n - r)
<1> DEFINE s == Newest(last, n)
<1>1. s \in Seq(Int) /\ Len(s) = n /\ \A i \in 1 .. n : s[i] = last - n + i
  BY NewestLength DEF Newest
<1>2. /\ Newest(last, n - r) \in Seq(Int) /\ Len(Newest(last, n - r)) = n - r
      /\ \A i \in 1 .. n - r : Newest(last, n - r)[i] = last - n + (r + i)
  <2>1. n - r \in Nat /\ \A i \in 1 .. n - r : last - (n - r) + i = last - n + (r + i)
    OBVIOUS
  <2> QED BY <2>1, NewestLength DEF Newest
<1> HIDE DEF s
<1>3. /\ SubSeq(s, r + 1, n) \in Seq(Int) /\ Len(SubSeq(s, r + 1, n)) = n - r
      /\ \A i \in 1 .. n - r : SubSeq(s, r + 1, n)[i] = s[r + i]
  BY <1>1
<1>4. \A i \in 1 .. n - r : SubSeq(s, r + 1, n)[i] = Newest(last, n - r)[i]
  BY <1>1, <1>2, <1>3
<1> QED
  BY <1>2, <1>3, <1>4, SeqEqual DEF s

LEMMA LimitsAppended ==
    ASSUME LogInv, NEW k \in Nat,
           NEW n, n = Len(lines) + k
    PROVE  Limits(n - RemoveCount(n), written + k, cleared,
                  excess + (IF k > TrimSize THEN k - TrimSize ELSE 0))
<1>1. /\ MaxLines \in Nat /\ TrimSize \in Nat /\ TrimSize <= MaxLines /\ n \in Nat
      /\ RemoveCount(n) = IF n <= MaxLines THEN 0 ELSE TrimSize
  BY LogAssumption, RemovedOfMany DEF LogInv
<1>2. Min({written - cleared, MaxLines - TrimSize})
        = IF written - cleared <= MaxLines - TrimSize THEN written - cleared ELSE MaxLines - TrimSize
  BY <1>1, MinOfTwo DEF LogInv
<1>3. Min({written + k - cleared, MaxLines - TrimSize})
        = IF written + k - cleared <= MaxLines - TrimSize THEN written + k - cleared
                                                         ELSE MaxLines - TrimSize
  BY <1>1, MinOfTwo DEF LogInv
<1> QED
  BY <1>1, <1>2, <1>3 DEF LogInv, Limits

LEMMA AppendStep == ASSUME LogInv, NEW k \in Piece, AppendLog(k) PROVE LogInv'
<1> DEFINE n == Len(lines) + k
           r == RemoveCount(n)
<1>1. /\ k \in Nat /\ n \in Nat /\ r \in 0 .. n /\ n <= written + k /\ written' = written + k
      /\ cleared' = cleared /\ n - r \in Nat
      /\ excess' = excess + (IF k > TrimSize THEN k - TrimSize ELSE 0)
  BY LogAssumption, RemovedOfMany DEF LogInv, AppendLog
<1>0. written \in Nat /\ written + k \in Nat /\ n \in 0 .. written + k /\ Len(lines) \in 0 .. written
  BY <1>1 DEF LogInv
<1>2. lines \o Batch(written, k) = Newest(written + k, n)
  <2>1. Newest(written, Len(lines)) \o Batch(written, k) = Newest(written + k, Len(lines) + k)
    BY <1>0, <1>1, NewestExtended
  <2> QED BY <2>1 DEF LogInv
<1>3. Len(Newest(written + k, n)) = n
  BY <1>0, <1>1, NewestLength
<1>4. lines' = SubSeq(Newest(written + k, n), r + 1, n)
  BY <1>2, <1>3 DEF AppendLog, Trimmed, Batch
<1>9. n \in Nat /\ r \in 0 .. n /\ n - r \in Nat
  BY <1>1
<1> HIDE DEF n, r
<1>5. lines' = Newest(written + k, n - r)
  BY <1>0, <1>9, <1>4, NewestTrimmed
<1>6. Len(lines') = n - r
  BY <1>0, <1>9, <1>5, NewestLength
<1> USE DEF n, r
<1>7. Limits(n - r, written + k, cleared, excess + (IF k > TrimSize THEN k - TrimSize ELSE 0))
  BY <1>1, LimitsAppended
<1>8. excess' \in Nat
  BY <1>1, RemovedOfMany, LogAssumption DEF LogInv
<1> HIDE DEF n, r
<1> QED
  BY <1>1, <1>5, <1>6, <1>7, <1>8 DEF LogInv

LEMMA LogStep == LogInv /\ [LogNext]_logVars => LogInv'
<1> SUFFICES ASSUME LogInv, [LogNext]_logVars PROVE LogInv'
  OBVIOUS
<1>1. CASE UNCHANGED <<lines, written, cleared, excess>>
  BY <1>1 DEF LogInv, Limits
<1>2. CASE ClearLog
  <2>1. /\ lines' = <<>> /\ cleared' = written /\ written' = written /\ excess' = excess
    BY <1>2 DEF ClearLog
  <2>2. MaxLines \in Nat /\ TrimSize \in Nat /\ TrimSize <= MaxLines
    BY LogAssumption, RemovedOfMany
  <2>3. Min({0, MaxLines - TrimSize}) = 0
    BY <2>2, MinOfTwo
  <2>4. Newest(written, 0) = <<>>
    BY NewestLength DEF LogInv
  <2> QED
    BY <2>1, <2>2, <2>3, <2>4 DEF LogInv, Limits
<1>3. ASSUME NEW n \in Piece, AppendLog(n) PROVE LogInv'
  BY <1>3, AppendStep
<1>4. CASE FilterTimeout \/ UNCHANGED logVars
  BY <1>1, <1>4 DEF FilterTimeout, logVars
<1>5. ASSUME NEW t \in Text \cup {NoText}, TypeText(t) PROVE LogInv'
  BY <1>1, <1>5 DEF TypeText
<1>6. CASE ToggleFilter \/ FindNext \/ FindPrev
  BY <1>1, <1>6 DEF ToggleFilter, FindNext, FindPrev
<1> QED
  BY <1>2, <1>3, <1>4, <1>5, <1>6 DEF LogNext, LogUser

-----------------------------------------------------------------------------
(* The filter and the search of the list *)

\* A nonempty set of numbers has a least one, and a bounded one a greatest.
LEMMA LeastNumber ==
    ASSUME NEW S, S \subseteq Nat, S # {}
    PROVE  \E x \in S : \A y \in S : x <= y
<1>1. PICK x \in S : \A y \in S : <<y, x>> \notin OpToRel(<, Nat)
  BY WFMin, NatLessThanWellFounded, Zenon
<1>2. \A y \in S : ~(y < x)
  BY <1>1, Zenon DEF OpToRel
<1> QED
  BY <1>2

LEMMA MinFacts ==
    ASSUME NEW S, S \subseteq Nat, S # {}
    PROVE  Min(S) \in S /\ \A y \in S : Min(S) <= y
<1>1. \E x \in S : \A y \in S : x =< y
  BY LeastNumber
<1> QED
  BY <1>1, Zenon DEF Min

LEMMA MaxFacts ==
    ASSUME NEW S, S \subseteq Nat, S # {}, NEW n \in Nat, \A y \in S : y <= n
    PROVE  Max(S) \in S /\ \A y \in S : y <= Max(S)
<1> DEFINE U == {u \in Nat : \A y \in S : y <= u}
<1>1. PICK u \in U : \A v \in U : u <= v
  <2>1. n \in U /\ U \subseteq Nat
    OBVIOUS
  <2> HIDE DEF U
  <2> QED
    BY <2>1, LeastNumber
<1>2. u \in S
  <2> SUFFICES ASSUME u \notin S PROVE FALSE
    OBVIOUS
  <2>1. PICK y \in S : TRUE
    OBVIOUS
  <2>2. u # 0
    BY <2>1, <1>1
  <2>3. u - 1 \in U
    BY <2>2, <1>1
  <2> QED
    BY <2>3, <1>1
<1>3. \E x \in S : \A y \in S : x >= y
  BY <1>1, <1>2
<1>4. Max(S) \in S /\ \A y \in S : Max(S) >= y
  BY <1>3, Zenon DEF Max
<1> QED
  BY <1>4

LEMMA MinIs ==
    ASSUME NEW S, S \subseteq Nat, NEW x \in S, \A y \in S : x <= y
    PROVE  Min(S) = x
<1>1. PICK m : m = Min(S)
  OBVIOUS
<1>2. m \in S /\ m <= x
  BY <1>1, MinFacts
<1>3. m \in Nat /\ x \in Nat /\ x <= m
  BY <1>2
<1> QED
  BY <1>1, <1>2, <1>3

LEMMA MaxIs ==
    ASSUME NEW S, S \subseteq Nat, NEW x \in S, \A y \in S : y <= x
    PROVE  Max(S) = x
<1>0. x \in Nat
  OBVIOUS
<1>1. PICK m : m = Max(S)
  OBVIOUS
<1>2. m \in S /\ x <= m
  BY <1>0, <1>1, MaxFacts
<1>3. m \in Nat /\ m <= x
  BY <1>2
<1> QED
  BY <1>0, <1>1, <1>2, <1>3

LEMMA IsSequence ==
    ASSUME NEW n \in Nat, NEW f, f = [k \in 1 .. n |-> f[k]], \A k \in 1 .. n : f[k] \in Int
    PROVE  f \in Seq(Int) /\ Len(f) = n
<1>1. [k \in 1 .. n |-> f[k]] \in Seq(Int)
  OBVIOUS
<1>2. Len([k \in 1 .. n |-> f[k]]) = n
  OBVIOUS
<1> QED
  BY <1>1, <1>2

\* Rows are the numbers of the lines, from the oldest kept on.
Oldest == written - Len(lines)

LEMMA LinesAre ==
    ASSUME LogInv
    PROVE  /\ Oldest \in Nat /\ Len(lines) \in Nat /\ lines \in Seq(Int)
           /\ \A i \in 1 .. Len(lines) : lines[i] = Oldest + i
           /\ ToSet(lines) = {Oldest + i : i \in 1 .. Len(lines)}
<1>1. written \in Nat /\ Len(lines) \in 0 .. written /\ lines = Newest(written, Len(lines))
  BY DEF LogInv
<1> DEFINE n == Len(lines)
<1>2. n \in 0 .. written /\ lines = Newest(written, n)
  BY <1>1
<1> HIDE DEF n
<1>3. lines \in Seq(Int) /\ DOMAIN lines = 1 .. n /\ \A i \in 1 .. n : lines[i] = written - n + i
  <2>1. written \in Nat /\ n \in Nat
    BY <1>1, <1>2
  <2>2. Newest(written, n) \in Seq(Int)
    BY <2>1, NewestLength
  <2>3. lines = [i \in 1 .. n |-> written - n + i]
    BY <1>2 DEF Newest
  <2> QED
    BY <1>2, <2>2, <2>3
<1>4. Len(lines) = n /\ Oldest = written - n
  BY DEF Oldest, n
<1>5. \A i \in 1 .. n : lines[i] = Oldest + i
  BY <1>1, <1>3, <1>4
<1>6. ToSet(lines) = {Oldest + i : i \in 1 .. n}
  BY <1>3, <1>5 DEF ToSet
<1>7. Oldest \in Nat /\ n \in Nat
  BY <1>1, <1>2, <1>4
<1> QED
  BY <1>3, <1>4, <1>5, <1>6, <1>7

FilterInv ==
    /\ ~debounce => hidden = (IF filter THEN pattern ELSE NoText)
    /\ current \in ShownRows(lines, hidden) \cup {NoRow}

LEMMA CurrentShown ==
    ASSUME NEW shown, shown \subseteq Nat, NEW line \in Nat
    PROVE  CurrentIn(shown, line) \in shown \cup {NoRow}
<1> DEFINE above == {l \in shown : l < line}
<1>1. above # {} => Max(above) \in shown
  <2>1. above \subseteq Nat /\ \A y \in above : y <= line
    <3>1. \A y \in shown : y \in Nat /\ (y < line => y <= line)
      OBVIOUS
    <3> QED
      BY <3>1
  <2> HIDE DEF above
  <2>2. above # {} => Max(above) \in above
    BY <2>1, MaxFacts
  <2> QED
    BY <2>2 DEF above
<1>2. shown # {} => Min(shown) \in shown
  BY MinFacts
<1> QED
  BY <1>1, <1>2 DEF CurrentIn

\* A row that is found is shown.
LEMMA FoundFirst ==
    ASSUME NEW order \in Seq(Int), NEW p,
           NEW H, H = {i \in 1 .. Len(order) : Matches(order[i], hidden) /\ Matches(order[i], p)}
    PROVE  /\ H = {} => Found(order, p) = current
           /\ H # {} => \E k \in H : (\A j \in H : k <= j) /\ Found(order, p) = order[k]
<1> DEFINE first == SelectInSeq(order, LAMBDA l : Matches(l, hidden) /\ Matches(l, p))
<1>1. first = IF H # {} THEN Min(H) ELSE 0
  BY DEF SelectInSeq
<1>2. Found(order, p) = IF first = 0 THEN current ELSE order[first]
  BY DEF Found
<1>3. H \subseteq Nat \ {0}
  OBVIOUS
<1> HIDE DEF first
<1> QED
  BY <1>1, <1>2, <1>3, MinFacts

LEMMA RowFacts ==
    ASSUME LogInv, current \in ToSet(lines) \cup {NoRow}
    PROVE  /\ RowOf(lines, current) \in 0 .. Len(lines)
           /\ current = IF RowOf(lines, current) = 0 THEN NoRow ELSE Oldest + RowOf(lines, current)
<1> DEFINE I == {i \in 1 .. Len(lines) : lines[i] = current}
<1>1. RowOf(lines, current) = IF I # {} THEN Min(I) ELSE 0
  BY DEF RowOf, SelectInSeq
<1>2. I \subseteq Nat /\ \A i \in I : i \in 1 .. Len(lines) /\ current = Oldest + i
  BY LinesAre
<1>3. I = {} => current = NoRow
  BY LinesAre
<1>5. \A i \in I : i # 0 /\ i \in 0 .. Len(lines)
  BY <1>2, LinesAre
<1>6. 0 \in 0 .. Len(lines)
  BY LinesAre
<1> HIDE DEF I
<1>4. I # {} => Min(I) \in I
  BY <1>2, MinFacts
<1>7. PICK k : k = RowOf(lines, current)
  OBVIOUS
<1>8. CASE I = {}
  BY <1>1, <1>3, <1>6, <1>8
<1>9. CASE I # {}
  <2>1. k \in I
    BY <1>1, <1>4, <1>7, <1>9
  <2>2. k # 0 /\ k \in 0 .. Len(lines) /\ current = Oldest + k
    BY <1>2, <1>5, <2>1
  <2> QED
    BY <1>7, <2>2
<1> QED
  BY <1>8, <1>9

LEMMA NextOrderIs ==
    ASSUME LogInv, NEW row, row = RowOf(lines, current), row \in 0 .. Len(lines)
    PROVE  /\ NextOrder(lines, current) \in Seq(Int) /\ Len(NextOrder(lines, current)) = Len(lines)
           /\ \A k \in 1 .. Len(lines) : NextOrder(lines, current)[k]
                 = IF k <= Len(lines) - row THEN Oldest + (row + k) ELSE Oldest + (k - (Len(lines) - row))
<1> DEFINE a == SubSeq(lines, row + 1, Len(lines))  b == SubSeq(lines, 1, row)
<1>1. NextOrder(lines, current) = a \o b
  BY DEF NextOrder
<1>2. /\ a \in Seq(Int) /\ Len(a) = Len(lines) - row
      /\ \A k \in 1 .. Len(lines) - row : a[k] = lines[row + k]
  BY LinesAre
<1>3. b \in Seq(Int) /\ Len(b) = row /\ \A k \in 1 .. row : b[k] = lines[k]
  BY LinesAre
<1>4. Len(lines) \in Nat
  BY LinesAre
<1> HIDE DEF a, b
<1>5. /\ a \o b \in Seq(Int) /\ Len(a \o b) = Len(lines)
      /\ \A k \in 1 .. Len(lines) : (a \o b)[k] = IF k <= Len(lines) - row THEN a[k] ELSE b[k - (Len(lines) - row)]
  BY <1>2, <1>3, <1>4, ConcatProperties
<1>6. ASSUME NEW k \in 1 .. Len(lines)
      PROVE  (a \o b)[k] = IF k <= Len(lines) - row THEN Oldest + (row + k) ELSE Oldest + (k - (Len(lines) - row))
  <2>1. CASE k <= Len(lines) - row
    <3>1. k \in 1 .. Len(lines) - row /\ row + k \in 1 .. Len(lines)
      BY <1>4, <2>1
    <3> QED
      BY <1>2, <1>5, <2>1, <3>1, LinesAre
  <2>2. CASE ~(k <= Len(lines) - row)
    <3>1. k - (Len(lines) - row) \in 1 .. row /\ k - (Len(lines) - row) \in 1 .. Len(lines)
      BY <1>4, <2>2
    <3> QED
      BY <1>3, <1>5, <2>2, <3>1, LinesAre
  <2> QED
    BY <2>1, <2>2
<1> QED
  BY <1>1, <1>5, <1>6

LEMMA PrevOrderIs ==
    ASSUME LogInv, NEW row, row = RowOf(lines, current), row \in 0 .. Len(lines),
           NEW start, start = IF row = 0 THEN Len(lines) ELSE row - 1
    PROVE  /\ PrevOrder(lines, current) \in Seq(Int) /\ Len(PrevOrder(lines, current)) = Len(lines)
           /\ start \in 0 .. Len(lines)
           /\ \A k \in 1 .. Len(lines) : PrevOrder(lines, current)[k]
                 = IF k <= start THEN Oldest + (start - k + 1) ELSE Oldest + (Len(lines) - (k - start) + 1)
<1>4. Len(lines) \in Nat /\ start \in 0 .. Len(lines)
  BY LinesAre
<1> DEFINE s1 == SubSeq(lines, 1, start)  s2 == SubSeq(lines, start + 1, Len(lines))
           a == Reverse(s1)  b == Reverse(s2)
<1>1. PrevOrder(lines, current) = a \o b
  BY DEF PrevOrder
<1>2. a \in Seq(Int) /\ Len(a) = start /\ \A k \in 1 .. start : a[k] = lines[start - k + 1]
  <2>1. s1 \in Seq(Int) /\ Len(s1) = start /\ \A k \in 1 .. start : s1[k] = lines[k]
    BY <1>4, LinesAre
  <2> HIDE DEF s1
  <2>2. \A k \in 1 .. start : start - k + 1 \in 1 .. start
    BY <1>4
  <2>3. a = [k \in 1 .. start |-> s1[start - k + 1]]
    BY <2>1 DEF Reverse
  <2>4. \A k \in 1 .. start : s1[start - k + 1] \in Int /\ s1[start - k + 1] = lines[start - k + 1]
    <3>1. \A j \in 1 .. start : s1[j] \in Int
      BY <2>1
    <3> QED
      BY <2>1, <2>2, <3>1
  <2> HIDE DEF a
  <2>5. start \in Nat
    BY <1>4
  <2>6. a = [k \in 1 .. start |-> a[k]] /\ \A k \in 1 .. start : a[k] \in Int
    BY <2>3, <2>4
  <2>7. a \in Seq(Int) /\ Len(a) = start
    BY <2>5, <2>6, IsSequence
  <2> QED
    BY <2>3, <2>4, <2>7
<1>3. /\ b \in Seq(Int) /\ Len(b) = Len(lines) - start
      /\ \A k \in 1 .. Len(lines) - start : b[k] = lines[Len(lines) - k + 1]
  <2> DEFINE m == Len(lines) - start
  <2>1. s2 \in Seq(Int) /\ Len(s2) = m /\ \A k \in 1 .. m : s2[k] = lines[start + k]
    <3>1. PICK s \in Seq(Int) : s = lines
      BY LinesAre
    <3>2. PICK n \in Nat : n = Len(s)
      BY <3>1, <1>4
    <3>3. PICK c \in 1 .. n + 1 : c = start + 1
      BY <1>4, <3>1, <3>2
    <3>4. n \in c - 1 .. Len(s)
      BY <3>2
    <3>5. /\ SubSeq(s, c, n) \in Seq(Int) /\ Len(SubSeq(s, c, n)) = n - c + 1
          /\ \A k \in 1 .. n - c + 1 : SubSeq(s, c, n)[k] = s[c + k - 1]
      BY <3>4
    <3>6. n - c + 1 = m /\ \A k \in 1 .. m : c + k - 1 = start + k
      BY <1>4, <3>1, <3>2, <3>3, SMTT(30)
    <3> QED
      BY <3>1, <3>2, <3>3, <3>5, <3>6
  <2>5. m \in Nat
    BY <1>4
  <2> HIDE DEF s2
  <2>2. \A k \in 1 .. m : m - k + 1 \in 1 .. m /\ start + (m - k + 1) = Len(lines) - k + 1
    BY <1>4
  <2>3. b = [k \in 1 .. m |-> s2[m - k + 1]]
    BY <2>1 DEF Reverse
  <2> HIDE DEF m
  <2>4. \A k \in 1 .. m : s2[m - k + 1] \in Int /\ s2[m - k + 1] = lines[Len(lines) - k + 1]
    <3>1. \A j \in 1 .. m : s2[j] \in Int
      BY <2>1
    <3>2. ASSUME NEW k \in 1 .. m PROVE s2[m - k + 1] = lines[Len(lines) - k + 1]
      <4>1. m - k + 1 \in 1 .. m /\ start + (m - k + 1) = Len(lines) - k + 1
        BY <2>2
      <4>2. s2[m - k + 1] = lines[start + (m - k + 1)]
        BY <2>1, <4>1
      <4> QED
        BY <4>1, <4>2
    <3> QED
      BY <2>2, <3>1, <3>2
  <2>6. b \in Seq(Int) /\ Len(b) = m /\ \A k \in 1 .. m : b[k] = lines[Len(lines) - k + 1]
    BY <2>5, <2>3, <2>4
  <2> QED
    BY <2>6 DEF m
<1> HIDE DEF a, b
<1>5. /\ a \o b \in Seq(Int) /\ Len(a \o b) = Len(lines)
      /\ \A k \in 1 .. Len(lines) : (a \o b)[k] = IF k <= start THEN a[k] ELSE b[k - start]
  BY <1>2, <1>3, <1>4, ConcatProperties
<1>6. ASSUME NEW k \in 1 .. Len(lines)
      PROVE  (a \o b)[k] = IF k <= start THEN Oldest + (start - k + 1) ELSE Oldest + (Len(lines) - (k - start) + 1)
  <2>1. CASE k <= start
    <3>1. k \in 1 .. start /\ start - k + 1 \in 1 .. Len(lines)
      BY <1>4, <2>1
    <3> QED
      BY <1>2, <1>5, <2>1, <3>1, LinesAre
  <2>2. CASE ~(k <= start)
    <3>1. k - start \in 1 .. Len(lines) - start /\ Len(lines) - (k - start) + 1 \in 1 .. Len(lines)
      BY <1>4, <2>2
    <3> QED
      BY <1>3, <1>5, <2>2, <3>1, LinesAre
  <2> QED
    BY <2>1, <2>2
<1> QED
  BY <1>1, <1>4, <1>5, <1>6

\* What the search can stop at, by rows.
Hit(line) == Matches(line, hidden) /\ Matches(line, pattern)

LEMMA HitRows ==
    ASSUME LogInv
    PROVE  /\ Hits \subseteq Nat /\ \A l \in Hits : \E i \in 1 .. Len(lines) : l = Oldest + i /\ Hit(l)
           /\ \A i \in 1 .. Len(lines) : Hit(Oldest + i) => Oldest + i \in Hits
           /\ ShownRows(lines, hidden) \subseteq Nat
<1>1. Oldest \in Nat /\ \A i \in 1 .. Len(lines) : Oldest + i \in Nat
  BY LinesAre
<1> QED
  BY <1>1, LinesAre DEF Hits, ShownRows, Hit

\* The row find_next stops at is the nearest hit below the current one, or else the first.
LEMMA FindNextStops ==
    ASSUME LogInv, FilterInv, FindNext
    PROVE  current' = IF HitsBelow # {} THEN Min(HitsBelow) ELSE IF Hits # {} THEN Min(Hits) ELSE current
<1> DEFINE n == Len(lines)
           row == RowOf(lines, current)
           o == NextOrder(lines, current)
           H == {k \in 1 .. n : Hit(o[k])}
<1>1. row \in 0 .. n /\ current = (IF row = 0 THEN 0 ELSE Oldest + row) /\ n \in Nat /\ Oldest \in Nat
  BY RowFacts, LinesAre DEF FilterInv, ShownRows, NoRow
<1>2. /\ o \in Seq(Int) /\ Len(o) = n
      /\ \A k \in 1 .. n : o[k] = IF k <= n - row THEN Oldest + (row + k) ELSE Oldest + (k - (n - row))
  BY <1>1, NextOrderIs
<1>3. current' = Found(o, pattern)
  BY DEF FindNext
<1>4. /\ H = {} => current' = current
      /\ H # {} => \E k \in H : (\A j \in H : k <= j) /\ current' = o[k]
  <2>1. H = {k \in 1 .. Len(o) : Matches(o[k], hidden) /\ Matches(o[k], pattern)}
    BY <1>2 DEF Hit
  <2> HIDE DEF H, o
  <2> QED
    BY <1>2, <1>3, <2>1, FoundFirst
<1>5. \A i \in 1 .. n : Hit(Oldest + i) =>
          IF i > row THEN i - row \in H /\ Oldest + i \in HitsBelow ELSE i + (n - row) \in H
  <2> SUFFICES ASSUME NEW i \in 1 .. n, Hit(Oldest + i)
               PROVE  IF i > row THEN i - row \in H /\ Oldest + i \in HitsBelow ELSE i + (n - row) \in H
    OBVIOUS
  <2>1. CASE i > row
    <3>1. i - row \in 1 .. n /\ i - row <= n - row /\ row + (i - row) = i
      BY <1>1, <2>1
    <3>2. o[i - row] = Oldest + i
      BY <1>2, <3>1
    <3>3. Oldest + i > current
      BY <1>1, <2>1
    <3> HIDE DEF o
    <3> QED
      BY <2>1, <3>1, <3>2, <3>3, HitRows DEF HitsBelow
  <2>2. CASE ~(i > row)
    <3>1. i + (n - row) \in 1 .. n /\ ~(i + (n - row) <= n - row) /\ i + (n - row) - (n - row) = i
      BY <1>1, <2>2
    <3>2. o[i + (n - row)] = Oldest + i
      <4>1. PICK k \in 1 .. n : k = i + (n - row)
        BY <3>1
      <4>2. ~(k <= n - row) /\ k - (n - row) = i
        BY <1>1, <3>1, <4>1
      <4>3. o[k] = Oldest + (k - (n - row))
        BY <1>2, <4>2
      <4> QED
        BY <4>1, <4>2, <4>3
    <3> HIDE DEF o
    <3> QED
      BY <2>2, <3>1, <3>2
  <2> QED
    BY <2>1, <2>2
<1>6. HitsBelow \subseteq Hits /\ \A l \in HitsBelow : l > current
  BY DEF HitsBelow
<1>7. \A k \in H : k \in 1 .. n /\ Hit(o[k])
  OBVIOUS
<1>8. ASSUME NEW l \in Hits PROVE \E i \in 1 .. n : l = Oldest + i /\ Hit(l) /\ (l > current => i > row)
  <2>1. PICK i \in 1 .. n : l = Oldest + i /\ Hit(l)
    BY HitRows
  <2>2. l > current => i > row
    BY <1>1, <2>1
  <2> QED
    BY <2>1, <2>2
<1> HIDE DEF n, row, o, H
<1>9. CASE HitsBelow # {}
  <2>1. PICK l \in HitsBelow : TRUE
    BY <1>9
  <2>2. PICK i \in 1 .. n : l = Oldest + i /\ Hit(l) /\ i > row
    BY <1>6, <1>8, <2>1
  <2>3. i - row \in H
    BY <1>5, <2>2
  <2>4. PICK k \in H : (\A j \in H : k <= j) /\ current' = o[k]
    BY <1>4, <2>3
  <2>5. k \in 1 .. n /\ k <= i - row /\ row + k \in 1 .. n /\ k <= n - row /\ row + k > row
    BY <1>1, <1>7, <2>2, <2>3, <2>4
  <2>6. current' = Oldest + (row + k) /\ Hit(current')
    BY <1>2, <1>7, <2>4, <2>5
  <2>7. current' \in HitsBelow
    BY <1>5, <2>5, <2>6
  <2>8. ASSUME NEW y \in HitsBelow PROVE current' <= y
    <3>1. PICK j \in 1 .. n : y = Oldest + j /\ Hit(y) /\ j > row
      BY <1>6, <1>8
    <3>2. j - row \in H
      BY <1>5, <3>1
    <3>3. k <= j - row
      BY <2>4, <3>2
    <3> QED
      BY <1>1, <2>5, <2>6, <3>1, <3>3
  <2>9. HitsBelow \subseteq Nat
    BY <1>6, HitRows
  <2>10. PICK c : c = current'
    OBVIOUS
  <2>11. Min(HitsBelow) = c
    BY <2>7, <2>8, <2>9, <2>10, MinIs
  <2> QED
    BY <1>9, <2>10, <2>11
<1>10. CASE HitsBelow = {} /\ Hits # {}
  <2>1. PICK l \in Hits : TRUE
    BY <1>10
  <2>2. ASSUME NEW j \in 1 .. n, Hit(Oldest + j) PROVE ~(j > row) /\ j + (n - row) \in H
    BY <1>5, <1>10, <2>2
  <2>3. PICK i \in 1 .. n : l = Oldest + i /\ Hit(l)
    BY <1>8
  <2>4. i + (n - row) \in H
    BY <2>2, <2>3
  <2>5. PICK k \in H : (\A j \in H : k <= j) /\ current' = o[k]
    BY <1>4, <2>4
  <2>6. k \in 1 .. n /\ Hit(o[k])
    BY <1>7
  <2>7. ~(k <= n - row)
    <3> SUFFICES ASSUME k <= n - row PROVE FALSE
      OBVIOUS
    <3>1. o[k] = Oldest + (row + k) /\ row + k \in 1 .. n /\ row + k > row
      BY <1>1, <1>2, <2>6
    <3>2. ~(row + k > row)
      BY <2>2, <2>6, <3>1
    <3> QED
      BY <3>1, <3>2
  <2>8. current' = Oldest + (k - (n - row)) /\ k - (n - row) \in 1 .. n /\ Hit(current')
    BY <1>1, <1>2, <2>5, <2>6, <2>7
  <2>9. current' \in Hits
    BY <2>8, HitRows DEF n
  <2>10. ASSUME NEW y \in Hits PROVE current' <= y
    <3>1. PICK j \in 1 .. n : y = Oldest + j /\ Hit(y)
      BY <1>8
    <3>2. k <= j + (n - row)
      BY <2>2, <2>5, <3>1
    <3> QED
      BY <1>1, <2>6, <2>8, <3>1, <3>2
  <2>11. PICK c : c = current'
    OBVIOUS
  <2>12. Min(Hits) = c
    BY <2>9, <2>10, <2>11, HitRows, MinIs
  <2> QED
    BY <1>10, <2>11, <2>12
<1>11. CASE Hits = {}
  <2>1. H = {}
    <3> SUFFICES ASSUME NEW k \in H PROVE FALSE
      OBVIOUS
    <3>1. k \in 1 .. n /\ Hit(o[k])
      BY <1>7
    <3>2. \E i \in 1 .. n : o[k] = Oldest + i
      <4>1. CASE k <= n - row
        <5>1. row + k \in 1 .. n
          BY <1>1, <3>1, <4>1
        <5> QED
          BY <1>2, <3>1, <4>1, <5>1
      <4>2. CASE ~(k <= n - row)
        <5>1. k - (n - row) \in 1 .. n
          BY <1>1, <3>1, <4>2
        <5> QED
          BY <1>2, <3>1, <4>2, <5>1
      <4> QED
        BY <4>1, <4>2
    <3> QED
      BY <1>11, <3>1, <3>2, HitRows DEF n
  <2> QED
    BY <1>4, <1>6, <1>11, <2>1
<1> QED
  BY <1>9, <1>10, <1>11

\* The row find_prev stops at is the nearest hit above the current one, or else the last.
LEMMA FindPrevStops ==
    ASSUME LogInv, FilterInv, FindPrev
    PROVE  current' = IF HitsAbove # {} THEN Max(HitsAbove) ELSE IF Hits # {} THEN Max(Hits) ELSE current
<1> DEFINE n == Len(lines)
           row == RowOf(lines, current)
           start == IF row = 0 THEN n ELSE row - 1
           o == PrevOrder(lines, current)
           H == {k \in 1 .. n : Hit(o[k])}
<1>1. row \in 0 .. n /\ current = (IF row = 0 THEN 0 ELSE Oldest + row) /\ n \in Nat /\ Oldest \in Nat
  BY RowFacts, LinesAre DEF FilterInv, ShownRows, NoRow
<1>12. start \in 0 .. n /\ (row # 0 => start = row - 1) /\ (row = 0 => start = n)
  BY <1>1
<1>2. /\ o \in Seq(Int) /\ Len(o) = n
      /\ \A k \in 1 .. n : o[k] = IF k <= start THEN Oldest + (start - k + 1) ELSE Oldest + (n - (k - start) + 1)
  <2>1. PICK s : s = start
    OBVIOUS
  <2>2. s = IF row = 0 THEN Len(lines) ELSE row - 1
    BY <2>1
  <2> HIDE DEF start, row
  <2>3. /\ o \in Seq(Int) /\ Len(o) = n
        /\ \A k \in 1 .. n : o[k] = IF k <= s THEN Oldest + (s - k + 1) ELSE Oldest + (n - (k - s) + 1)
    BY <1>1, <2>2, PrevOrderIs DEF row
  <2> QED
    BY <2>1, <2>3
<1>3. current' = Found(o, pattern)
  BY DEF FindPrev
<1>4. /\ H = {} => current' = current
      /\ H # {} => \E k \in H : (\A j \in H : k <= j) /\ current' = o[k]
  <2>1. H = {k \in 1 .. Len(o) : Matches(o[k], hidden) /\ Matches(o[k], pattern)}
    BY <1>2 DEF Hit
  <2> HIDE DEF H, o
  <2> QED
    BY <1>2, <1>3, <2>1, FoundFirst
<1> HIDE DEF start
<1>5. \A i \in 1 .. n : Hit(Oldest + i) =>
          IF i <= start THEN start - i + 1 \in H /\ Oldest + i \in HitsAbove ELSE n - i + 1 + start \in H
  <2> SUFFICES ASSUME NEW i \in 1 .. n, Hit(Oldest + i)
               PROVE  IF i <= start THEN start - i + 1 \in H /\ Oldest + i \in HitsAbove ELSE n - i + 1 + start \in H
    OBVIOUS
  <2>1. CASE i <= start
    <3>1. start - i + 1 \in 1 .. n /\ start - i + 1 <= start /\ start - (start - i + 1) + 1 = i
      BY <1>1, <1>12, <2>1
    <3>2. o[start - i + 1] = Oldest + i
      BY <1>2, <3>1
    <3>3. current # NoRow => Oldest + i < current
      BY <1>1, <1>12, <2>1 DEF NoRow
    <3> HIDE DEF o
    <3> QED
      BY <2>1, <3>1, <3>2, <3>3, HitRows DEF HitsAbove
  <2>2. CASE ~(i <= start)
    <3>1. n - i + 1 + start \in 1 .. n /\ ~(n - i + 1 + start <= start) /\ n - (n - i + 1 + start - start) + 1 = i
      BY <1>1, <1>12, <2>2
    <3>2. o[n - i + 1 + start] = Oldest + i
      <4>1. PICK k \in 1 .. n : k = n - i + 1 + start
        BY <3>1
      <4>2. ~(k <= start) /\ n - (k - start) + 1 = i
        BY <1>1, <1>12, <3>1, <4>1
      <4>3. o[k] = Oldest + (n - (k - start) + 1)
        BY <1>2, <4>2
      <4> QED
        BY <4>1, <4>2, <4>3
    <3> HIDE DEF o
    <3> QED
      BY <2>2, <3>1, <3>2
  <2> QED
    BY <2>1, <2>2
<1>6. HitsAbove \subseteq Hits /\ \A l \in HitsAbove : current # NoRow => l < current
  BY DEF HitsAbove
<1>7. \A k \in H : k \in 1 .. n /\ Hit(o[k])
  OBVIOUS
<1>8. ASSUME NEW l \in Hits
      PROVE  \E i \in 1 .. n : l = Oldest + i /\ Hit(l) /\ ((current # NoRow => l < current) => i <= start)
  <2>1. PICK i \in 1 .. n : l = Oldest + i /\ Hit(l)
    BY HitRows
  <2>2. (current # NoRow => l < current) => i <= start
    BY <1>1, <1>12, <2>1 DEF NoRow
  <2> QED
    BY <2>1, <2>2
<1>13. \A l \in Hits : l <= Oldest + n /\ l \in Nat
  BY <1>1, <1>8
<1> HIDE DEF n, row, o, H
<1>9. CASE HitsAbove # {}
  <2>1. PICK l \in HitsAbove : TRUE
    BY <1>9
  <2>2. PICK i \in 1 .. n : l = Oldest + i /\ Hit(l) /\ i <= start
    BY <1>6, <1>8, <2>1
  <2>3. start - i + 1 \in H
    BY <1>5, <2>2
  <2>4. PICK k \in H : (\A j \in H : k <= j) /\ current' = o[k]
    BY <1>4, <2>3
  <2>5. k \in 1 .. n /\ k <= start - i + 1 /\ start - k + 1 \in 1 .. n /\ k <= start /\ start - k + 1 <= start
    BY <1>1, <1>12, <1>7, <2>2, <2>3, <2>4
  <2>6. current' = Oldest + (start - k + 1) /\ Hit(current')
    BY <1>2, <1>7, <2>4, <2>5
  <2>7. current' \in HitsAbove
    BY <1>5, <2>5, <2>6
  <2>8. ASSUME NEW y \in HitsAbove PROVE y <= current'
    <3>1. PICK j \in 1 .. n : y = Oldest + j /\ Hit(y) /\ j <= start
      BY <1>6, <1>8
    <3>2. start - j + 1 \in H
      BY <1>5, <3>1
    <3>3. k <= start - j + 1
      BY <2>4, <3>2
    <3> QED
      BY <1>1, <1>12, <2>5, <2>6, <3>1, <3>3
  <2>9. HitsAbove \subseteq Nat
    BY <1>6, HitRows
  <2>10. PICK c : c = current'
    OBVIOUS
  <2>11. Max(HitsAbove) = c
    BY <2>7, <2>8, <2>9, <2>10, MaxIs
  <2> QED
    BY <1>9, <2>10, <2>11
<1>10. CASE HitsAbove = {} /\ Hits # {}
  <2>1. PICK l \in Hits : TRUE
    BY <1>10
  <2>2. ASSUME NEW j \in 1 .. n, Hit(Oldest + j) PROVE ~(j <= start) /\ n - j + 1 + start \in H
    BY <1>5, <1>10, <2>2
  <2>3. PICK i \in 1 .. n : l = Oldest + i /\ Hit(l)
    BY <1>8
  <2>4. n - i + 1 + start \in H
    BY <2>2, <2>3
  <2>5. PICK k \in H : (\A j \in H : k <= j) /\ current' = o[k]
    BY <1>4, <2>4
  <2>6. k \in 1 .. n /\ Hit(o[k])
    BY <1>7
  <2>7. ~(k <= start)
    <3> SUFFICES ASSUME k <= start PROVE FALSE
      OBVIOUS
    <3>1. o[k] = Oldest + (start - k + 1) /\ start - k + 1 \in 1 .. n /\ start - k + 1 <= start
      BY <1>1, <1>12, <1>2, <2>6
    <3>2. ~(start - k + 1 <= start)
      BY <2>2, <2>6, <3>1
    <3> QED
      BY <3>1, <3>2
  <2>8. current' = Oldest + (n - (k - start) + 1) /\ n - (k - start) + 1 \in 1 .. n /\ Hit(current')
    BY <1>1, <1>12, <1>2, <2>5, <2>6, <2>7
  <2>9. current' \in Hits
    BY <2>8, HitRows DEF n
  <2>10. ASSUME NEW y \in Hits PROVE y <= current'
    <3>1. PICK j \in 1 .. n : y = Oldest + j /\ Hit(y)
      BY <1>8
    <3>2. k <= n - j + 1 + start
      BY <2>2, <2>5, <3>1
    <3> QED
      BY <1>1, <1>12, <2>6, <2>8, <3>1, <3>2
  <2>11. PICK c : c = current'
    OBVIOUS
  <2>12. Max(Hits) = c
    BY <2>9, <2>10, <2>11, HitRows, MaxIs
  <2> QED
    BY <1>10, <2>11, <2>12
<1>11. CASE Hits = {}
  <2>1. H = {}
    <3> SUFFICES ASSUME NEW k \in H PROVE FALSE
      OBVIOUS
    <3>1. k \in 1 .. n /\ Hit(o[k])
      BY <1>7
    <3>2. \E i \in 1 .. n : o[k] = Oldest + i
      <4>1. CASE k <= start
        <5>1. start - k + 1 \in 1 .. n
          BY <1>1, <1>12, <3>1, <4>1
        <5> QED
          BY <1>2, <3>1, <4>1, <5>1
      <4>2. CASE ~(k <= start)
        <5>1. n - (k - start) + 1 \in 1 .. n
          BY <1>1, <1>12, <3>1, <4>2
        <5> QED
          BY <1>2, <3>1, <4>2, <5>1
      <4> QED
        BY <4>1, <4>2
    <3> QED
      BY <1>11, <3>1, <3>2, HitRows DEF n
  <2> QED
    BY <1>4, <1>6, <1>11, <2>1
<1> QED
  BY <1>9, <1>10, <1>11

LEMMA NextLines == LogInv' => (ToSet(lines) \subseteq Nat)'
<1>1. LogInv => ToSet(lines) \subseteq Nat
  BY LinesAre
<1> QED
  BY <1>1, PTL

LEMMA FilterStep == LogInv /\ LogInv' /\ FilterInv /\ [LogNext]_logVars => FilterInv'
<1> SUFFICES ASSUME LogInv, LogInv', FilterInv, [LogNext]_logVars PROVE FilterInv'
  OBVIOUS
<1>0. current \in Nat /\ ShownRows(lines, hidden) \subseteq Nat
  BY HitRows DEF FilterInv, NoRow
<1>1. ASSUME NEW n \in Piece, AppendLog(n) PROVE FilterInv'
  <2>1. PICK rs : rs = ShownRows(lines', hidden)
    OBVIOUS
  <2>2. current' = CurrentIn(rs, current) /\ UNCHANGED <<pattern, filter, hidden, debounce>>
    BY <1>1, <2>1 DEF AppendLog
  <2>4. rs \subseteq Nat
    BY <2>1, NextLines DEF ShownRows
  <2>5. CurrentIn(rs, current) \in rs \cup {NoRow}
    BY <1>0, <2>4, CurrentShown
  <2>6. current' \in ShownRows(lines', hidden') \cup {NoRow}
    BY <2>1, <2>2, <2>5
  <2> QED
    BY <2>2, <2>6 DEF FilterInv
<1>2. ASSUME NEW on, NEW p, FilterBy(on, p), UNCHANGED lines, filter' = on, pattern' = p PROVE FilterInv'
  <2>1. PICK rs : rs = ShownRows(lines, hidden) \cap ShownRows(lines, hidden')
    OBVIOUS
  <2>2. current' = CurrentIn(rs, current) /\ hidden' = IF on /\ p # NoText THEN p ELSE NoText
    BY <1>2, <2>1 DEF FilterBy
  <2>3. rs \subseteq Nat
    BY <1>0, <2>1
  <2>4. CurrentIn(rs, current) \in rs \cup {NoRow}
    BY <1>0, <2>3, CurrentShown
  <2>5. current' \in ShownRows(lines', hidden') \cup {NoRow}
    BY <1>2, <2>1, <2>2, <2>4
  <2> QED
    BY <1>2, <2>2, <2>5 DEF FilterInv
<1>3. CASE FilterTimeout
  BY <1>2, <1>3 DEF FilterTimeout
<1>4. CASE ToggleFilter
  BY <1>2, <1>4 DEF ToggleFilter
<1>5. ASSUME NEW t \in Text \cup {NoText}, TypeText(t) PROVE FilterInv'
  BY <1>5 DEF TypeText, FilterInv, ShownRows
<1>6. Hits \subseteq ShownRows(lines, hidden)
  BY DEF Hits
<1>7. CASE FindNext
  <2>1. current' \in ShownRows(lines, hidden) \cup {NoRow}
    <3>1. HitsBelow # {} => Min(HitsBelow) \in HitsBelow
      <4>1. HitsBelow \subseteq Nat
        BY HitRows DEF HitsBelow
      <4> QED
        BY <4>1, MinFacts
    <3>2. Hits # {} => Min(Hits) \in Hits
      BY HitRows, MinFacts
    <3>3. HitsBelow \subseteq Hits
      BY DEF HitsBelow
    <3> QED
      BY <1>6, <1>7, <3>1, <3>2, <3>3, FindNextStops DEF FilterInv
  <2> QED
    BY <1>7, <2>1 DEF FindNext, FilterInv
<1>8. CASE FindPrev
  <2>1. current' \in ShownRows(lines, hidden) \cup {NoRow}
    <3>0. PICK n \in Nat : \A l \in Hits : l <= n
      <4>1. Oldest + Len(lines) \in Nat /\ \A i \in 1 .. Len(lines) : Oldest + i <= Oldest + Len(lines)
        BY LinesAre
      <4>2. \A l \in Hits : l <= Oldest + Len(lines)
        BY <4>1, HitRows
      <4> QED
        BY <4>1, <4>2
    <3>1. HitsAbove # {} => Max(HitsAbove) \in HitsAbove
      <4>1. HitsAbove \subseteq Nat /\ HitsAbove \subseteq Hits
        BY HitRows DEF HitsAbove
      <4> QED
        BY <3>0, <4>1, MaxFacts
    <3>2. Hits # {} => Max(Hits) \in Hits
      BY <3>0, HitRows, MaxFacts
    <3>3. HitsAbove \subseteq Hits
      BY DEF HitsAbove
    <3> QED
      BY <1>6, <1>8, <3>1, <3>2, <3>3, FindPrevStops DEF FilterInv
  <2> QED
    BY <1>8, <2>1 DEF FindPrev, FilterInv
<1>9. CASE ClearLog
  BY <1>9 DEF ClearLog, FilterInv
<1>10. CASE UNCHANGED logVars
  BY <1>10 DEF logVars, FilterInv
<1> QED
  BY <1>1, <1>3, <1>4, <1>5, <1>7, <1>8, <1>9, <1>10 DEF LogNext, LogUser

LEMMA LogInitHolds == LogInit => LogInv /\ FilterInv
<1> SUFFICES ASSUME LogInit PROVE LogInv /\ FilterInv
  OBVIOUS
<1>1. MaxLines \in Nat /\ TrimSize \in Nat /\ TrimSize <= MaxLines
  BY LogAssumption, RemovedOfMany
<1>2. Min({0, MaxLines - TrimSize}) = 0
  BY <1>1, MinOfTwo
<1>3. Newest(0, 0) = <<>>
  BY NewestLength
<1> QED
  BY <1>1, <1>2, <1>3 DEF LogInit, LogInv, Limits, FilterInv

\* The list of the system log always holds the newest lines, without a gap, and at least four
\* fifths of its limit when that many came; it is longer than the limit only by what came in pieces
\* larger than one trim removes, for any limit and any pieces (LogModel.add_logs).
THEOREM ListIsRecent == LogSpec => []LogIsRecent
<1>1. LogInv => LogIsRecent
  BY DEF LogInv, Limits, LogIsRecent, Newest
<1> QED
  BY <1>1, LogInitHolds, LogStep, PTL DEF LogSpec

\* With no timer pending the rows shown are those of the text and the box on display, and the current
\* row is always one of them, whatever was trimmed, typed, filtered and searched in between
\* (_execute_filter_update, set_search_pattern).
THEOREM FilterAlwaysFollows == LogSpec => []FilterFollows
<1>1. FilterInv => FilterFollows
  BY DEF FilterInv, FilterFollows
<1> QED
  BY <1>1, LogInitHolds, LogStep, FilterStep, PTL DEF LogSpec

\* The search buttons stop at the nearest match shown below or above the current row, go round at
\* the ends and stay where they are without a match (find_next, find_prev).
THEOREM SearchGoesRound == LogSpec => FindIsCyclic
<1>1. LogInv /\ FilterInv =>
        /\ FindNext => current' = (IF HitsBelow # {} THEN Min(HitsBelow)
                                   ELSE IF Hits # {} THEN Min(Hits) ELSE current)
        /\ FindPrev => current' = (IF HitsAbove # {} THEN Max(HitsAbove)
                                   ELSE IF Hits # {} THEN Max(Hits) ELSE current)
  BY FindNextStops, FindPrevStops
<1> QED
  BY <1>1, LogInitHolds, LogStep, FilterStep, PTL DEF LogSpec, FindIsCyclic

-----------------------------------------------------------------------------
(* The buffers of PacketParsing: first remainders and sequences, then the  *)
(* ring, then the parsers and the matcher.                                 *)

\* A remainder once round.
LEMMA WrapUp ==
    ASSUME NEW N \in Nat \ {0}, NEW a \in 0 .. N - 1, NEW b \in 0 .. N
    PROVE  (a + b) % N = IF a + b < N THEN a + b ELSE a + b - N
  OBVIOUS

LEMMA WrapDown ==
    ASSUME NEW N \in Nat \ {0}, NEW a \in 0 .. N - 1, NEW b \in 0 .. N - 1
    PROVE  (a - b) % N = IF a >= b THEN a - b ELSE a - b + N
  OBVIOUS

\* A ring of N with stored bytes from tail on and head behind them; n are written at head and drop
\* given up, so that m are stored from t on.
Turned(N, tail, stored, n, drop, m, head, t) ==
    /\ N \in Nat \ {0} /\ tail \in 0 .. N - 1 /\ stored \in 0 .. N /\ n \in 0 .. N
    /\ drop \in 0 .. N /\ m \in 0 .. N /\ m = stored + n - drop
    /\ head = (IF tail + stored < N THEN tail + stored ELSE tail + stored - N)
    /\ t = (IF tail + drop < N THEN tail + drop ELSE tail + drop - N)

\* Cell p is the k-th from head.
At(N, head, t, j, p, k) ==
    /\ j \in Nat
    /\ p = (IF t + j < N THEN t + j ELSE t + j - N)
    /\ k = (IF p >= head THEN p - head ELSE p - head + N)

\* Where the bytes are then: among the new ones, or where they were.
LEMMA Slots ==
    ASSUME NEW N, NEW tail, NEW stored, NEW n, NEW drop, NEW m, NEW head, NEW t,
           Turned(N, tail, stored, n, drop, m, head, t),
           NEW j, NEW p, NEW k, At(N, head, t, j, p, k), j < m
    PROVE  /\ j + 1 + drop > stored => k = j + drop - stored /\ k < n
           /\ ~(j + 1 + drop > stored) => ~(k < n)
<1>3. /\ N \in Nat \ {0} /\ tail \in 0 .. N - 1 /\ stored \in 0 .. N /\ n \in 0 .. N
      /\ drop \in 0 .. N /\ m \in 0 .. N /\ m = stored + n - drop
      /\ head = (IF tail + stored < N THEN tail + stored ELSE tail + stored - N)
      /\ t = (IF tail + drop < N THEN tail + drop ELSE tail + drop - N)
      /\ j \in Nat
      /\ p = (IF t + j < N THEN t + j ELSE t + j - N)
      /\ k = (IF p >= head THEN p - head ELSE p - head + N)
  BY DEF Turned, At
<1> HIDE DEF Turned, At
<1>1. ASSUME j + 1 + drop > stored PROVE k = j + drop - stored /\ k < n
  <2>1. CASE tail + stored < N
    BY <1>1, <1>3, <2>1
  <2>2. CASE ~(tail + stored < N)
    BY <1>1, <1>3, <2>2
  <2> QED
    BY <2>1, <2>2
<1>2. ASSUME ~(j + 1 + drop > stored) PROVE ~(k < n)
  <2>1. CASE tail + stored < N
    BY <1>2, <1>3, <2>1
  <2>2. CASE ~(tail + stored < N)
    BY <1>2, <1>3, <2>2
  <2> QED
    BY <2>1, <2>2
<1> QED
  BY <1>1, <1>2

LEMMA Ends ==
    ASSUME NEW N, NEW tail, NEW stored, NEW n, NEW drop, NEW m, NEW head, NEW t,
           Turned(N, tail, stored, n, drop, m, head, t)
    PROVE  /\ head \in 0 .. N - 1 /\ t \in 0 .. N - 1
           /\ (head + n) % N = (t + m) % N
<1>1. /\ N \in Nat \ {0} /\ tail \in 0 .. N - 1 /\ stored \in 0 .. N /\ n \in 0 .. N
      /\ drop \in 0 .. N /\ m \in 0 .. N /\ m = stored + n - drop
  BY DEF Turned
<1>2. head = (IF tail + stored < N THEN tail + stored ELSE tail + stored - N)
  BY DEF Turned
<1>3. t = (IF tail + drop < N THEN tail + drop ELSE tail + drop - N)
  BY DEF Turned
<1>4. head \in 0 .. N - 1 /\ t \in 0 .. N - 1
  BY <1>1, <1>2, <1>3
<1>5. (IF head + n < N THEN head + n ELSE head + n - N) = (IF t + m < N THEN t + m ELSE t + m - N)
  BY <1>1, <1>2, <1>3
<1>6. (head + n) % N = IF head + n < N THEN head + n ELSE head + n - N
  BY <1>1, <1>4, WrapUp
<1>7. (t + m) % N = IF t + m < N THEN t + m ELSE t + m - N
  BY <1>1, <1>4, WrapUp
<1> QED
  BY <1>4, <1>5, <1>6, <1>7

\* The i-th byte is in cell p, the k-th from where the new ones begin.
SlotIn(N, tail, stored, n, drop, head, t, i) ==
    \E p, k :
        /\ p \in 0 .. N - 1 /\ p = (t + (i - 1)) % N /\ k = (p - head) % N
        /\ i + drop > stored => k = i + drop - stored - 1 /\ k < n
        /\ ~(i + drop > stored) => ~(k < n) /\ p = (tail + (i + drop - 1)) % N

LEMMA SlotOf ==
    ASSUME NEW N, NEW tail, NEW stored, NEW n, NEW drop, NEW m, NEW head, NEW t,
           Turned(N, tail, stored, n, drop, m, head, t),
           NEW i \in 1 .. m
    PROVE  SlotIn(N, tail, stored, n, drop, head, t, i)
<1>1. /\ N \in Nat \ {0} /\ tail \in 0 .. N - 1 /\ stored \in 0 .. N /\ n \in 0 .. N
      /\ drop \in 0 .. N /\ m \in 0 .. N /\ m = stored + n - drop
  BY DEF Turned
<1>2. head \in 0 .. N - 1 /\ t \in 0 .. N - 1
  BY Ends
<1>3. PICK j \in 0 .. N : j = i - 1 /\ j < m
  BY <1>1
<1>4. PICK p : p = (t + j) % N
  OBVIOUS
<1>5. p = IF t + j < N THEN t + j ELSE t + j - N
  BY <1>1, <1>2, <1>4, WrapUp
<1>6. p \in 0 .. N - 1
  BY <1>1, <1>2, <1>5
<1>7. PICK k : k = (p - head) % N
  OBVIOUS
<1>8. k = IF p >= head THEN p - head ELSE p - head + N
  BY <1>1, <1>2, <1>6, <1>7, WrapDown
<1>9. /\ j + 1 + drop > stored => k = j + drop - stored /\ k < n
      /\ ~(j + 1 + drop > stored) => ~(k < n)
  <2>1. At(N, head, t, j, p, k)
    BY <1>5, <1>8 DEF At
  <2> QED
    BY <1>3, <2>1, Slots
<1>10. ASSUME ~(i + drop > stored) PROVE p = (tail + (i + drop - 1)) % N
  <2>1. PICK q \in 0 .. N : q = i + drop - 1
    BY <1>1, <1>10
  <2>2. (tail + q) % N = IF tail + q < N THEN tail + q ELSE tail + q - N
    BY <1>1, WrapUp
  <2>3. t = (IF tail + drop < N THEN tail + drop ELSE tail + drop - N)
    BY DEF Turned
  <2>4. p = IF tail + q < N THEN tail + q ELSE tail + q - N
    BY <1>1, <1>3, <1>5, <1>10, <2>1, <2>3
  <2> QED
    BY <2>1, <2>2, <2>4
<1>11. j + 1 + drop = i + drop /\ j + drop - stored = i + drop - stored - 1
  BY <1>1, <1>3
<1> QED
  BY <1>3, <1>4, <1>6, <1>7, <1>9, <1>10, <1>11 DEF SlotIn

LEMMA EndingIs ==
    ASSUME NEW S, NEW s \in Seq(S), NEW n \in Nat
    PROVE  /\ Ending(s, n) \in Seq(S)
           /\ Len(Ending(s, n)) = IF Len(s) > n THEN n ELSE Len(s)
           /\ \A i \in 1 .. Len(Ending(s, n)) : Ending(s, n)[i] = s[Len(s) - Len(Ending(s, n)) + i]
<1>1. Len(s) \in Nat /\ \A i \in 1 .. Len(s) : s[i] \in S
  BY LenProperties, ElementOfSeq
<1>2. CASE Len(s) > n
  <2>1. Ending(s, n) = SubSeq(s, Len(s) - n + 1, Len(s))
    BY <1>2 DEF Ending
  <2> QED
    BY <1>1, <1>2, <2>1
<1>3. CASE ~(Len(s) > n)
  <2>1. Ending(s, n) = s
    BY <1>3 DEF Ending
  <2> QED
    BY <1>1, <1>3, <2>1
<1> QED
  BY <1>2, <1>3

LEMMA JoinIs ==
    ASSUME NEW S, NEW s \in Seq(S), NEW t \in Seq(S)
    PROVE  /\ s \o t \in Seq(S) /\ Len(s) \in Nat /\ Len(t) \in Nat /\ Len(s \o t) = Len(s) + Len(t)
           /\ \A i \in 1 .. Len(s) + Len(t) : (s \o t)[i] = IF i <= Len(s) THEN s[i] ELSE t[i - Len(s)]
  OBVIOUS

LEMMA CutIs ==
    ASSUME NEW S, NEW s \in Seq(S), NEW a \in 1 .. Len(s) + 1, NEW b \in a - 1 .. Len(s)
    PROVE  /\ SubSeq(s, a, b) \in Seq(S) /\ Len(SubSeq(s, a, b)) = b - a + 1
           /\ \A i \in 1 .. b - a + 1 : SubSeq(s, a, b)[i] = s[a + i - 1]
           /\ SubSeq(s, a, b) = [i \in 1 .. b - a + 1 |-> s[a + i - 1]]
  OBVIOUS

LEMMA SameBytes ==
    ASSUME NEW S, NEW s \in Seq(S), NEW t \in Seq(S), Len(s) = Len(t), \A i \in 1 .. Len(s) : s[i] = t[i]
    PROVE  s = t
  BY SeqEqual

-----------------------------------------------------------------------------
(* The ring *)

\* The ring r holds the queue q.
RingHolds(r, q) ==
    /\ r = [head |-> r.head, tail |-> r.tail, stored |-> r.stored, cells |-> r.cells]
    /\ r.tail \in 0 .. RingSize - 1 /\ r.stored \in 0 .. RingSize /\ r.head = (r.tail + r.stored) % RingSize
    /\ r.cells \in [0 .. RingSize - 1 -> Nat]
    /\ q \in Seq(Nat) /\ Len(q) = r.stored
    /\ \A i \in 1 .. Len(q) : r.cells[(r.tail + (i - 1)) % RingSize] = q[i]

LEMMA RingWrites ==
    ASSUME NEW r, NEW q, RingHolds(r, q), NEW data \in Seq(Nat)
    PROVE  RingHolds(RingWrite(r, data), Ending(q \o data, RingSize))
<1>1. RingSize \in Nat \ {0}
  BY ParsingAssumption
<1>2. PICK kept \in Seq(Nat) : kept = Ending(data, RingSize)
  BY <1>1, EndingIs
<1>4. PICK d \in Nat : d = Len(data)
  OBVIOUS
<1>5. /\ Len(kept) = IF d > RingSize THEN RingSize ELSE d
      /\ \A i \in 1 .. Len(kept) : kept[i] = data[d - Len(kept) + i]
  BY <1>1, <1>2, <1>4, EndingIs
<1>3. PICK n \in 0 .. RingSize : n = Len(kept)
  <2>1. Len(kept) \in 0 .. RingSize
    BY <1>1, <1>4, <1>5
  <2> QED
    BY <2>1
<1>21. n = IF d > RingSize THEN RingSize ELSE d
  BY <1>3, <1>5
<1>6. PICK stored \in 0 .. RingSize : stored = r.stored /\ stored = Len(q)
  BY DEF RingHolds
<1>7. PICK tail \in 0 .. RingSize - 1 : tail = r.tail
  BY DEF RingHolds
<1>8. PICK head : head = r.head /\ head = (tail + stored) % RingSize
  BY <1>6, <1>7 DEF RingHolds
<1>20. PICK all \in Seq(Nat) : all = q \o data
  BY JoinIs DEF RingHolds
<1>22. Len(all) = stored + d
  <2>1. q \in Seq(Nat)
    BY DEF RingHolds
  <2>2. Len(q \o data) = Len(q) + Len(data)
    BY <2>1, JoinIs
  <2> QED
    BY <1>4, <1>6, <1>20, <2>2
<1>23. \A i \in 1 .. stored + d : all[i] = IF i <= stored THEN q[i] ELSE data[i - stored]
  <2>1. q \in Seq(Nat)
    BY DEF RingHolds
  <2>2. \A i \in 1 .. Len(q) + Len(data) : (q \o data)[i] = IF i <= Len(q) THEN q[i] ELSE data[i - Len(q)]
    BY <2>1, JoinIs
  <2> QED
    BY <1>4, <1>6, <1>20, <2>2
<1>9. PICK new \in Seq(Nat) : new = Ending(all, RingSize)
  BY <1>1, EndingIs
<1>24. Len(new) = (IF stored + d > RingSize THEN RingSize ELSE stored + d)
  BY <1>1, <1>9, <1>22, EndingIs
<1>25. Len(new) = IF stored + n > RingSize THEN RingSize ELSE stored + n
  BY <1>1, <1>21, <1>24
<1>10. PICK m \in 0 .. RingSize : m = Len(new)
  <2>1. Len(new) \in 0 .. RingSize
    BY <1>1, <1>25
  <2> QED
    BY <2>1
<1>11. m = IF stored + n > RingSize THEN RingSize ELSE stored + n
  BY <1>10, <1>25
<1>26. \A i \in 1 .. m : new[i] = all[stored + d - m + i]
  <2>1. \A i \in 1 .. Len(new) : new[i] = all[Len(all) - Len(new) + i]
    BY <1>1, <1>9, EndingIs
  <2> QED
    BY <1>10, <1>22, <2>1
<1>12. PICK drop \in 0 .. RingSize : drop = stored + n - m
  <2>1. stored + n - m \in 0 .. RingSize
    BY <1>1, <1>11
  <2> QED
    BY <2>1
<1>27. m = stored + n - drop
  BY <1>11, <1>12
<1>13. ASSUME NEW i \in 1 .. m
       PROVE  new[i] = IF i + drop > stored THEN kept[i + drop - stored] ELSE q[i + drop]
  <2>1. PICK j : j = stored + d - m + i
    OBVIOUS
  <2>2. j \in 1 .. stored + d /\ j - stored = d - n + (i + drop - stored)
    BY <1>1, <1>10, <1>11, <1>12, <1>21, <1>24, <2>1
  <2>3. new[i] = IF j <= stored THEN q[j] ELSE data[j - stored]
    BY <1>23, <1>26, <2>1, <2>2
  <2>4. CASE i + drop > stored
    <3>1. PICK l : l = i + drop - stored
      OBVIOUS
    <3>2. l \in 1 .. n
      BY <1>3, <1>12, <2>4, <3>1
    <3>3. kept[l] = data[d - n + l]
      BY <1>3, <1>5, <3>2
    <3>4. j > stored /\ j - stored = d - n + l
      BY <1>21, <2>2, <3>1, <3>2, SMTT(30)
    <3> QED
      BY <2>2, <2>3, <2>4, <3>1, <3>3, <3>4
  <2>5. CASE ~(i + drop > stored)
    <3>1. d - n = 0
      BY <1>1, <1>11, <1>12, <1>21, <2>5
    <3>2. j = i + drop
      BY <1>12, <2>1, <3>1
    <3> QED
      BY <2>3, <2>5, <3>2
  <2> QED
    BY <2>4, <2>5
<1>14. PICK t : t = (tail + drop) % RingSize
  OBVIOUS
<1>28. head = (IF tail + stored < RingSize THEN tail + stored ELSE tail + stored - RingSize)
  BY <1>1, <1>8, WrapUp
<1>29. t = (IF tail + drop < RingSize THEN tail + drop ELSE tail + drop - RingSize)
  BY <1>1, <1>14, WrapUp
<1>15. PICK w : w = RingWrite(r, data)
  OBVIOUS
<1>16. w = [head |-> (head + n) % RingSize, tail |-> t, stored |-> m,
            cells |-> [i \in 0 .. RingSize - 1 |-> LET k == (i - head) % RingSize
                                            IN IF k < n THEN kept[k + 1] ELSE r.cells[i]]]
  <2>1. (IF stored + n > RingSize THEN (tail + stored + n - RingSize) % RingSize ELSE tail) = t
    <3>1. CASE stored + n > RingSize
      <4>1. tail + stored + n - RingSize = tail + drop
        BY <1>1, <1>11, <1>12, <3>1
      <4> QED
        BY <1>14, <3>1, <4>1
    <3>2. CASE ~(stored + n > RingSize)
      <4>1. drop = 0
        BY <1>11, <1>12, <3>2
      <4>2. (tail + drop) % RingSize = IF tail + drop < RingSize THEN tail + drop ELSE tail + drop - RingSize
        BY <1>1, WrapUp
      <4> QED
        BY <1>1, <1>14, <3>2, <4>1, <4>2
    <3> QED
      BY <3>1, <3>2
  <2>2. (IF stored + n > RingSize THEN RingSize ELSE stored + n) = m
    BY <1>11
  <2>3. (IF r.stored + n > RingSize THEN (r.tail + (r.stored + n) - RingSize) % RingSize ELSE r.tail) = t
    <3>1. tail + (stored + n) - RingSize = tail + stored + n - RingSize
      BY <1>1
    <3> QED
      BY <1>6, <1>7, <2>1, <3>1
  <2> QED
    BY <1>2, <1>3, <1>6, <1>8, <1>15, <2>2, <2>3 DEF RingWrite
<1>17. head \in 0 .. RingSize - 1 /\ t \in 0 .. RingSize - 1 /\ (head + n) % RingSize = (t + m) % RingSize
  <2>1. Turned(RingSize, tail, stored, n, drop, m, head, t)
    BY <1>1, <1>27, <1>28, <1>29 DEF Turned
  <2> QED
    BY <2>1, Ends
<1>18. /\ w.head = (head + n) % RingSize /\ w.tail = t /\ w.stored = m
       /\ w.cells \in [0 .. RingSize - 1 -> Nat]
       /\ \A i \in 0 .. RingSize - 1 :
             w.cells[i] = LET k == (i - head) % RingSize IN IF k < n THEN kept[k + 1] ELSE r.cells[i]
  <2>1. ASSUME NEW i \in 0 .. RingSize - 1, NEW k, k = (i - head) % RingSize
        PROVE  (IF k < n THEN kept[k + 1] ELSE r.cells[i]) \in Nat
    <3>1. k \in Nat
      BY <1>1, <1>17, <2>1, WrapDown
    <3>2. r.cells[i] \in Nat
      BY DEF RingHolds
    <3>3. k < n => kept[k + 1] \in Nat
      BY <1>2, <1>3, <3>1
    <3> QED
      BY <3>2, <3>3
  <2> QED
    BY <1>16, <2>1
<1>19. ASSUME NEW i \in 1 .. m PROVE w.cells[(t + (i - 1)) % RingSize] = new[i]
  <2>1. Turned(RingSize, tail, stored, n, drop, m, head, t)
    BY <1>1, <1>27, <1>28, <1>29 DEF Turned
  <2>5. SlotIn(RingSize, tail, stored, n, drop, head, t, i)
    BY <2>1, SlotOf
  <2>2. PICK p, k :
          /\ p \in 0 .. RingSize - 1 /\ p = (t + (i - 1)) % RingSize /\ k = (p - head) % RingSize
          /\ i + drop > stored => k = i + drop - stored - 1 /\ k < n
          /\ ~(i + drop > stored) => ~(k < n) /\ p = (tail + (i + drop - 1)) % RingSize
    BY <2>5 DEF SlotIn
  <2>3. w.cells[p] = IF k < n THEN kept[k + 1] ELSE r.cells[p]
    BY <1>18, <2>2
  <2>4. CASE i + drop > stored
    <3>1. k = i + drop - stored - 1 /\ k < n
      BY <2>2, <2>4
    <3>2. k + 1 = i + drop - stored
      BY <1>10, <1>6, <1>12, <3>1
    <3> QED
      BY <1>13, <2>2, <2>3, <2>4, <3>1, <3>2
  <2>6. CASE ~(i + drop > stored)
    <3>1. ~(k < n) /\ p = (tail + (i + drop - 1)) % RingSize
      BY <2>2, <2>6
    <3>2. PICK j \in 1 .. stored : j = i + drop
      BY <2>6
    <3>3. r.cells[(tail + (j - 1)) % RingSize] = q[j]
      BY <1>6, <1>7, <3>2 DEF RingHolds
    <3>4. w.cells[p] = r.cells[p]
      BY <2>3, <3>1
    <3>5. PICK x : x = (tail + (j - 1)) % RingSize /\ r.cells[x] = q[j]
      BY <3>3
    <3>6. i + drop - 1 = j - 1
      BY <1>6, <1>12, <3>2
    <3>7. p = x
      BY <3>1, <3>5, <3>6
    <3>8. new[i] = q[j]
      BY <1>13, <2>6, <3>2
    <3> QED
      BY <2>2, <3>4, <3>5, <3>7, <3>8
  <2> QED
    BY <2>4, <2>6
<1> QED
  BY <1>9, <1>10, <1>15, <1>16, <1>17, <1>18, <1>19, <1>20 DEF RingHolds

ReadsRight(r, q, count) ==
    LET n == Smaller(count, Len(q))
    IN /\ RingHolds(RingRead(r, count).ring, SubSeq(q, n + 1, Len(q)))
       /\ RingRead(r, count).bytes = SubSeq(q, 1, n)

LEMMA RingReads ==
    ASSUME NEW r, NEW q, RingHolds(r, q), NEW count \in Nat
    PROVE  ReadsRight(r, q, count)
<1>0. PICK n : n = Smaller(count, Len(q))
  OBVIOUS
<1>1. RingSize \in Nat \ {0}
  BY ParsingAssumption
<1>2. PICK stored \in 0 .. RingSize : stored = r.stored /\ stored = Len(q)
  BY DEF RingHolds
<1>3. PICK tail \in 0 .. RingSize - 1 : tail = r.tail
  BY DEF RingHolds
<1>4. PICK head : head = r.head /\ head = (tail + stored) % RingSize
  BY <1>2, <1>3 DEF RingHolds
<1>5. n \in 0 .. stored
  BY <1>0, <1>1, <1>2 DEF Smaller
<1>6. PICK m \in 0 .. RingSize : m = stored - n
  <2>1. stored - n \in 0 .. RingSize
    BY <1>1, <1>5
  <2> QED
    BY <2>1
<1>7. PICK t : t = (tail + n) % RingSize
  OBVIOUS
<1>8. q \in Seq(Nat) /\ \A i \in 1 .. stored : r.cells[(tail + (i - 1)) % RingSize] = q[i]
  BY <1>2, <1>3 DEF RingHolds
<1>9. Turned(RingSize, tail, stored, 0, n, m, head, t)
  <2>1. head = IF tail + stored < RingSize THEN tail + stored ELSE tail + stored - RingSize
    BY <1>1, <1>4, WrapUp
  <2>2. n \in 0 .. RingSize
    BY <1>1, <1>5
  <2>3. t = IF tail + n < RingSize THEN tail + n ELSE tail + n - RingSize
    BY <1>1, <1>7, <2>2, WrapUp
  <2>4. 0 \in 0 .. RingSize /\ m = stored + 0 - n
    BY <1>1, <1>5, <1>6
  <2> QED
    BY <1>1, <2>1, <2>2, <2>3, <2>4 DEF Turned
<1>10. t \in 0 .. RingSize - 1 /\ head = (t + m) % RingSize
  <2>1. head \in 0 .. RingSize - 1 /\ t \in 0 .. RingSize - 1 /\ (head + 0) % RingSize = (t + m) % RingSize
    BY <1>9, Ends
  <2>2. head % RingSize = head
    BY <1>1, <2>1
  <2>3. head + 0 = head
    BY <1>1, <2>1
  <2> QED
    BY <2>1, <2>2, <2>3
<1>11. PICK u \in Seq(Nat) : /\ u = SubSeq(q, n + 1, Len(q)) /\ Len(u) = m
                             /\ \A i \in 1 .. m : u[i] = q[n + i]
  <2>1. /\ SubSeq(q, n + 1, stored) \in Seq(Nat) /\ Len(SubSeq(q, n + 1, stored)) = stored - n
        /\ \A i \in 1 .. stored - n : SubSeq(q, n + 1, stored)[i] = q[n + i]
    <3>1. PICK a \in 1 .. Len(q) + 1 : a = n + 1 /\ stored \in a - 1 .. Len(q)
      BY <1>1, <1>2, <1>5
    <3>2. stored - a + 1 = stored - n /\ \A i \in 1 .. stored - n : a + i - 1 = n + i
      BY <1>1, <1>5, <3>1
    <3>3. /\ SubSeq(q, a, stored) \in Seq(Nat) /\ Len(SubSeq(q, a, stored)) = stored - a + 1
          /\ \A i \in 1 .. stored - a + 1 : SubSeq(q, a, stored)[i] = q[a + i - 1]
      <4>1. q \in Seq(Nat) /\ Len(q) \in Nat
        BY LenProperties DEF RingHolds
      <4>2. PICK b \in a - 1 .. Len(q) : b = stored
        BY <3>1
      <4>3. /\ SubSeq(q, a, b) \in Seq(Nat) /\ Len(SubSeq(q, a, b)) = b - a + 1
            /\ \A i \in 1 .. b - a + 1 : SubSeq(q, a, b)[i] = q[a + i - 1]
        BY <4>1
      <4> QED
        BY <4>2, <4>3
    <3>4. \A i \in 1 .. stored - n : SubSeq(q, a, stored)[i] = q[n + i]
      BY <3>2, <3>3
    <3> QED
      BY <3>1, <3>2, <3>3, <3>4
  <2> QED
    BY <1>2, <1>6, <2>1
<1>12. PICK w : w = RingRead(r, count)
  OBVIOUS
<1>13. Smaller(count, r.stored) = n
  BY <1>0, <1>2
<1>14. /\ w.ring = [r EXCEPT !.tail = t, !.stored = m]
       /\ w.bytes = [i \in 1 .. n |-> r.cells[(tail + (i - 1)) % RingSize]]
  BY <1>2, <1>3, <1>6, <1>7, <1>12, <1>13 DEF RingRead
<1>15. w.ring = [head |-> head, tail |-> t, stored |-> m, cells |-> r.cells]
  <2>1. r = [head |-> r.head, tail |-> r.tail, stored |-> r.stored, cells |-> r.cells]
    BY DEF RingHolds
  <2> QED
    BY <1>4, <1>14, <2>1
<1>16. w.bytes = SubSeq(q, 1, n)
  <2>1. SubSeq(q, 1, n) = [i \in 1 .. n |-> q[i]]
    BY <1>1, <1>2, <1>5, <1>8
  <2>2. \A i \in 1 .. n : i \in 1 .. stored
    BY <1>5
  <2>3. \A i \in 1 .. n : r.cells[(tail + (i - 1)) % RingSize] = q[i]
    BY <1>8, <2>2, Zenon
  <2> QED
    <3>1. \A i \in 1 .. n : r.cells[(tail + (i - 1)) % RingSize] = SubSeq(q, 1, n)[i]
      BY <2>1, <2>3
    <3>2. SubSeq(q, 1, n) = [i \in 1 .. n |-> SubSeq(q, 1, n)[i]]
      BY <2>1
    <3> QED
      BY <1>14, <3>1, <3>2, Zenon
<1>17. ASSUME NEW i \in 1 .. m PROVE r.cells[(t + (i - 1)) % RingSize] = u[i]
  <2>1. SlotIn(RingSize, tail, stored, 0, n, head, t, i)
    BY <1>9, SlotOf
  <2>2. ~(i + n > stored)
    BY <1>5, <1>6
  <2>3. (t + (i - 1)) % RingSize = (tail + (i + n - 1)) % RingSize
    BY <2>1, <2>2 DEF SlotIn
  <2>4. PICK j \in 1 .. stored : j = i + n
    BY <1>5, <1>6
  <2>7. r.cells[(tail + (j - 1)) % RingSize] = q[j]
    BY <1>8
  <2>8. n + i = j
    BY <1>5, <2>4
  <2>5. r.cells[(tail + (j - 1)) % RingSize] = q[j] /\ u[i] = q[j]
    BY <1>11, <2>7, <2>8
  <2>6. i + n - 1 = j - 1
    BY <1>5, <2>4
  <2> QED
    BY <2>3, <2>5, <2>6
<1>18. r.cells \in [0 .. RingSize - 1 -> Nat]
  BY DEF RingHolds
<1>19. RingHolds(w.ring, u)
  <2>1. PICK v : v = w.ring
    OBVIOUS
  <2>2. v = [head |-> head, tail |-> t, stored |-> m, cells |-> r.cells]
    BY <1>15, <2>1
  <2>3. v.head = head /\ v.tail = t /\ v.stored = m /\ v.cells = r.cells
    BY <2>2
  <2>4. v = [head |-> v.head, tail |-> v.tail, stored |-> v.stored, cells |-> v.cells]
    BY <2>2, <2>3
  <2>5. \A i \in 1 .. Len(u) : v.cells[(v.tail + (i - 1)) % RingSize] = u[i]
    BY <1>11, <1>17, <2>3
  <2>6. RingHolds(v, u)
    BY <1>10, <1>11, <1>18, <2>3, <2>4, <2>5 DEF RingHolds
  <2> QED
    BY <2>1, <2>6
<1> QED
  BY <1>0, <1>11, <1>12, <1>16, <1>19 DEF ReadsRight

-----------------------------------------------------------------------------
(* Recursive functions *)

LEMMA UpFromZero ==
    ASSUME NEW m \in Nat, NEW T, 0 \in T, \A n \in 1..m : n - 1 \in T => n \in T
    PROVE  \A n \in 0..m : n \in T
<1> SUFFICES ASSUME NEW n \in 0..m, n \notin T PROVE FALSE
  OBVIOUS
<1> DEFINE U == {k \in 0..m : k \notin T}
<1>1. PICK k \in U : \A j \in U : k <= j
  <2>1. n \in U /\ U \subseteq Nat
    OBVIOUS
  <2> HIDE DEF U
  <2> QED
    BY <2>1, LeastNumber
<1>2. k # 0 /\ k \in 1..m
  BY <1>1
<1>3. k - 1 \in T
  BY <1>1, <1>2
<1> QED
  BY <1>1, <1>2, <1>3

\* A recursion over 0..m whose step n leads from Q[n - 1] to Q[n] defines a function.
Leads(m, Q, base, G) ==
    base \in Q[0] /\ \A n \in 1..m : \A x \in Q[n - 1] : G[n][x] \in Q[n]
Runs(m, Q, base, G, f) == /\ f = [n \in 0..m |-> f[n]]
                          /\ f[0] = base
                          /\ \A n \in 1..m : f[n] = G[n][f[n - 1]]
                          /\ \A n \in 0..m : f[n] \in Q[n]

LEMMA Recursion ==
    ASSUME NEW m \in Nat, NEW Q, NEW base, NEW G, Leads(m, Q, base, G)
    PROVE  \E f : Runs(m, Q, base, G, f)
<1> USE DEF Leads
<1> DEFINE Fits(f, k) == Runs(k, Q, base, G, f)
           T == {k \in 0..m : \E f : Fits(f, k)}
<1> USE DEF Runs
<1>1. 0 \in T
  <2>1. PICK f : f = [n \in 0..0 |-> base]
    OBVIOUS
  <2>2. Fits(f, 0)
    BY <2>1
  <2> HIDE DEF Fits, Runs
  <2> QED
    BY <2>2
<1>2. ASSUME NEW k \in 1..m, k - 1 \in T PROVE k \in T
  <2>1. PICK f : Fits(f, k - 1)
    BY <1>2
  <2>2. PICK g : g = [n \in 0..k |-> IF n = k THEN G[k][f[k - 1]] ELSE f[n]]
    OBVIOUS
  <2>3. g[k] = G[k][f[k - 1]] /\ \A n \in 0..(k - 1) : g[n] = f[n]
    BY <2>2
  <2>4. k - 1 \in 0..(k - 1) /\ f[k - 1] \in Q[k - 1]
    BY <2>1
  <2>5. g[k] \in Q[k] /\ g[k] = G[k][g[k - 1]]
    BY <2>3, <2>4
  <2>6. ASSUME NEW n \in 1..k PROVE g[n] = G[n][g[n - 1]]
    <3>1. CASE n = k
      BY <2>5, <3>1
    <3>2. CASE n # k
      <4>1. n \in 1..(k - 1) /\ n \in 0..(k - 1) /\ n - 1 \in 0..(k - 1)
        BY <3>2
      <4>2. f[n] = G[n][f[n - 1]]
        BY <2>1, <4>1
      <4> QED
        BY <2>3, <4>1, <4>2
    <3> QED
      BY <3>1, <3>2
  <2>7. ASSUME NEW n \in 0..k PROVE g[n] \in Q[n]
    <3>1. CASE n = k
      BY <2>5, <3>1
    <3>2. CASE n # k
      <4>1. n \in 0..(k - 1)
        BY <3>2
      <4> QED
        BY <2>1, <2>3, <4>1
    <3> QED
      BY <3>1, <3>2
  <2>8. g = [n \in 0..k |-> g[n]] /\ g[0] = base
    BY <2>1, <2>2
  <2>9. Fits(g, k)
    BY <2>6, <2>7, <2>8
  <2> HIDE DEF Fits, Runs
  <2> QED
    BY <2>9
<1>3. m \in 0..m
  OBVIOUS
<1> HIDE DEF T
<1>4. m \in T
  BY <1>1, <1>2, <1>3, UpFromZero
<1> QED
  BY <1>4 DEF T

\* What holds of the first state of a recursion and is kept by each step holds of its last one.
LEMMA RecursionHolds ==
    ASSUME NEW m \in Nat, NEW Q, NEW h, h[0] \in Q[0],
           \A n \in 1..m : h[n - 1] \in Q[n - 1] => h[n] \in Q[n]
    PROVE  h[m] \in Q[m]
<1> DEFINE T == {n \in 0..m : h[n] \in Q[n]}
<1>1. 0 \in T /\ \A n \in 1..m : n - 1 \in T => n \in T
  OBVIOUS
<1>2. m \in 0..m
  OBVIOUS
<1> HIDE DEF T
<1>3. m \in T
  BY <1>1, <1>2, UpFromZero
<1> QED
  BY <1>3 DEF T

Iterated(m, Q, base, G, f) ==
    /\ f = [n \in 0..m |-> IF n = 0 THEN base ELSE G[n][f[n - 1]]]
    /\ \A n \in 0..m : f[n] \in Q[n]

\* A recursion whose steps stay in Q is what its definition says.
LEMMA Iterates ==
    ASSUME NEW m \in Nat, NEW Q, NEW base, NEW G, Leads(m, Q, base, G)
    PROVE  \E f : Iterated(m, Q, base, G, f)
<1>1. PICK f : Runs(m, Q, base, G, f)
  BY Recursion
<1>2. /\ f = [n \in 0..m |-> f[n]] /\ f[0] = base
      /\ \A n \in 1..m : f[n] = G[n][f[n - 1]]
      /\ \A n \in 0..m : f[n] \in Q[n]
  BY <1>1 DEF Runs
<1>3. ASSUME NEW n \in 0..m PROVE f[n] = IF n = 0 THEN base ELSE G[n][f[n - 1]]
  <2>1. CASE n = 0
    BY <1>2, <2>1
  <2>2. CASE n # 0
    <3>1. n \in 1..m
      BY <2>2
    <3> QED
      BY <1>2, <2>2, <3>1
  <2> QED
    BY <2>1, <2>2
<1>4. f = [n \in 0..m |-> IF n = 0 THEN base ELSE G[n][f[n - 1]]]
  BY <1>2, <1>3, Zenon
<1> QED
  BY <1>2, <1>4, Zenon DEF Iterated

-----------------------------------------------------------------------------
(* A ring called again and again *)

Cells == [0 .. RingSize - 1 -> Nat]
RingState == [ring : [head : Int, tail : Int, stored : Int, cells : Cells],
              queue : Seq(Nat), next : Nat, same : BOOLEAN]

\* The ring holds the queue, and what was read so far was the same.
InStep == {s \in RingState : RingHolds(s.ring, s.queue) /\ s.same = TRUE}

LEMMA RingTyped ==
    ASSUME NEW r, NEW q, RingHolds(r, q)
    PROVE  r \in [head : Int, tail : Int, stored : Int, cells : Cells]
<1>1. RingSize \in Nat \ {0}
  BY ParsingAssumption
<1>2. /\ r = [head |-> r.head, tail |-> r.tail, stored |-> r.stored, cells |-> r.cells]
      /\ r.tail \in 0 .. RingSize - 1 /\ r.stored \in 0 .. RingSize
      /\ r.cells \in Cells
  BY DEF RingHolds, Cells
<1>3. r.head = (r.tail + r.stored) % RingSize
  BY DEF RingHolds
<1>4. r.tail \in Int /\ r.stored \in Int
  BY <1>2
<1>5. PICK x \in Int : x = r.tail + r.stored
  BY <1>4
<1>6. x % RingSize \in Int
  BY <1>1
<1> QED
  BY <1>2, <1>3, <1>4, <1>5, <1>6

LEMMA Stepped ==
    ASSUME NEW s, s.same = TRUE, RingHolds(s.ring, s.queue), s.next \in Nat,
           s = [ring |-> s.ring, queue |-> s.queue, next |-> s.next, same |-> s.same]
    PROVE  s \in InStep
<1>1. s.ring \in [head : Int, tail : Int, stored : Int, cells : Cells]
  BY RingTyped
<1>2. s.queue \in Seq(Nat)
  BY DEF RingHolds
<1> QED
  BY <1>1, <1>2 DEF InStep, RingState

LEMMA RingStarts == EmptyQueue \in InStep
<1>1. RingSize \in Nat \ {0}
  BY ParsingAssumption
<1>2. PICK r : r = EmptyRing
  OBVIOUS
<1>3. /\ r = [head |-> r.head, tail |-> r.tail, stored |-> r.stored, cells |-> r.cells]
      /\ r.head = 0 /\ r.tail = 0 /\ r.stored = 0 /\ r.cells = [i \in 0 .. RingSize - 1 |-> 0]
  BY <1>2 DEF EmptyRing
<1>4. 0 = (0 + 0) % RingSize
  BY <1>1
<1>5. RingHolds(r, <<>>)
  BY <1>1, <1>3, <1>4 DEF RingHolds
<1> QED
  BY <1>2, <1>5, Stepped DEF EmptyQueue

LEMMA Cleared ==
    ASSUME NEW r, NEW q, RingHolds(r, q)
    PROVE  RingHolds(RingClear(r), <<>>)
<1>1. RingSize \in Nat \ {0}
  BY ParsingAssumption
<1>2. PICK t : t = RingClear(r)
  OBVIOUS
<1>3. r = [head |-> r.head, tail |-> r.tail, stored |-> r.stored, cells |-> r.cells]
  BY DEF RingHolds
<1>4. t = [head |-> 0, tail |-> 0, stored |-> 0, cells |-> r.cells]
  BY <1>2, <1>3 DEF RingClear
<1>5. t.head = 0 /\ t.tail = 0 /\ t.stored = 0 /\ t.cells = r.cells
      /\ t = [head |-> t.head, tail |-> t.tail, stored |-> t.stored, cells |-> t.cells]
  BY <1>4
<1>6. 0 = (0 + 0) % RingSize
  BY <1>1
<1>7. r.cells \in [0 .. RingSize - 1 -> Nat]
  BY DEF RingHolds
<1> QED
  BY <1>1, <1>2, <1>5, <1>6, <1>7 DEF RingHolds

LEMMA RingSteps ==
    ASSUME NEW s \in InStep, NEW c \in RingCall
    PROVE  RingCalled(s, c) \in InStep
<1>1. RingSize \in Nat \ {0}
  BY ParsingAssumption
<1>2. c.op \in {"write", "read", "clear"} /\ c.count \in Nat
  BY <1>1 DEF RingCall
<1>3. RingHolds(s.ring, s.queue) /\ s.same = TRUE /\ s.next \in Nat /\ s.queue \in Seq(Nat)
  BY DEF InStep, RingState
<1>4. PICK count \in Nat : count = c.count
  BY <1>2
<1>5. PICK u : u = RingCalled(s, c)
  OBVIOUS
<1>6. CASE c.op = "write"
  <2>1. PICK data \in Seq(Nat) : data = [i \in 1 .. count |-> s.next + i]
    <3>1. PICK f : f = [i \in 1 .. count |-> s.next + i]
      OBVIOUS
    <3>2. f \in [1 .. count -> Nat]
      BY <1>3, <3>1
    <3>3. f \in Seq(Nat)
      BY <3>2, SeqDef
    <3> QED
      BY <3>1, <3>3
  <2>2. u = [ring |-> RingWrite(s.ring, data), queue |-> Ending(s.queue \o data, RingSize),
             next |-> s.next + count, same |-> s.same]
    BY <1>4, <1>5, <1>6, <2>1 DEF RingCalled
  <2>3. RingHolds(RingWrite(s.ring, data), Ending(s.queue \o data, RingSize))
    BY <1>3, RingWrites
  <2>4. u.ring = RingWrite(s.ring, data) /\ u.queue = Ending(s.queue \o data, RingSize)
        /\ u.next = s.next + count /\ u.same = TRUE
        /\ u = [ring |-> u.ring, queue |-> u.queue, next |-> u.next, same |-> u.same]
    BY <1>3, <2>2
  <2>5. s.next + count \in Nat
    BY <1>3
  <2> QED
    BY <1>5, <2>3, <2>4, <2>5, Stepped
<1>7. CASE c.op = "read"
  <2>1. PICK n : n = Smaller(count, Len(s.queue))
    OBVIOUS
  <2>2. PICK r : r = RingRead(s.ring, count)
    OBVIOUS
  <2>3. ReadsRight(s.ring, s.queue, count)
    BY <1>3, RingReads
  <2>7. /\ RingHolds(r.ring, SubSeq(s.queue, n + 1, Len(s.queue)))
        /\ r.bytes = SubSeq(s.queue, 1, n)
    BY <2>1, <2>2, <2>3 DEF ReadsRight
  <2>4. u = [ring |-> r.ring, queue |-> SubSeq(s.queue, n + 1, Len(s.queue)), next |-> s.next,
             same |-> s.same /\ r.bytes = SubSeq(s.queue, 1, n)]
    BY <1>4, <1>5, <1>7, <2>1, <2>2 DEF RingCalled
  <2>5. (s.same /\ r.bytes = SubSeq(s.queue, 1, n)) = TRUE
    BY <1>3, <2>7
  <2>6. u.ring = r.ring /\ u.queue = SubSeq(s.queue, n + 1, Len(s.queue))
        /\ u.next = s.next /\ u.same = TRUE
        /\ u = [ring |-> u.ring, queue |-> u.queue, next |-> u.next, same |-> u.same]
    BY <2>4, <2>5
  <2> QED
    BY <1>3, <1>5, <2>6, <2>7, Stepped
<1>8. CASE c.op = "clear"
  <2>1. PICK r : r = RingClear(s.ring)
    OBVIOUS
  <2>2. u = [ring |-> r, queue |-> <<>>, next |-> s.next, same |-> s.same]
    BY <1>5, <1>8, <2>1 DEF RingCalled
  <2>3. RingHolds(r, <<>>)
    BY <1>3, <2>1, Cleared
  <2>4. u.ring = r /\ u.queue = <<>> /\ u.next = s.next /\ u.same = TRUE
        /\ u = [ring |-> u.ring, queue |-> u.queue, next |-> u.next, same |-> u.same]
    BY <1>3, <2>2
  <2> QED
    BY <1>3, <1>5, <2>3, <2>4, Stepped
<1> QED
  BY <1>2, <1>6, <1>7, <1>8

LEMMA RingAgrees == RingIsQueue
<1> SUFFICES ASSUME NEW calls \in [1 .. RingOps -> RingCall]
             PROVE  AllCalled(calls).same /\ AllCalled(calls).ring.stored = Len(AllCalled(calls).queue)
  BY DEF RingIsQueue
<1>1. PICK m \in Nat : m = RingOps
  BY ParsingAssumption
<1>2. PICK Q : Q = [n \in 0 .. m |-> InStep]
  OBVIOUS
<1>3. PICK G : G = [n \in 1 .. m |-> [s \in InStep |-> RingCalled(s, calls[n])]]
  OBVIOUS
<1>4. \A n \in 1 .. m : \A s \in InStep : G[n][s] = RingCalled(s, calls[n])
  BY <1>3
<1>5. \A n \in 0 .. m : Q[n] = InStep
  BY <1>2
<1>6. Leads(m, Q, EmptyQueue, G)
  <2>1. ASSUME NEW n \in 1 .. m, NEW s \in Q[n - 1] PROVE G[n][s] \in Q[n]
    <3>1. n - 1 \in 0 .. m /\ n \in 0 .. m /\ calls[n] \in RingCall
      BY <1>1
    <3> QED
      BY <1>4, <1>5, <2>1, <3>1, RingSteps
  <2>2. EmptyQueue \in Q[0]
    BY <1>5, RingStarts
  <2> QED
    BY <2>1, <2>2 DEF Leads
<1>7. PICK f : /\ f = [n \in 0 .. m |-> IF n = 0 THEN EmptyQueue ELSE G[n][f[n - 1]]]
               /\ \A n \in 0 .. m : f[n] \in Q[n]
  <2>1. PICK h : Iterated(m, Q, EmptyQueue, G, h)
    BY <1>6, Iterates, Zenon
  <2> QED
    BY <2>1, Zenon DEF Iterated
<1>8. ASSUME NEW n \in 0 .. m
      PROVE  f[n] = IF n = 0 THEN EmptyQueue ELSE RingCalled(f[n - 1], calls[n])
  <2>1. CASE n = 0
    BY <1>7, <2>1
  <2>2. CASE n # 0
    <3>1. n \in 1 .. m /\ n - 1 \in 0 .. m
      BY <2>2
    <3>2. f[n - 1] \in InStep
      BY <1>5, <1>7, <3>1
    <3>3. f[n] = G[n][f[n - 1]]
      BY <1>7, <2>2
    <3> QED
      BY <1>4, <2>2, <3>1, <3>2, <3>3
  <2> QED
    BY <2>1, <2>2
<1>9. f = [n \in 0 .. m |-> IF n = 0 THEN EmptyQueue ELSE RingCalled(f[n - 1], calls[n])]
  <2>1. f = [n \in 0 .. m |-> f[n]]
    BY <1>7
  <2> QED
    BY <1>8, <2>1, Zenon
<1>10. PICK h : /\ h = [n \in 0 .. m |-> IF n = 0 THEN EmptyQueue ELSE RingCalled(h[n - 1], calls[n])]
                /\ AllCalled(calls) = h[m]
  BY <1>1, <1>9, Zenon DEF AllCalled
<1>11. h[0] = EmptyQueue /\ \A n \in 1 .. m : h[n] = RingCalled(h[n - 1], calls[n])
  BY <1>10
<1>12. h[m] \in Q[m]
  <2>1. ASSUME NEW n \in 1 .. m, h[n - 1] \in Q[n - 1] PROVE h[n] \in Q[n]
    <3>1. n - 1 \in 0 .. m /\ n \in 0 .. m /\ calls[n] \in RingCall
      BY <1>1
    <3> QED
      BY <1>5, <1>11, <2>1, <3>1, RingSteps
  <2>2. h[0] \in Q[0]
    BY <1>5, <1>11, RingStarts
  <2> QED
    BY <2>1, <2>2, RecursionHolds
<1>13. h[m] \in InStep
  BY <1>5, <1>12
<1> QED
  BY <1>10, <1>13 DEF InStep, RingHolds

-----------------------------------------------------------------------------
(* Parsers *)

Bytes == Seq(Nat)
Parsed == [packets : Seq(Bytes), buffer : Bytes]

\* What is true of no bytes and of any bytes with one more is true of all.
LEMMA BytesUp ==
    ASSUME NEW T, <<>> \in T, \A s \in Bytes : \A x \in Nat : s \in T => Append(s, x) \in T
    PROVE  \A s \in Bytes : s \in T
<1> SUFFICES ASSUME NEW s \in Bytes PROVE s \in T
  OBVIOUS
<1> DEFINE U == {n \in 0 .. Len(s) : \A r \in Bytes : Len(r) = n => r \in T}
<1>1. Len(s) \in Nat
  BY LenProperties, Zenon DEF Bytes
<1>2. 0 \in U
  <2>1. ASSUME NEW r \in Bytes, Len(r) = 0 PROVE r \in T
    <3>1. r = <<>>
      BY <2>1, EmptySeq DEF Bytes
    <3> QED
      BY <3>1
  <2> QED
    BY <1>1, <2>1
<1>3. ASSUME NEW n \in 1 .. Len(s), n - 1 \in U PROVE n \in U
  <2>1. ASSUME NEW r \in Bytes, Len(r) = n PROVE r \in T
    <3>1. r # <<>>
      BY <2>1
    <3>2. PICK q \in Bytes, x \in Nat : r = Append(q, x)
      BY <3>1, SequenceEmptyOrAppend DEF Bytes
    <3>3. Len(q) \in Nat /\ Len(r) = Len(q) + 1
      BY <3>2, AppendProperties, LenProperties DEF Bytes
    <3>4. q \in T
      BY <1>3, <2>1, <3>3
    <3> QED
      BY <3>2, <3>4
  <2> QED
    BY <2>1
<1> HIDE DEF U
<1>4. \A n \in 1 .. Len(s) : n - 1 \in U => n \in U
  BY <1>3
<1>5. Len(s) \in U
  <2>1. Len(s) \in 0 .. Len(s)
    BY <1>1
  <2> QED
    BY <1>1, <1>2, <1>4, <2>1, UpFromZero
<1> QED
  BY <1>5 DEF U

LEMMA TakenTyped ==
    ASSUME NEW p, NEW s \in Parsed, NEW b \in Nat
    PROVE  Taken(p, s, b) \in Parsed
<1>1. PICK part \in Bytes : part = Append(s.buffer, b)
  BY AppendProperties DEF Parsed, Bytes
<1>2. s.packets \in Seq(Bytes) /\ Append(s.packets, part) \in Seq(Bytes)
  BY AppendProperties DEF Parsed
<1>3. <<>> \in Bytes
  BY EmptySeq DEF Bytes
<1> QED
  BY <1>1, <1>2, <1>3 DEF Taken, Parsed

LEMMA NothingTyped == Nothing \in Parsed
  BY EmptySeq DEF Nothing, Parsed, Bytes

\* f[i]: the parser after i bytes.
After(p, bytes, f) ==
    f[0] = Nothing /\ \A i \in 1 .. Len(bytes) : f[i] = Taken(p, f[i - 1], bytes[i])

LEMMA SplitRuns ==
    ASSUME NEW p, NEW bytes \in Bytes
    PROVE  \E f : /\ After(p, bytes, f) /\ Split(p, bytes) = f[Len(bytes)]
                  /\ f[Len(bytes)] \in Parsed
<1>1. PICK m \in Nat : m = Len(bytes)
  BY LenProperties, Zenon DEF Bytes
<1>2. PICK Q : Q = [n \in 0 .. m |-> Parsed]
  OBVIOUS
<1>3. PICK G : G = [n \in 1 .. m |-> [s \in Parsed |-> Taken(p, s, bytes[n])]]
  OBVIOUS
<1>4. \A n \in 1 .. m : \A s \in Parsed : G[n][s] = Taken(p, s, bytes[n])
  BY <1>3
<1>5. \A n \in 0 .. m : Q[n] = Parsed
  BY <1>2
<1>6. \A n \in 1 .. m : bytes[n] \in Nat
  BY <1>1, ElementOfSeq DEF Bytes
<1>7. \A n \in 1 .. m : n \in 0 .. m /\ n - 1 \in 0 .. m
  OBVIOUS
<1>8. Leads(m, Q, Nothing, G)
  <2>1. ASSUME NEW n \in 1 .. m, NEW s \in Q[n - 1] PROVE G[n][s] \in Q[n]
    BY <1>4, <1>5, <1>6, <1>7, TakenTyped
  <2>2. Nothing \in Q[0]
    BY <1>5, NothingTyped
  <2> QED
    BY <2>1, <2>2 DEF Leads
<1>9. PICK f : /\ f = [n \in 0 .. m |-> IF n = 0 THEN Nothing ELSE G[n][f[n - 1]]]
               /\ \A n \in 0 .. m : f[n] \in Q[n]
  <2>1. PICK h : Iterated(m, Q, Nothing, G, h)
    BY <1>8, Iterates, Zenon
  <2> QED
    BY <2>1, Zenon DEF Iterated
<1>10. ASSUME NEW n \in 0 .. m
       PROVE  f[n] = IF n = 0 THEN Nothing ELSE Taken(p, f[n - 1], bytes[n])
  <2>1. CASE n = 0
    BY <1>9, <2>1
  <2>2. CASE n # 0
    <3>1. n \in 1 .. m /\ n - 1 \in 0 .. m
      BY <2>2
    <3>2. f[n - 1] \in Parsed
      BY <1>5, <1>9, <3>1
    <3>3. f[n] = G[n][f[n - 1]]
      BY <1>9, <2>2
    <3> QED
      BY <1>4, <2>2, <3>1, <3>2, <3>3
  <2> QED
    BY <2>1, <2>2
<1>11. f = [n \in 0 .. m |-> IF n = 0 THEN Nothing ELSE Taken(p, f[n - 1], bytes[n])]
  <2>1. f = [n \in 0 .. m |-> f[n]]
    BY <1>9
  <2> QED
    BY <1>10, <2>1, Zenon
<1>12. PICK h : /\ h = [n \in 0 .. m |-> IF n = 0 THEN Nothing ELSE Taken(p, h[n - 1], bytes[n])]
                /\ Split(p, bytes) = h[m]
  BY <1>1, <1>11, Zenon DEF Split
<1>13. h[0] = Nothing /\ \A n \in 1 .. m : h[n] = Taken(p, h[n - 1], bytes[n])
  BY <1>12
<1>14. h[m] \in Q[m]
  <2>1. ASSUME NEW n \in 1 .. m, h[n - 1] \in Q[n - 1] PROVE h[n] \in Q[n]
    <3>1. h[n - 1] \in Parsed /\ bytes[n] \in Nat
      BY <1>5, <1>6, <1>7, <2>1
    <3>2. h[n] \in Parsed
      BY <1>13, <3>1, TakenTyped
    <3> QED
      BY <1>5, <1>7, <3>2
  <2>2. h[0] \in Q[0]
    BY <1>5, <1>13, NothingTyped
  <2> QED
    BY <2>1, <2>2, RecursionHolds
<1>15. h[m] \in Parsed
  BY <1>5, <1>14
<1>16. After(p, bytes, h)
  BY <1>1, <1>13 DEF After
<1> QED
  BY <1>1, <1>12, <1>15, <1>16

LEMMA SplitTyped ==
    ASSUME NEW p, NEW bytes \in Bytes
    PROVE  Split(p, bytes) \in Parsed
  BY SplitRuns

LEMMA SplitNothing == ASSUME NEW p PROVE Split(p, <<>>) = Nothing
<1>1. <<>> \in Bytes /\ Len(<<>>) = 0
  BY EmptySeq DEF Bytes
<1>2. PICK f : After(p, <<>>, f) /\ Split(p, <<>>) = f[Len(<<>>)]
  BY <1>1, SplitRuns
<1> QED
  BY <1>1, <1>2 DEF After

LEMMA SplitAppend ==
    ASSUME NEW p, NEW bytes \in Bytes, NEW b \in Nat
    PROVE  Split(p, Append(bytes, b)) = Taken(p, Split(p, bytes), b)
<1>1. PICK more \in Bytes : more = Append(bytes, b)
  BY AppendProperties DEF Bytes
<1>2. PICK m \in Nat : m = Len(bytes)
  BY LenProperties, Zenon DEF Bytes
<1>3. Len(more) = m + 1 /\ more[m + 1] = b /\ \A i \in 1 .. m : more[i] = bytes[i]
  BY <1>1, <1>2, AppendProperties DEF Bytes
<1>4. PICK f : After(p, bytes, f) /\ Split(p, bytes) = f[Len(bytes)]
  BY SplitRuns
<1>5. PICK g : After(p, more, g) /\ Split(p, more) = g[Len(more)]
  BY SplitRuns
<1>6. f[0] = Nothing /\ \A i \in 1 .. m : f[i] = Taken(p, f[i - 1], bytes[i])
  BY <1>2, <1>4 DEF After
<1>7. g[0] = Nothing /\ \A i \in 1 .. m + 1 : g[i] = Taken(p, g[i - 1], more[i])
  BY <1>3, <1>5 DEF After
<1> DEFINE T == {i \in 0 .. m : f[i] = g[i]}
<1>8. 0 \in T
  BY <1>6, <1>7
<1>9. ASSUME NEW n \in 1 .. m, n - 1 \in T PROVE n \in T
  <2>1. f[n - 1] = g[n - 1] /\ n \in 1 .. m + 1 /\ n \in 0 .. m
    BY <1>9
  <2>2. f[n] = g[n]
    BY <1>3, <1>6, <1>7, <2>1
  <2> QED
    BY <2>1, <2>2
<1> HIDE DEF T
<1>10. m \in T
  <2>1. m \in 0 .. m
    OBVIOUS
  <2> QED
    BY <1>8, <1>9, <2>1, UpFromZero
<1>11. f[m] = g[m]
  BY <1>10 DEF T
<1>12. PICK k \in 1 .. m + 1 : k = m + 1 /\ k - 1 = m
  <2>1. m + 1 \in 1 .. m + 1 /\ m + 1 - 1 = m
    OBVIOUS
  <2> QED
    BY <2>1
<1>13. g[k] = Taken(p, g[k - 1], more[k])
  BY <1>7
<1>14. Split(p, more) = g[k] /\ Split(p, bytes) = f[m] /\ more[k] = b
  BY <1>2, <1>3, <1>4, <1>5, <1>12
<1> QED
  BY <1>1, <1>11, <1>12, <1>13, <1>14

LEMMA AppendJoins ==
    ASSUME NEW S, NEW u \in Seq(S), NEW v \in Seq(S), NEW x \in S
    PROVE  u \o Append(v, x) = Append(u \o v, x)
<1>1. <<x>> \in Seq(S) /\ u \o v \in Seq(S)
  BY ConcatProperties
<1>2. Append(v, x) = v \o <<x>> /\ Append(u \o v, x) = (u \o v) \o <<x>>
  BY <1>1, AppendIsConcat
<1>3. (u \o v) \o <<x>> = u \o (v \o <<x>>)
  BY <1>1, ConcatAssociative
<1> QED
  BY <1>2, <1>3

LEMMA BytesAppend ==
    ASSUME NEW u \in Bytes, NEW v \in Bytes, NEW x \in Nat
    PROVE  u \o Append(v, x) = Append(u \o v, x)
  BY AppendJoins DEF Bytes

\* Packets that were there before stay in front.
Behind(u, s) == [packets |-> u \o s.packets, buffer |-> s.buffer]

LEMMA TakenBehind ==
    ASSUME NEW p, NEW u \in Seq(Bytes), NEW s \in Parsed, NEW b \in Nat
    PROVE  Taken(p, Behind(u, s), b) = Behind(u, Taken(p, s, b))
<1>1. PICK part \in Bytes : part = Append(s.buffer, b)
  BY AppendProperties DEF Parsed, Bytes
<1>2. s.packets \in Seq(Bytes)
  BY SMTT(30) DEF Parsed
<1>3. u \o Append(s.packets, part) = Append(u \o s.packets, part)
  BY <1>1, <1>2, AppendJoins
<1>4. PICK r : r = Behind(u, s)
  OBVIOUS
<1>5. r.packets = u \o s.packets /\ r.buffer = s.buffer
  BY <1>4 DEF Behind
<1>6. CASE ~IsWhole(p, part)
  <2>1. Taken(p, r, b) = [packets |-> u \o s.packets, buffer |-> part]
    BY <1>1, <1>5, <1>6 DEF Taken
  <2>2. Taken(p, s, b) = [packets |-> s.packets, buffer |-> part]
    BY <1>1, <1>6 DEF Taken
  <2> QED
    BY <1>4, <2>1, <2>2 DEF Behind
<1>7. CASE IsWhole(p, part) /\ p.type = "AT" /\ part = CRLF
  <2>1. Taken(p, r, b) = [packets |-> u \o s.packets, buffer |-> <<>>]
    BY <1>1, <1>5, <1>7 DEF Taken
  <2>2. Taken(p, s, b) = [packets |-> s.packets, buffer |-> <<>>]
    BY <1>1, <1>7 DEF Taken
  <2> QED
    BY <1>4, <2>1, <2>2 DEF Behind
<1>8. CASE IsWhole(p, part) /\ ~(p.type = "AT" /\ part = CRLF)
  <2>1. Taken(p, r, b) = [packets |-> Append(u \o s.packets, part), buffer |-> <<>>]
    BY <1>1, <1>5, <1>8 DEF Taken
  <2>2. Taken(p, s, b) = [packets |-> Append(s.packets, part), buffer |-> <<>>]
    BY <1>1, <1>8 DEF Taken
  <2>3. PICK t : t = Taken(p, s, b)
    OBVIOUS
  <2>4. t.packets = Append(s.packets, part) /\ t.buffer = <<>>
    BY <2>2, <2>3
  <2>5. Behind(u, t) = [packets |-> u \o Append(s.packets, part), buffer |-> <<>>]
    BY <2>4 DEF Behind
  <2> QED
    BY <1>3, <1>4, <2>1, <2>3, <2>5
<1> QED
  BY <1>6, <1>7, <1>8

\* What a parser keeps is the beginning of a packet: alone it is kept again.
LEMMA BufferIsKept ==
    ASSUME NEW p, NEW bytes \in Bytes
    PROVE  Split(p, Split(p, bytes).buffer) = [packets |-> <<>>, buffer |-> Split(p, bytes).buffer]
<1> DEFINE KeptAgain(a) == Split(p, Split(p, a).buffer) = [packets |-> <<>>, buffer |-> Split(p, a).buffer]
           T == {a \in Bytes : KeptAgain(a)}
<1>1. <<>> \in T
  <2>1. Split(p, <<>>).buffer = <<>>
    BY SplitNothing DEF Nothing
  <2>2. KeptAgain(<<>>)
    BY <2>1, SplitNothing DEF Nothing
  <2> QED
    BY <2>2, EmptySeq DEF Bytes
<1>2. ASSUME NEW a \in Bytes, NEW b \in Nat, a \in T PROVE Append(a, b) \in T
  <2>1. PICK s \in Parsed : s = Split(p, a)
    BY SplitTyped
  <2>2. PICK r : r = Taken(p, s, b)
    OBVIOUS
  <2>3. Split(p, Append(a, b)) = r
    BY <2>1, <2>2, SplitAppend
  <2>4. s.buffer \in Bytes
    BY DEF Parsed
  <2>5. Split(p, s.buffer) = [packets |-> <<>>, buffer |-> s.buffer]
    BY <1>2, <2>1
  <2>6. PICK part : part = Append(s.buffer, b)
    OBVIOUS
  <2>7. KeptAgain(Append(a, b))
    <3>1. CASE ~IsWhole(p, part)
      <4>1. r.buffer = part
        BY <2>2, <2>6, <3>1 DEF Taken
      <4>2. PICK t : t = Split(p, s.buffer)
        OBVIOUS
      <4>3. t.packets = <<>> /\ t.buffer = s.buffer
        BY <2>5, <4>2
      <4>4. Split(p, part) = Taken(p, t, b)
        BY <2>4, <2>6, <4>2, SplitAppend
      <4>5. Taken(p, t, b) = [packets |-> <<>>, buffer |-> part]
        BY <2>6, <3>1, <4>3 DEF Taken
      <4> QED
        BY <2>3, <4>1, <4>4, <4>5
    <3>2. CASE IsWhole(p, part)
      <4>1. r.buffer = <<>>
        BY <2>2, <2>6, <3>2 DEF Taken
      <4> QED
        BY <2>3, <4>1, SplitNothing DEF Nothing
    <3> QED
      BY <3>1, <3>2
  <2>8. Append(a, b) \in Bytes
    BY AppendProperties DEF Bytes
  <2> QED
    BY <2>7, <2>8
<1> HIDE DEF T
<1>3. bytes \in T
  BY <1>1, <1>2, BytesUp
<1> QED
  BY <1>3 DEF T

\* What was read before and what comes now may as well be read at once.
LEMMA SplitJoined ==
    ASSUME NEW p, NEW a \in Bytes, NEW c \in Bytes, NEW s, s = Split(p, a)
    PROVE  Split(p, a \o c) = Behind(s.packets, Split(p, s.buffer \o c))
<1>0. s \in Parsed /\ s.packets \in Seq(Bytes) /\ s.buffer \in Bytes
  BY SplitTyped DEF Parsed
<1> DEFINE T == {e \in Bytes : Split(p, a \o e) = Behind(s.packets, Split(p, s.buffer \o e))}
<1>1. <<>> \in T
  <2>1. a \o <<>> = a /\ s.buffer \o <<>> = s.buffer
    BY <1>0, ConcatEmptySeq DEF Bytes
  <2>2. Split(p, s.buffer) = [packets |-> <<>>, buffer |-> s.buffer]
    BY BufferIsKept
  <2>3. PICK t : t = Split(p, s.buffer)
    OBVIOUS
  <2>4. t.packets = <<>> /\ t.buffer = s.buffer
    BY <2>2, <2>3
  <2>5. s.packets \o <<>> = s.packets
    BY <1>0, ConcatEmptySeq
  <2>6. s = [packets |-> s.packets, buffer |-> s.buffer]
    BY <1>0 DEF Parsed
  <2>7. Behind(s.packets, t) = s
    BY <2>4, <2>5, <2>6 DEF Behind
  <2>8. Split(p, a \o <<>>) = Behind(s.packets, Split(p, s.buffer \o <<>>))
    BY <2>1, <2>3, <2>7
  <2> QED
    BY <2>8, EmptySeq DEF Bytes
<1>2. ASSUME NEW e \in Bytes, NEW b \in Nat, e \in T PROVE Append(e, b) \in T
  <2>1. PICK ae \in Bytes : ae = a \o e
    BY ConcatProperties DEF Bytes
  <2>2. PICK be \in Bytes : be = s.buffer \o e
    BY <1>0, ConcatProperties, ZenonT(60) DEF Bytes
  <2>3. a \o Append(e, b) = Append(ae, b) /\ s.buffer \o Append(e, b) = Append(be, b)
    BY <1>0, <2>1, <2>2, BytesAppend
  <2>4. PICK t \in Parsed : t = Split(p, be)
    BY SplitTyped
  <2>5. Split(p, ae) = Behind(s.packets, t)
    BY <1>2, <2>1, <2>2, <2>4
  <2>6. Split(p, Append(be, b)) = Taken(p, t, b)
    BY <2>4, SplitAppend
  <2>7. Split(p, Append(ae, b)) = Taken(p, Behind(s.packets, t), b)
    BY <2>5, SplitAppend
  <2>8. Taken(p, Behind(s.packets, t), b) = Behind(s.packets, Taken(p, t, b))
    BY <1>0, TakenBehind
  <2>9. Append(e, b) \in Bytes
    BY AppendProperties DEF Bytes
  <2> QED
    BY <2>3, <2>6, <2>7, <2>8, <2>9
<1> HIDE DEF T
<1>3. c \in T
  BY <1>1, <1>2, BytesUp
<1> QED
  BY <1>3 DEF T

-----------------------------------------------------------------------------
(* Packets put together again *)

LEMMA FlatNothing == FlattenSeq(<<>>) = <<>>
  BY DEF FlattenSeq

Glued(ps, f) == f[1] = ps[1] /\ \A i \in 2 .. Len(ps) : f[i] = f[i - 1] \o ps[i]

LEMMA FlatRuns ==
    ASSUME NEW ps \in Seq(Bytes), Len(ps) # 0
    PROVE  \E f : Glued(ps, f) /\ FlattenSeq(ps) = f[Len(ps)]
<1>1. PICK m \in Nat \ {0} : m = Len(ps)
  BY LenProperties
<1>2. PICK k \in Nat : k = m - 1
  OBVIOUS
<1>3. \A n \in 1 .. m : ps[n] \in Bytes
  BY <1>1, ElementOfSeq
<1>4. PICK Q : Q = [n \in 0 .. k |-> Bytes]
  OBVIOUS
<1>5. PICK G : G = [n \in 1 .. k |-> [s \in Bytes |-> s \o ps[n + 1]]]
  OBVIOUS
<1>6. \A n \in 1 .. k : \A s \in Bytes : G[n][s] = s \o ps[n + 1]
  BY <1>5
<1>7. \A n \in 0 .. k : Q[n] = Bytes
  BY <1>4
<1>8. PICK one \in Bytes : one = ps[1]
  <2>1. 1 \in 1 .. m
    BY <1>1
  <2> QED
    BY <1>3, <2>1
<1>9. Leads(k, Q, one, G)
  <2>1. ASSUME NEW n \in 1 .. k, NEW s \in Q[n - 1] PROVE G[n][s] \in Q[n]
    <3>1. n - 1 \in 0 .. k /\ n \in 0 .. k /\ n + 1 \in 1 .. m
      BY <1>2
    <3>2. s \in Bytes /\ ps[n + 1] \in Bytes
      BY <1>3, <1>7, <3>1
    <3>3. s \o ps[n + 1] \in Bytes
      BY <3>2, ConcatProperties DEF Bytes
    <3>4. G[n][s] = s \o ps[n + 1]
      BY <1>6, <3>2
    <3> QED
      BY <1>7, <3>1, <3>3, <3>4
  <2>2. one \in Q[0]
    BY <1>7, <1>8
  <2> QED
    BY <2>1, <2>2 DEF Leads
<1>10. PICK f : /\ f = [n \in 0 .. k |-> IF n = 0 THEN one ELSE G[n][f[n - 1]]]
                /\ \A n \in 0 .. k : f[n] \in Q[n]
  <2>1. PICK h : Iterated(k, Q, one, G, h)
    BY <1>9, Iterates, Zenon
  <2> QED
    BY <2>1, Zenon DEF Iterated
<1>11. PICK g : g = [n \in 1 .. m |-> f[n - 1]]
  OBVIOUS
<1>12. ASSUME NEW n \in 1 .. m PROVE g[n] = IF n = 1 THEN ps[n] ELSE g[n - 1] \o ps[n]
  <2>1. g[n] = f[n - 1]
    BY <1>11
  <2>2. CASE n = 1
    <3>1. f[0] = one
      BY <1>10
    <3> QED
      BY <1>8, <2>1, <2>2, <3>1
  <2>3. CASE n # 1
    <3>1. PICK i \in 1 .. k : i = n - 1 /\ i + 1 = n
      <4>1. n - 1 \in 1 .. k /\ n - 1 + 1 = n
        BY <1>2, <2>3
      <4> QED
        BY <4>1
    <3>2. i - 1 \in 0 .. k /\ i # 0 /\ i \in 0 .. k
      OBVIOUS
    <3>3. f[i] = G[i][f[i - 1]] /\ f[i - 1] \in Bytes
      BY <1>7, <1>10, <3>2
    <3>4. f[i] = f[i - 1] \o ps[n]
      BY <1>6, <3>1, <3>3
    <3>5. i \in 1 .. m /\ g[i] = f[i - 1]
      BY <1>2, <1>11
    <3> QED
      BY <2>1, <2>3, <3>1, <3>4, <3>5
  <2> QED
    BY <2>2, <2>3
<1>13. g = [n \in 1 .. m |-> IF n = 1 THEN ps[n] ELSE g[n - 1] \o ps[n]]
  <2>1. g = [n \in 1 .. m |-> g[n]]
    BY <1>11
  <2> QED
    BY <1>12, <2>1, Zenon
<1>14. PICK h : /\ h = [n \in 1 .. m |-> IF n = 1 THEN ps[n] ELSE h[n - 1] \o ps[n]]
                /\ FlattenSeq(ps) = h[m]
  <2>1. Len(ps) # 0
    OBVIOUS
  <2> QED
    BY <1>1, <1>13, <2>1, Zenon DEF FlattenSeq
<1>15. h[1] = ps[1] /\ \A n \in 2 .. m : h[n] = h[n - 1] \o ps[n]
  <2>1. \A n \in 1 .. m : h[n] = IF n = 1 THEN ps[n] ELSE h[n - 1] \o ps[n]
    BY <1>14
  <2>2. 1 \in 1 .. m /\ \A n \in 2 .. m : n \in 1 .. m /\ n # 1
    BY <1>1
  <2> QED
    BY <2>1, <2>2, Zenon
<1> QED
  BY <1>1, <1>14, <1>15 DEF Glued

LEMMA FlatAppend ==
    ASSUME NEW ps \in Seq(Bytes), NEW x \in Bytes
    PROVE  FlattenSeq(Append(ps, x)) = FlattenSeq(ps) \o x
<1>1. PICK more \in Seq(Bytes) : more = Append(ps, x)
  BY AppendProperties
<1>2. PICK m \in Nat : m = Len(ps)
  BY LenProperties, Zenon
<1>3. Len(more) = m + 1 /\ more[m + 1] = x /\ \A i \in 1 .. m : more[i] = ps[i]
  BY <1>1, <1>2, AppendProperties
<1>4. PICK g : Glued(more, g) /\ FlattenSeq(more) = g[Len(more)]
  <2>1. Len(more) # 0
    BY <1>2, <1>3
  <2> QED
    BY <2>1, FlatRuns
<1>5. g[1] = more[1] /\ \A i \in 2 .. m + 1 : g[i] = g[i - 1] \o more[i]
  BY <1>3, <1>4 DEF Glued
<1>6. CASE m = 0
  <2>1. ps = <<>>
    BY <1>2, <1>6, EmptySeq
  <2>2. FlattenSeq(more) = x
    BY <1>3, <1>4, <1>5, <1>6
  <2>3. <<>> \o x = x
    BY ConcatEmptySeq DEF Bytes
  <2> QED
    BY <1>1, <2>1, <2>2, <2>3, FlatNothing
<1>7. CASE m # 0
  <2>1. PICK f : Glued(ps, f) /\ FlattenSeq(ps) = f[Len(ps)]
    BY <1>2, <1>7, FlatRuns
  <2>2. f[1] = ps[1] /\ \A i \in 2 .. m : f[i] = f[i - 1] \o ps[i]
    BY <1>2, <2>1 DEF Glued
  <2> DEFINE T == {i \in 0 .. m : i = 0 \/ f[i] = g[i]}
  <2>3. 0 \in T
    BY <1>2
  <2>4. ASSUME NEW n \in 1 .. m, n - 1 \in T PROVE n \in T
    <3>1. CASE n = 1
      BY <1>3, <1>5, <2>2, <3>1
    <3>2. CASE n # 1
      <4>1. n \in 2 .. m /\ n \in 2 .. m + 1 /\ n - 1 # 0 /\ n \in 0 .. m
        BY <3>2
      <4>2. f[n - 1] = g[n - 1]
        BY <2>4, <4>1
      <4>3. f[n] = g[n]
        BY <1>3, <1>5, <2>2, <4>1, <4>2
      <4> QED
        BY <4>1, <4>3
    <3> QED
      BY <3>1, <3>2
  <2> HIDE DEF T
  <2>5. m \in T
    <3>1. m \in 0 .. m
      OBVIOUS
    <3> QED
      BY <2>3, <2>4, <3>1, UpFromZero
  <2>6. f[m] = g[m]
    BY <1>7, <2>5 DEF T
  <2>7. PICK k \in 2 .. m + 1 : k = m + 1 /\ k - 1 = m
    <3>1. m + 1 \in 2 .. m + 1 /\ m + 1 - 1 = m
      BY <1>7
    <3> QED
      BY <3>1
  <2>8. g[k] = g[m] \o x
    BY <1>3, <1>5, <2>7
  <2> QED
    BY <1>1, <1>2, <1>3, <1>4, <2>1, <2>6, <2>7, <2>8
<1> QED
  BY <1>6, <1>7

\* Nothing but an empty AT line is left out.
LEMMA PacketsAndRest ==
    ASSUME NEW p, p.type # "AT", NEW bytes \in Bytes
    PROVE  FlattenSeq(Split(p, bytes).packets) \o Split(p, bytes).buffer = bytes
<1> DEFINE T == {a \in Bytes : /\ FlattenSeq(Split(p, a).packets) \in Bytes
                               /\ FlattenSeq(Split(p, a).packets) \o Split(p, a).buffer = a}
<1>1. <<>> \in T
  <2>1. Split(p, <<>>).packets = <<>> /\ Split(p, <<>>).buffer = <<>>
    BY SplitNothing DEF Nothing
  <2>2. <<>> \in Bytes /\ <<>> \o <<>> = <<>>
    BY EmptySeq, ConcatEmptySeq DEF Bytes
  <2> QED
    BY <2>1, <2>2, FlatNothing
<1>2. ASSUME NEW a \in Bytes, NEW b \in Nat, a \in T PROVE Append(a, b) \in T
  <2>1. PICK s \in Parsed : s = Split(p, a)
    BY SplitTyped
  <2>2. PICK r : r = Taken(p, s, b)
    OBVIOUS
  <2>3. Split(p, Append(a, b)) = r
    BY <2>1, <2>2, SplitAppend
  <2>4. s.packets \in Seq(Bytes) /\ s.buffer \in Bytes
    BY DEF Parsed
  <2>5. PICK u \in Bytes : u = FlattenSeq(s.packets) /\ u \o s.buffer = a
    BY <1>2, <2>1
  <2>6. PICK part \in Bytes : part = Append(s.buffer, b)
    BY <2>4, AppendProperties DEF Bytes
  <2>7. u \o part = Append(a, b)
    BY <2>4, <2>5, <2>6, BytesAppend
  <2>8. FlattenSeq(r.packets) \in Bytes /\ FlattenSeq(r.packets) \o r.buffer = Append(a, b)
    <3>1. CASE ~IsWhole(p, part)
      <4>1. r.buffer = part /\ r.packets = s.packets
        BY <2>2, <2>6, <3>1 DEF Taken
      <4> QED
        BY <2>5, <2>7, <4>1
    <3>2. CASE IsWhole(p, part)
      <4>1. r.buffer = <<>> /\ r.packets = Append(s.packets, part)
        BY <2>2, <2>6, <3>2 DEF Taken
      <4>2. FlattenSeq(r.packets) = u \o part
        BY <2>4, <2>5, <4>1, FlatAppend
      <4>3. u \o part \in Bytes /\ (u \o part) \o <<>> = u \o part
        BY ConcatProperties, ConcatEmptySeq DEF Bytes
      <4> QED
        BY <2>7, <4>1, <4>2, <4>3
    <3> QED
      BY <3>1, <3>2
  <2>9. Append(a, b) \in Bytes
    BY AppendProperties DEF Bytes
  <2> QED
    BY <2>3, <2>8, <2>9
<1> HIDE DEF T
<1>3. bytes \in T
  BY <1>1, <1>2, BytesUp
<1> QED
  BY <1>3 DEF T

\* t is the end of s.
EndOf(t, s) == \E u \in Bytes : s = u \o t

LEMMA RestIsEnd ==
    ASSUME NEW p, NEW bytes \in Bytes
    PROVE  EndOf(Split(p, bytes).buffer, bytes)
<1> DEFINE T == {a \in Bytes : EndOf(Split(p, a).buffer, a)}
<1>1. <<>> \in T
  <2>1. Split(p, <<>>).buffer = <<>>
    BY SplitNothing DEF Nothing
  <2>2. <<>> \in Bytes /\ <<>> = <<>> \o <<>>
    BY EmptySeq, ConcatEmptySeq DEF Bytes
  <2> QED
    BY <2>1, <2>2 DEF EndOf
<1>2. ASSUME NEW a \in Bytes, NEW b \in Nat, a \in T PROVE Append(a, b) \in T
  <2>1. PICK s \in Parsed : s = Split(p, a)
    BY SplitTyped
  <2>2. PICK r : r = Taken(p, s, b)
    OBVIOUS
  <2>3. Split(p, Append(a, b)) = r
    BY <2>1, <2>2, SplitAppend
  <2>4. s.buffer \in Bytes
    BY DEF Parsed
  <2>5. PICK u \in Bytes : a = u \o s.buffer
    BY <1>2, <2>1 DEF EndOf
  <2>6. Append(a, b) \in Bytes
    BY AppendProperties DEF Bytes
  <2>7. EndOf(r.buffer, Append(a, b))
    <3>1. CASE ~IsWhole(p, Append(s.buffer, b))
      <4>1. r.buffer = Append(s.buffer, b)
        BY <2>2, <3>1 DEF Taken
      <4>2. Append(a, b) = u \o Append(s.buffer, b)
        BY <2>4, <2>5, BytesAppend
      <4> QED
        BY <4>1, <4>2 DEF EndOf
    <3>2. CASE IsWhole(p, Append(s.buffer, b))
      <4>1. r.buffer = <<>>
        BY <2>2, <3>2 DEF Taken
      <4>2. Append(a, b) = Append(a, b) \o <<>>
        BY <2>6, ConcatEmptySeq DEF Bytes
      <4> QED
        BY <2>6, <4>1, <4>2 DEF EndOf
    <3> QED
      BY <3>1, <3>2
  <2> QED
    BY <2>3, <2>6, <2>7
<1> HIDE DEF T
<1>3. bytes \in T
  BY <1>1, <1>2, BytesUp
<1> QED
  BY <1>3 DEF T

LEMMA SubBytes ==
    ASSUME NEW s \in Bytes, NEW a \in 1 .. Len(s) + 1, NEW b \in a - 1 .. Len(s)
    PROVE  SubSeq(s, a, b) \in Bytes /\ Len(SubSeq(s, a, b)) = b - a + 1
  BY CutIs DEF Bytes

LEMMA JoinedBytes ==
    ASSUME NEW s \in Bytes, NEW t \in Bytes
    PROVE  /\ s \o t \in Bytes /\ Len(s) \in Nat /\ Len(t) \in Nat /\ Len(s \o t) = Len(s) + Len(t)
  BY JoinIs DEF Bytes

\* Two pieces that follow each other.
LEMMA TwoPieces ==
    ASSUME NEW s \in Bytes, NEW k \in 0 .. Len(s)
    PROVE  SubSeq(s, 1, k) \o SubSeq(s, k + 1, Len(s)) = s
<1>1. Len(s) \in Nat /\ 1 \in 1 .. Len(s) + 1 /\ k \in 1 - 1 .. Len(s) /\ Len(s) \in k .. Len(s)
  BY LenProperties DEF Bytes
<1>2. SubSeq(s, 1, k) \o SubSeq(s, k + 1, Len(s)) = SubSeq(s, 1, Len(s))
  BY <1>1, ConcatAdjacentSubSeq DEF Bytes
<1> QED
  BY <1>2, SubSeqFull DEF Bytes

LEMMA EndingIsEnd ==
    ASSUME NEW s \in Bytes, NEW n \in Nat
    PROVE  /\ Ending(s, n) \in Bytes /\ EndOf(Ending(s, n), s) /\ Len(Ending(s, n)) <= n
           /\ Len(s) <= n => Ending(s, n) = s
<1>1. Len(s) \in Nat
  BY LenProperties, Zenon DEF Bytes
<1>2. CASE Len(s) > n
  <2>1. PICK k \in 0 .. Len(s) : k = Len(s) - n
    BY <1>1, <1>2
  <2>2. k + 1 = Len(s) - n + 1
    BY <1>1, <2>1
  <2>3. Ending(s, n) = SubSeq(s, k + 1, Len(s))
    BY <1>2, <2>2 DEF Ending
  <2>4. SubSeq(s, 1, k) \in Bytes
    BY <1>1, SubBytes
  <2>5. SubSeq(s, k + 1, Len(s)) \in Bytes /\ Len(SubSeq(s, k + 1, Len(s))) = n
    <3>0. k + 1 \in 1 .. Len(s) + 1
      BY <1>1
    <3>1. PICK l \in 1 .. Len(s) + 1 : l = k + 1
      BY <3>0
    <3>3. Len(s) \in l - 1 .. Len(s) /\ Len(s) - l + 1 = n
      BY <1>1, <2>1, <3>1
    <3>2. SubSeq(s, l, Len(s)) \in Bytes /\ Len(SubSeq(s, l, Len(s))) = Len(s) - l + 1
      BY <3>3, SubBytes
    <3> QED
      BY <3>1, <3>2, <3>3
  <2>6. s = SubSeq(s, 1, k) \o SubSeq(s, k + 1, Len(s))
    BY TwoPieces
  <2>7. EndOf(Ending(s, n), s)
    BY <2>3, <2>4, <2>6, Zenon DEF EndOf
  <2>8. Ending(s, n) \in Bytes /\ Len(Ending(s, n)) = n
    BY <2>3, <2>5
  <2> QED
    BY <1>1, <1>2, <2>7, <2>8
<1>3. CASE ~(Len(s) > n)
  <2>1. Ending(s, n) = s
    BY <1>3 DEF Ending
  <2>2. <<>> \in Bytes /\ s = <<>> \o s
    BY EmptySeq, ConcatEmptySeq DEF Bytes
  <2>3. EndOf(s, s)
    BY <2>2, Zenon DEF EndOf
  <2> QED
    BY <1>1, <1>3, <2>1, <2>3
<1> QED
  BY <1>2, <1>3

LEMMA EndOfEnd ==
    ASSUME NEW a \in Bytes, NEW b, NEW c, EndOf(a, b), EndOf(b, c)
    PROVE  EndOf(a, c)
<1>1. PICK u \in Bytes : b = u \o a
  BY Zenon DEF EndOf
<1>2. PICK v \in Bytes : c = v \o b
  BY Zenon DEF EndOf
<1>3. (v \o u) \o a = v \o (u \o a)
  BY ConcatAssociative DEF Bytes
<1>4. PICK w \in Bytes : w = v \o u
  BY JoinedBytes
<1>5. c = w \o a
  BY <1>1, <1>2, <1>3, <1>4
<1> QED
  BY <1>5 DEF EndOf

LEMMA EndJoined ==
    ASSUME NEW a \in Bytes, NEW b, NEW c \in Bytes, EndOf(a, b)
    PROVE  EndOf(a \o c, b \o c)
<1>1. PICK u \in Bytes : b = u \o a
  BY Zenon DEF EndOf
<1>2. b \o c = u \o (a \o c)
  BY <1>1, ConcatAssociative DEF Bytes
<1> QED
  BY <1>1, <1>2 DEF EndOf

LEMMA EndIsShorter ==
    ASSUME NEW a \in Bytes, NEW b, EndOf(a, b)
    PROVE  Len(a) <= Len(b)
<1>1. PICK u \in Bytes : b = u \o a
  BY DEF EndOf
<1> QED
  BY <1>1, JoinedBytes

LEMMA EndIsSuffix ==
    ASSUME NEW t \in Bytes, NEW s \in Bytes, EndOf(t, s)
    PROVE  IsSuffix(t, s)
<1>1. PICK u \in Bytes : s = u \o t
  BY DEF EndOf
<1>2. PICK m \in Nat, n \in Nat : m = Len(t) /\ n = Len(u) /\ Len(s) = n + m
  BY <1>1, JoinedBytes
<1>3. \A i \in 1 .. n + m : s[i] = IF i <= n THEN u[i] ELSE t[i - n]
  BY <1>1, <1>2, ConcatProperties DEF Bytes
<1>4. PICK a : a = Reverse(t)
  OBVIOUS
<1>5. PICK b : b = Reverse(s)
  OBVIOUS
<1>6. a = [i \in 1 .. m |-> t[m - i + 1]] /\ b = [i \in 1 .. n + m |-> s[n + m - i + 1]]
  BY <1>2, <1>4, <1>5 DEF Reverse
<1>7. \A i \in 1 .. m : t[i] \in Nat
  BY <1>2, ElementOfSeq DEF Bytes
<1>8. \A i \in 1 .. n + m : s[i] \in Nat
  BY <1>2, ElementOfSeq DEF Bytes
<1>9. \A i \in 1 .. m : m - i + 1 \in 1 .. m
  OBVIOUS
<1>10. \A i \in 1 .. n + m : n + m - i + 1 \in 1 .. n + m
  OBVIOUS
<1>11. a \in [1 .. m -> Nat]
  BY <1>6, <1>7, <1>9
<1>12. b \in [1 .. n + m -> Nat]
  BY <1>6, <1>8, <1>10
<1>13. a \in Seq(Nat) /\ Len(a) = m
  BY <1>11
<1>14. b \in Seq(Nat) /\ Len(b) = n + m
  BY <1>12
<1>15. ASSUME NEW i \in 1 .. m PROVE a[i] = b[i]
  <2>1. i \in 1 .. n + m /\ n + m - i + 1 \in 1 .. n + m /\ ~(n + m - i + 1 <= n) /\ n + m - i + 1 - n = m - i + 1
    OBVIOUS
  <2>2. PICK j \in 1 .. n + m : j = n + m - i + 1
    BY <2>1
  <2>3. s[j] = t[j - n]
    BY <1>3, <2>1, <2>2
  <2> QED
    BY <1>6, <2>1, <2>2, <2>3
<1>16. SubSeq(a, 1, m) = SubSeq(b, 1, m)
  <2>1. SubSeq(a, 1, m) = [i \in 1 .. m |-> a[i]]
    BY <1>13
  <2>2. SubSeq(b, 1, m) = [i \in 1 .. m |-> b[i]]
    BY <1>14
  <2> QED
    BY <1>15, <2>1, <2>2
<1>17. m <= n + m
  OBVIOUS
<1>18. IsPrefix(a, b)
  BY <1>13, <1>14, <1>16, <1>17 DEF IsPrefix
<1> QED
  BY <1>4, <1>5, <1>18 DEF IsSuffix

LEMMA ParseIs ==
    ASSUME NEW p \in Parsers, NEW buffer \in Bytes, NEW chunk \in Bytes
    PROVE  \E j \in Bytes : /\ Parse(p, buffer, chunk) = Split(p, j)
                            /\ EndOf(j, buffer \o chunk) /\ Len(j) <= MaxBuffer
                            /\ Len(buffer \o chunk) <= MaxBuffer => j = buffer \o chunk
<1>1. p.type \in {"AT", "Delimiter", "FixedLength"}
  BY DEF Parsers
<1>2. PICK all \in Bytes : all = buffer \o chunk
  BY JoinedBytes
<1>3. MaxBuffer \in Nat
  BY ParsingAssumption
<1>4. Parse(p, buffer, chunk) = Split(p, Ending(all, MaxBuffer))
  BY <1>1, <1>2 DEF Parse, Joined
<1> QED
  BY <1>2, <1>3, <1>4, EndingIsEnd

\* A parser fed with s so far: what it keeps is the end of s, and short.
FedWith(x, s) == x \in Parsed /\ EndOf(x.buffer, s) /\ Len(x.buffer) <= MaxBuffer

LEMMA FedOneIs ==
    ASSUME NEW p \in Parsers, NEW s \in Bytes, NEW x, FedWith(x, s), NEW chunk \in Bytes
    PROVE  FedWith(FedOne(p, x, chunk), s \o chunk)
<1>1. x.buffer \in Bytes /\ x.packets \in Seq(Bytes) /\ EndOf(x.buffer, s)
  BY DEF FedWith, Parsed
<1>2. PICK j \in Bytes : /\ Parse(p, x.buffer, chunk) = Split(p, j)
                         /\ EndOf(j, x.buffer \o chunk) /\ Len(j) <= MaxBuffer
  BY <1>1, ParseIs
<1>3. PICK t \in Parsed : t = Split(p, j)
  BY SplitTyped
<1>4. t.buffer \in Bytes /\ t.packets \in Seq(Bytes)
  BY DEF Parsed
<1>5. PICK r : r = FedOne(p, x, chunk)
  OBVIOUS
<1>6. r = [packets |-> x.packets \o t.packets, buffer |-> t.buffer]
  BY <1>2, <1>3, <1>5 DEF FedOne
<1>7. x.packets \o t.packets \in Seq(Bytes)
  BY <1>1, <1>4, ConcatProperties
<1>8. r \in Parsed /\ r.buffer = t.buffer
  BY <1>4, <1>6, <1>7 DEF Parsed
<1>9. EndOf(t.buffer, j)
  BY <1>3, RestIsEnd
<1>10. Len(t.buffer) <= MaxBuffer
  <2>1. Len(t.buffer) <= Len(j)
    BY <1>4, <1>9, EndIsShorter
  <2>2. Len(t.buffer) \in Nat /\ Len(j) \in Nat /\ MaxBuffer \in Nat
    BY <1>4, LenProperties, ParsingAssumption DEF Bytes
  <2> QED
    BY <1>2, <2>1, <2>2
<1>11. EndOf(t.buffer, s \o chunk)
  <2>1. EndOf(x.buffer \o chunk, s \o chunk)
    BY <1>1, EndJoined
  <2>2. EndOf(j, s \o chunk)
    BY <1>2, <2>1, EndOfEnd
  <2> QED
    BY <1>4, <1>9, <2>2, EndOfEnd
<1> QED
  BY <1>5, <1>8, <1>10, <1>11 DEF FedWith

\* While the whole stream fits, what was fed is what the stream splits into.
LEMMA FedOneSplits ==
    ASSUME NEW p \in Parsers, NEW s \in Bytes, NEW chunk \in Bytes, Len(s \o chunk) <= MaxBuffer
    PROVE  FedOne(p, Split(p, s), chunk) = Split(p, s \o chunk)
<1>1. PICK x \in Parsed : x = Split(p, s)
  BY SplitTyped
<1>2. x.buffer \in Bytes /\ x.packets \in Seq(Bytes)
  BY DEF Parsed
<1>3. EndOf(x.buffer, s)
  BY <1>1, RestIsEnd
<1>4. Len(x.buffer \o chunk) <= MaxBuffer
  <2>1. EndOf(x.buffer \o chunk, s \o chunk)
    BY <1>2, <1>3, EndJoined
  <2>2. x.buffer \o chunk \in Bytes /\ Len(x.buffer \o chunk) \in Nat
    BY <1>2, JoinedBytes
  <2>3. Len(x.buffer \o chunk) <= Len(s \o chunk)
    BY <2>1, <2>2, EndIsShorter
  <2>4. Len(s \o chunk) \in Nat /\ MaxBuffer \in Nat
    BY JoinedBytes, ParsingAssumption
  <2> QED
    BY <2>2, <2>3, <2>4
<1>5. Parse(p, x.buffer, chunk) = Split(p, x.buffer \o chunk)
  <2>1. PICK b \in Bytes : b = x.buffer
    BY <1>2
  <2>2. PICK j \in Bytes : /\ Parse(p, b, chunk) = Split(p, j)
                           /\ Len(b \o chunk) <= MaxBuffer => j = b \o chunk
    BY ParseIs
  <2> QED
    BY <1>4, <2>1, <2>2
<1>6. FedOne(p, x, chunk) = Behind(x.packets, Split(p, x.buffer \o chunk))
  BY <1>5 DEF FedOne, Behind
<1>7. Split(p, s \o chunk) = Behind(x.packets, Split(p, x.buffer \o chunk))
  BY <1>1, SplitJoined
<1> QED
  BY <1>1, <1>6, <1>7

FedAfter(p, chunks, f) ==
    f[0] = Nothing /\ \A i \in 1 .. Len(chunks) : f[i] = FedOne(p, f[i - 1], chunks[i])

LEMMA FedTyped ==
    ASSUME NEW p \in Parsers, NEW x \in Parsed, NEW chunk \in Bytes
    PROVE  FedOne(p, x, chunk) \in Parsed
<1>1. x.buffer \in Bytes /\ x.packets \in Seq(Bytes)
  BY DEF Parsed
<1>2. PICK j \in Bytes : Parse(p, x.buffer, chunk) = Split(p, j)
  BY <1>1, ParseIs
<1>3. PICK t \in Parsed : t = Split(p, j)
  BY SplitTyped
<1>4. t.buffer \in Bytes /\ t.packets \in Seq(Bytes)
  BY DEF Parsed
<1>5. FedOne(p, x, chunk) = [packets |-> x.packets \o t.packets, buffer |-> t.buffer]
  BY <1>2, <1>3 DEF FedOne
<1>6. x.packets \o t.packets \in Seq(Bytes)
  BY <1>1, <1>4, ConcatProperties
<1> QED
  BY <1>4, <1>5, <1>6 DEF Parsed

LEMMA FedRuns ==
    ASSUME NEW p \in Parsers, NEW chunks \in Seq(Bytes)
    PROVE  \E f : FedAfter(p, chunks, f) /\ Fed(p, chunks) = f[Len(chunks)]
<1>1. PICK m \in Nat : m = Len(chunks)
  BY LenProperties, Zenon
<1>2. PICK Q : Q = [n \in 0 .. m |-> Parsed]
  OBVIOUS
<1>3. PICK G : G = [n \in 1 .. m |-> [s \in Parsed |-> FedOne(p, s, chunks[n])]]
  OBVIOUS
<1>4. \A n \in 1 .. m : \A s \in Parsed : G[n][s] = FedOne(p, s, chunks[n])
  BY <1>3
<1>5. \A n \in 0 .. m : Q[n] = Parsed
  BY <1>2
<1>6. \A n \in 1 .. m : chunks[n] \in Bytes
  BY <1>1, ElementOfSeq
<1>7. \A n \in 1 .. m : n \in 0 .. m /\ n - 1 \in 0 .. m
  OBVIOUS
<1>8. Leads(m, Q, Nothing, G)
  <2>1. ASSUME NEW n \in 1 .. m, NEW s \in Q[n - 1] PROVE G[n][s] \in Q[n]
    BY <1>4, <1>5, <1>6, <1>7, FedTyped
  <2>2. Nothing \in Q[0]
    BY <1>5, NothingTyped
  <2> QED
    BY <2>1, <2>2 DEF Leads
<1>9. PICK f : /\ f = [n \in 0 .. m |-> IF n = 0 THEN Nothing ELSE G[n][f[n - 1]]]
               /\ \A n \in 0 .. m : f[n] \in Q[n]
  <2>1. PICK h : Iterated(m, Q, Nothing, G, h)
    BY <1>8, Iterates, Zenon
  <2> QED
    BY <2>1, Zenon DEF Iterated
<1>10. ASSUME NEW n \in 0 .. m
       PROVE  f[n] = IF n = 0 THEN Nothing ELSE FedOne(p, f[n - 1], chunks[n])
  <2>1. CASE n = 0
    BY <1>9, <2>1
  <2>2. CASE n # 0
    <3>1. n \in 1 .. m /\ n - 1 \in 0 .. m
      BY <2>2
    <3>2. f[n - 1] \in Parsed
      BY <1>5, <1>9, <3>1
    <3>3. f[n] = G[n][f[n - 1]]
      BY <1>9, <2>2
    <3> QED
      BY <1>4, <2>2, <3>1, <3>2, <3>3
  <2> QED
    BY <2>1, <2>2
<1>11. f = [n \in 0 .. m |-> IF n = 0 THEN Nothing ELSE FedOne(p, f[n - 1], chunks[n])]
  <2>1. f = [n \in 0 .. m |-> f[n]]
    BY <1>9
  <2> QED
    BY <1>10, <2>1, Zenon
<1>12. PICK h : /\ h = [n \in 0 .. m |-> IF n = 0 THEN Nothing ELSE FedOne(p, h[n - 1], chunks[n])]
                /\ Fed(p, chunks) = h[m]
  BY <1>1, <1>11, Zenon DEF Fed
<1>13. h[0] = Nothing /\ \A n \in 1 .. m : h[n] = FedOne(p, h[n - 1], chunks[n])
  BY <1>12
<1> QED
  BY <1>1, <1>12, <1>13 DEF FedAfter

LEMMA FedOnce ==
    ASSUME NEW p \in Parsers, NEW a \in Bytes
    PROVE  Fed(p, <<a>>) = FedOne(p, Nothing, a)
<1>1. PICK c \in Seq(Bytes) : c = <<a>> /\ Len(c) = 1 /\ c[1] = a
  <2>1. <<a>> \in Seq(Bytes)
    OBVIOUS
  <2> QED
    BY <2>1
<1>2. PICK f : FedAfter(p, c, f) /\ Fed(p, c) = f[Len(c)]
  BY FedRuns
<1>3. f[0] = Nothing /\ f[1] = FedOne(p, f[0], a)
  BY <1>1, <1>2 DEF FedAfter
<1> QED
  BY <1>1, <1>2, <1>3

LEMMA FedThrice ==
    ASSUME NEW p \in Parsers, NEW a \in Bytes, NEW b \in Bytes, NEW c \in Bytes
    PROVE  Fed(p, <<a, b, c>>) = FedOne(p, FedOne(p, FedOne(p, Nothing, a), b), c)
<1>1. PICK d \in Seq(Bytes) : d = <<a, b, c>> /\ Len(d) = 3 /\ d[1] = a /\ d[2] = b /\ d[3] = c
  <2>1. <<a, b, c>> \in Seq(Bytes)
    OBVIOUS
  <2> QED
    BY <2>1
<1>2. PICK f : FedAfter(p, d, f) /\ Fed(p, d) = f[Len(d)]
  BY FedRuns
<1>3. /\ f[0] = Nothing /\ f[1] = FedOne(p, f[0], a)
      /\ f[2] = FedOne(p, f[1], b) /\ f[3] = FedOne(p, f[2], c)
  BY <1>1, <1>2 DEF FedAfter
<1> QED
  BY <1>1, <1>2, <1>3

LEMMA CutInThree ==
    ASSUME NEW s \in Bytes, NEW c \in Chunkings(s)
    PROVE  \E x, y, z \in Bytes : /\ c = <<x, y, z>> /\ (x \o y) \o z = s
                                  /\ Len(x) <= Len(s) /\ Len(x \o y) <= Len(s)
<1>1. PICK n \in Nat : n = Len(s)
  BY LenProperties, Zenon DEF Bytes
<1>2. PICK k \in 0 .. n, l \in 0 .. n :
         k <= l /\ c = <<SubSeq(s, 1, k), SubSeq(s, k + 1, l), SubSeq(s, l + 1, n)>>
  BY <1>1 DEF Chunkings
<1>3. PICK y1 \in Bytes : y1 = SubSeq(s, 1, l) /\ Len(y1) = l
  <2>1. 1 \in 1 .. n + 1 /\ l \in 1 - 1 .. n /\ l - 1 + 1 = l
    BY <1>1
  <2>2. SubSeq(s, 1, l) \in Bytes /\ Len(SubSeq(s, 1, l)) = l - 1 + 1
    BY <1>1, <2>1, SubBytes
  <2> QED
    BY <2>1, <2>2
<1>4. PICK z \in Bytes : z = SubSeq(s, l + 1, n)
  <2>1. PICK j \in 1 .. n + 1 : j = l + 1 /\ n \in j - 1 .. n
    BY <1>1
  <2> QED
    BY <1>1, <2>1, SubBytes
<1>5. PICK x \in Bytes : x = SubSeq(s, 1, k)
  <2>1. 1 \in 1 .. n + 1 /\ k \in 1 - 1 .. n
    BY <1>1
  <2> QED
    BY <1>1, <2>1, SubBytes
<1>6. PICK y \in Bytes : y = SubSeq(s, k + 1, l)
  <2>1. PICK j \in 1 .. n + 1 : j = k + 1 /\ l \in j - 1 .. n
    BY <1>1, <1>2
  <2> QED
    BY <1>1, <2>1, SubBytes
<1>7. y1 \o z = s
  BY <1>1, <1>3, <1>4, TwoPieces
<1>8. x \o y = y1
  <2>1. 1 \in 1 .. n + 1 /\ k \in 1 - 1 .. n /\ l \in k .. n
    BY <1>1, <1>2
  <2>2. SubSeq(s, 1, k) \o SubSeq(s, k + 1, l) = SubSeq(s, 1, l)
    BY <1>1, <2>1, ConcatAdjacentSubSeq DEF Bytes
  <2> QED
    BY <1>3, <1>5, <1>6, <2>2
<1>9. Len(x) <= n /\ Len(x \o y) <= n
  <2>1. Len(x \o y) = Len(x) + Len(y) /\ Len(x) \in Nat /\ Len(y) \in Nat
    BY JoinedBytes
  <2> QED
    BY <1>1, <1>3, <1>8, <2>1
<1> QED
  BY <1>1, <1>2, <1>4, <1>5, <1>6, <1>7, <1>8, <1>9

LEMMA ParsersKeep == ParsersKeepStream
<1> SUFFICES ASSUME NEW s \in Stream, NEW p \in Parsers, NEW chunks \in Chunkings(s),
                    NEW r, r = Fed(p, chunks)
             PROVE  /\ IsSuffix(r.buffer, s) /\ Len(r.buffer) <= MaxBuffer
                    /\ Len(s) <= MaxBuffer =>
                          /\ r = Fed(p, <<s>>)
                          /\ p.type # "AT" => FlattenSeq(r.packets) \o r.buffer = s
  BY DEF ParsersKeepStream
<1>1. s \in Bytes
  BY ParsingAssumption DEF Bytes
<1>2. PICK a \in Bytes, b \in Bytes, c \in Bytes :
         /\ chunks = <<a, b, c>> /\ (a \o b) \o c = s
         /\ Len(a) <= Len(s) /\ Len(a \o b) <= Len(s)
  BY <1>1, CutInThree
<1>3. PICK r1 : r1 = FedOne(p, Nothing, a)
  OBVIOUS
<1>4. PICK r2 : r2 = FedOne(p, r1, b)
  OBVIOUS
<1>5. r = FedOne(p, r2, c)
  BY <1>2, <1>3, <1>4, FedThrice
<1>6. <<>> \in Bytes /\ Len(<<>>) = 0 /\ <<>> \o a = a /\ <<>> \o s = s /\ a \o b \in Bytes
  BY <1>1, EmptySeq, ConcatEmptySeq, ConcatProperties DEF Bytes
<1>7. MaxBuffer \in Nat
  BY ParsingAssumption
<1>8. FedWith(r, s)
  <2>1. FedWith(Nothing, <<>>)
    <3>1. Nothing.buffer = <<>> /\ <<>> = <<>> \o <<>>
      BY <1>6, ConcatEmptySeq DEF Nothing, Bytes
    <3>2. EndOf(Nothing.buffer, <<>>)
      BY <1>6, <3>1 DEF EndOf
    <3> QED
      BY <1>6, <1>7, <3>1, <3>2, NothingTyped DEF FedWith
  <2>2. FedWith(r1, a)
    BY <1>3, <1>6, <2>1, FedOneIs
  <2>3. FedWith(r2, a \o b)
    BY <1>4, <2>2, FedOneIs
  <2> QED
    BY <1>2, <1>5, <1>6, <2>3, FedOneIs
<1>9. ASSUME Len(s) <= MaxBuffer
      PROVE  /\ r = Fed(p, <<s>>)
             /\ p.type # "AT" => FlattenSeq(r.packets) \o r.buffer = s
  <2>1. Len(a) <= MaxBuffer /\ Len(a \o b) <= MaxBuffer
    <3>1. Len(a) \in Nat /\ Len(a \o b) \in Nat /\ Len(s) \in Nat
      BY <1>1, <1>6, LenProperties DEF Bytes
    <3> QED
      BY <1>2, <1>7, <1>9, <3>1
  <2>2. Nothing = Split(p, <<>>)
    BY SplitNothing
  <2>3. r1 = Split(p, a)
    <3>1. Len(<<>> \o a) <= MaxBuffer
      BY <1>6, <2>1
    <3>2. FedOne(p, Split(p, <<>>), a) = Split(p, <<>> \o a)
      BY <1>6, <3>1, FedOneSplits
    <3> QED
      BY <1>3, <1>6, <2>2, <3>2
  <2>4. r2 = Split(p, a \o b)
    BY <1>4, <2>1, <2>3, FedOneSplits
  <2>5. r = Split(p, s)
    BY <1>2, <1>5, <1>6, <1>9, <2>4, FedOneSplits
  <2>6. Fed(p, <<s>>) = Split(p, s)
    <3>1. Len(<<>> \o s) <= MaxBuffer
      BY <1>6, <1>9
    <3>2. FedOne(p, Split(p, <<>>), s) = Split(p, <<>> \o s)
      BY <1>1, <1>6, <3>1, FedOneSplits
    <3> QED
      BY <1>1, <1>6, <2>2, <3>2, FedOnce
  <2> QED
    BY <1>1, <2>5, <2>6, PacketsAndRest
<1>10. IsSuffix(r.buffer, s) /\ Len(r.buffer) <= MaxBuffer
  BY <1>1, <1>8, EndIsSuffix DEF FedWith, Parsed
<1> QED
  BY <1>9, <1>10

-----------------------------------------------------------------------------
(* The matcher *)

LEMMA MatchKeeps ==
    ASSUME NEW a \in Bytes, NEW c \in Bytes, Len(a \o c) <= MaxBuffer
    PROVE  Match(a, c, CRLF).buffer = a \o c
<1>1. a \o c \in Bytes /\ MaxBuffer \in Nat
  BY JoinedBytes, ParsingAssumption
<1> QED
  BY <1>1, EndingIsEnd DEF Match, Joined

LEMMA FoundIs ==
    ASSUME NEW s \in Bytes
    PROVE  (\E i \in 0 .. Len(s) : IsPrefix(CRLF, SubSeq(s, i + 1, Len(s))))
              = (\E i \in 1 .. (Len(s) - 1) : SubSeq(s, i, i + 1) = CRLF)
<1>1. PICK n \in Nat : n = Len(s)
  BY LenProperties, Zenon DEF Bytes
<1>2. Len(CRLF) = 2 /\ SubSeq(CRLF, 1, 2) = CRLF
  <2>1. CRLF \in Seq(Nat) /\ Len(CRLF) = 2
    BY DEF CRLF, CR, LF
  <2> QED
    BY <2>1, SubSeqFull
<1>3. ASSUME NEW i \in 0 .. n, IsPrefix(CRLF, SubSeq(s, i + 1, n))
      PROVE  i + 1 \in 1 .. n - 1 /\ SubSeq(s, i + 1, i + 2) = CRLF
  <2>1. PICK l \in 1 .. n + 1 : l = i + 1 /\ n \in l - 1 .. n
    BY <1>1
  <2>2. PICK t \in Bytes : t = SubSeq(s, l, n) /\ Len(t) = n - l + 1
    BY <1>1, <2>1, SubBytes
  <2>3. 2 <= Len(t) /\ CRLF = SubSeq(t, 1, 2)
    BY <1>2, <1>3, <2>1, <2>2 DEF IsPrefix
  <2>4. i + 1 \in 1 .. n - 1
    BY <1>1, <2>1, <2>2, <2>3
  <2>5. SubSeq(t, 1, 2) = SubSeq(s, i + 1, i + 2)
    <3>1. \A j \in 1 .. n - l + 1 : t[j] = s[l + j - 1]
      BY <1>1, <2>1, <2>2, CutIs DEF Bytes
    <3>2. SubSeq(t, 1, 2) = [j \in 1 .. 2 |-> t[j]]
      BY <2>3 DEF Bytes
    <3>3. SubSeq(s, i + 1, i + 2) = [j \in 1 .. 2 |-> s[i + 1 + j - 1]]
      BY <1>1, <2>4 DEF Bytes
    <3>4. \A j \in 1 .. 2 : t[j] = s[i + 1 + j - 1]
      BY <2>1, <2>2, <2>3, <3>1
    <3> QED
      BY <3>2, <3>3, <3>4
  <2> QED
    BY <2>3, <2>4, <2>5
<1>4. ASSUME NEW i \in 1 .. n - 1, SubSeq(s, i, i + 1) = CRLF
      PROVE  \E k \in 0 .. n : IsPrefix(CRLF, SubSeq(s, k + 1, n))
  <2>1. i \in 1 .. n + 1 /\ n \in i - 1 .. n
    BY <1>1
  <2>2. PICK t \in Bytes : t = SubSeq(s, i, n) /\ Len(t) = n - i + 1
    BY <1>1, <2>1, SubBytes
  <2>3. SubSeq(t, 1, 2) = SubSeq(s, i, i + 1)
    <3>1. \A j \in 1 .. n - i + 1 : t[j] = s[i + j - 1]
      BY <1>1, <2>1, <2>2, CutIs DEF Bytes
    <3>2. 2 <= Len(t)
      BY <1>1, <2>2
    <3>3. SubSeq(t, 1, 2) = [j \in 1 .. 2 |-> t[j]]
      BY <3>2 DEF Bytes
    <3>4. SubSeq(s, i, i + 1) = [j \in 1 .. 2 |-> s[i + j - 1]]
      BY <1>1 DEF Bytes
    <3>5. \A j \in 1 .. 2 : t[j] = s[i + j - 1]
      BY <2>2, <3>1, <3>2
    <3> QED
      BY <3>3, <3>4, <3>5
  <2>4. IsPrefix(CRLF, t)
    <3>1. 2 <= Len(t)
      BY <1>1, <2>2
    <3>2. PICK e : e = CRLF
      OBVIOUS
    <3>3. Len(e) = 2 /\ SubSeq(e, 1, 2) = SubSeq(t, 1, 2)
      BY <1>2, <1>4, <2>3, <3>2
    <3>4. IsPrefix(e, t)
      BY <3>1, <3>3 DEF IsPrefix
    <3> QED
      BY <3>2, <3>4
  <2>5. PICK k \in 0 .. n : k + 1 = i
    <3>1. i - 1 \in 0 .. n /\ i - 1 + 1 = i
      BY <1>1
    <3> QED
      BY <3>1
  <2> QED
    BY <2>2, <2>4, <2>5
<1>5. (\E i \in 0 .. n : IsPrefix(CRLF, SubSeq(s, i + 1, n))) => \E i \in 1 .. n - 1 : SubSeq(s, i, i + 1) = CRLF
  <2> SUFFICES ASSUME NEW i \in 0 .. n, IsPrefix(CRLF, SubSeq(s, i + 1, n))
               PROVE  \E j \in 1 .. n - 1 : SubSeq(s, j, j + 1) = CRLF
    OBVIOUS
  <2>1. PICK j \in 1 .. n - 1 : j = i + 1 /\ j + 1 = i + 2
    BY <1>3
  <2>2. SubSeq(s, j, j + 1) = CRLF
    BY <1>3, <2>1
  <2> QED
    BY <2>2
<1>6. (\E i \in 0 .. n : IsPrefix(CRLF, SubSeq(s, i + 1, n))) <=> \E i \in 1 .. n - 1 : SubSeq(s, i, i + 1) = CRLF
  BY <1>4, <1>5
<1>7. (\E i \in 0 .. n : IsPrefix(CRLF, SubSeq(s, i + 1, n))) = \E i \in 1 .. n - 1 : SubSeq(s, i, i + 1) = CRLF
  BY <1>6, Zenon
<1> QED
  BY <1>1, <1>7

LEMMA MatcherSees == MatcherSeesCutText
<1> SUFFICES ASSUME NEW s \in Stream, Len(s) <= MaxBuffer, NEW c \in Chunkings(s),
                    NEW m1, m1 = Match(<<>>, c[1], CRLF),
                    NEW m2, m2 = Match(m1.buffer, c[2], CRLF),
                    NEW m3, m3 = Match(m2.buffer, c[3], CRLF)
             PROVE  m3.found = (\E i \in 1 .. (Len(s) - 1) : SubSeq(s, i, i + 1) = CRLF)
  BY DEF MatcherSeesCutText
<1>1. s \in Bytes /\ MaxBuffer \in Nat
  BY ParsingAssumption DEF Bytes
<1>2. PICK x \in Bytes, y \in Bytes, z \in Bytes :
         /\ c = <<x, y, z>> /\ (x \o y) \o z = s
         /\ Len(x) <= Len(s) /\ Len(x \o y) <= Len(s)
  BY <1>1, CutInThree
<1>3. c[1] = x /\ c[2] = y /\ c[3] = z
  BY <1>2
<1>4. <<>> \in Bytes /\ <<>> \o x = x /\ x \o y \in Bytes
  BY EmptySeq, ConcatEmptySeq, ConcatProperties DEF Bytes
<1>5. Len(x) <= MaxBuffer /\ Len(x \o y) <= MaxBuffer
  <2>1. Len(x) \in Nat /\ Len(x \o y) \in Nat /\ Len(s) \in Nat
    BY <1>1, <1>4, LenProperties DEF Bytes
  <2> QED
    BY <1>1, <1>2, <2>1
<1>6. m1.buffer = x
  BY <1>3, <1>4, <1>5, MatchKeeps
<1>7. m2.buffer = x \o y
  BY <1>3, <1>5, <1>6, MatchKeeps
<1>8. Joined(x \o y, z) = s
  BY <1>1, <1>2, EndingIsEnd DEF Joined
<1>9. m3.found = \E i \in 0 .. Len(s) : IsPrefix(CRLF, SubSeq(s, i + 1, Len(s)))
  BY <1>3, <1>7, <1>8 DEF Match
<1> QED
  BY <1>1, <1>9, FoundIs

LEMMA PiecesAreKept == PiecesKeepBytes
  BY ParsersKeep, MatcherSees, RingAgrees DEF PiecesKeepBytes

\* Theorem: no buffer loses, doubles or reorders a byte, whatever the pieces it comes in: a parser fed
\* in chunks keeps the stream (parse() of the four parsers), the matcher sees a text that was cut
\* (ExpectMatcher.match), and the ring is a queue of its newest bytes (RingBuffer).
THEOREM BytesAreKept == Spec => []BuffersKeepBytes
<1>1. BuffersKeepBytes
  BY PiecesAreKept DEF BuffersKeepBytes
<1> QED
  BY <1>1, PTL

=============================================================================
