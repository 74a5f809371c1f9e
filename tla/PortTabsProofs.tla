--------------------------- MODULE PortTabsProofs ---------------------------
(***************************************************************************)
(* Safety of PortTabs, for any ports, any saved tabs, any results of scans *)
(* and any number of tabs, workers and scans.  What a tab says of its port *)
(* is made inductive by what the event queue still holds: a signal that    *)
(* says "opened" of a thread that ended is followed by the one that says   *)
(* how it ended.                                                           *)
(***************************************************************************)
EXTENDS PortTabs, SequenceTheorems, WellFoundedInduction, TLAPS

Kind == {"opened", "closed", "error"}

TabsOK ==
    /\ made \in Panel /\ tabs \in Seq(Panel) /\ TabSet \subseteq 1..made /\ current \in TabSet
    /\ shown \in [Panel -> Port \cup {NoPort}]
    /\ connected \in [Panel -> BOOLEAN] /\ checked \in [Panel -> BOOLEAN]
    /\ controls \in BOOLEAN
    /\ listed \subseteq Port

ScansOK ==
    /\ scan_worker \in Scans \cup {NoScan}
    /\ scan \in [Scans -> {"unused", "listing", "ending", "ended"}]
    /\ found \in Seq(SUBSET Port)

ConnectionsOK ==
    /\ workers \in [Port -> Workers \cup {NoWorker}]
    /\ port \in [Workers -> Port \cup {NoPort}]
    /\ phase \in [Workers -> {"unused", "opening", "open", "broken", "ended"}]
    /\ events \in Seq(Kind \X Workers)

\* A panel not made yet says nothing.
FreshIsQuiet == \A t \in Panel : t > made => ~connected[t] /\ ~checked[t]

\* Signals come from threads that were started.
EventsOfStarted == \A i \in DOMAIN events : phase[events[i][2]] # "unused"

\* A thread whose "opened" waits in the queue is at work, or its end waits behind it.
OpenedIsFollowed ==
    \A i \in DOMAIN events : events[i][1] = "opened" =>
        \/ AtWork(events[i][2])
        \/ \E j \in DOMAIN events : j > i /\ events[j][1] # "opened" /\ events[j][2] = events[i][2]

\* The scan the presenter waits for has its result ahead, or a result in the queue.
ScanReports == scan_worker # NoScan => scan[scan_worker] = "listing" \/ found # <<>>

UnlistedAreTabs == unlisted \subseteq TabSet

TypeOK == TabsOK /\ ScansOK /\ ConnectionsOK
TruthInv == FreshIsQuiet /\ EventsOfStarted /\ OpenedIsFollowed /\ TabIsTrue
ScanInv == ScanReports /\ UnlistedAreTabs /\ EveryTabIsListed
Inv == TypeOK /\ TruthInv /\ ScanInv /\ ControlsFollow

-----------------------------------------------------------------------------
(* What the queue and the threads hold for a name *)

Ends(w) == \E i \in DOMAIN events : events[i][1] # "opened" /\ events[i][2] = w
Told(w) == \E i \in DOMAIN events : events[i][2] = w

\* What a connected tab needs.
Backed(p) == \E w \in Workers : port[w] = p /\ (AtWork(w) \/ Ends(w))

\* What the threads and the queue keep in every step but those that serve a signal.
Kept == /\ EventsOfStarted' /\ OpenedIsFollowed'
        /\ \A p : (Backed(p) => Backed(p)') /\ (Attempt(p) => Attempt(p)')

LEMMA AttemptIsTold ==
    ASSUME NEW p
    PROVE  Attempt(p) <=> \E w \in Workers : port[w] = p /\ (phase[w] = "opening" \/ Told(w))
  BY DEF Attempt, Told, Range

\* TabIsTrue in these words.
TabsTrue ==
    \A t \in TabSet \ strayed :
        /\ connected[t] => Backed(shown[t])
        /\ checked[t] /\ ~connected[t] => Attempt(shown[t])

LEMMA TabIsTrueMeans == (TabIsTrue <=> TabsTrue) /\ (TabIsTrue' <=> TabsTrue')
<1>1. \A w : Ends(w) <=> \E e \in Range(events) : e[1] # "opened" /\ e[2] = w
  BY DEF Ends, Range
<1>a. \A p : Backed(p) <=> \E w \in Workers :
                 /\ port[w] = p
                 /\ AtWork(w) \/ \E e \in Range(events) : e[1] # "opened" /\ e[2] = w
  BY <1>1 DEF Backed
<1>2. TabIsTrue <=> TabsTrue
  BY <1>a, Zenon DEF TabIsTrue, TabsTrue
<1>3. \A w : Ends(w)' <=> \E e \in Range(events') : e[1] # "opened" /\ e[2] = w
  BY DEF Ends, Range
<1>b. \A p : Backed(p)' <=> \E w \in Workers :
                 /\ port'[w] = p
                 /\ AtWork(w)' \/ \E e \in Range(events') : e[1] # "opened" /\ e[2] = w
  BY <1>3 DEF Backed
<1>4. TabIsTrue' <=> TabsTrue'
  BY <1>b, Zenon DEF TabIsTrue, TabsTrue
<1> QED
  BY <1>2, <1>4

LEMMA ConnectionsStay ==
    ASSUME EventsOfStarted, OpenedIsFollowed, UNCHANGED <<port, phase, events>>
    PROVE  Kept
<1>1. \A w \in Workers : (AtWork(w) <=> AtWork(w)') /\ (Ends(w) <=> Ends(w)') /\ (Told(w) <=> Told(w)')
  BY DEF AtWork, Ends, Told
<1>2. EventsOfStarted' /\ OpenedIsFollowed'
  BY DEF EventsOfStarted, OpenedIsFollowed, AtWork
<1>3. \A p : (Backed(p) => Backed(p)') /\ (Attempt(p) => Attempt(p)')
  BY <1>1, AttemptIsTold DEF Backed, Attempt
<1> QED
  BY <1>2, <1>3 DEF Kept

\* A thread goes on and tells it.
LEMMA ThreadKeeps ==
    ASSUME TypeOK, EventsOfStarted, OpenedIsFollowed,
           NEW w \in Workers, NEW to \in {"open", "broken", "ended"}, NEW kind \in Kind,
           NEW running, ThreadStep(w, to, running, <<<<kind, w>>>>),
           phase[w] # "unused", kind = "opened" <=> to = "open"
    PROVE  ConnectionsOK' /\ Kept
<1> DEFINE e == <<kind, w>>
<1>1. /\ events \in Seq(Kind \X Workers) /\ e \in Kind \X Workers
      /\ events' = events \o <<e>> /\ phase' = [phase EXCEPT ![w] = to] /\ UNCHANGED <<port, workers>>
  BY DEF TypeOK, ConnectionsOK, ThreadStep
<1>2. /\ events' \in Seq(Kind \X Workers) /\ Len(events) \in Nat /\ Len(events') = Len(events) + 1
      /\ DOMAIN events = 1..Len(events) /\ DOMAIN events' = 1..Len(events')
      /\ \A i \in 1..Len(events) : events'[i] = events[i]
      /\ events'[Len(events) + 1] = e
  BY <1>1
<1>3. /\ phase'[w] = to /\ \A v \in Workers : v # w => phase'[v] = phase[v]
      /\ phase' \in [Workers -> {"unused", "opening", "open", "broken", "ended"}]
  BY <1>1 DEF TypeOK, ConnectionsOK
<1>4. ConnectionsOK'
  BY <1>1, <1>2, <1>3 DEF TypeOK, ConnectionsOK
<1>5. EventsOfStarted'
  BY <1>1, <1>2, <1>3 DEF EventsOfStarted
<1>6. \A v \in Workers : (Ends(v) => Ends(v)') /\ (Told(v) => Told(v)')
  BY <1>2 DEF Ends, Told
<1>7. Told(w)' /\ (to # "open" => Ends(w)')
  BY <1>2 DEF Ends, Told
<1>8. \A v \in Workers : AtWork(v) => AtWork(v)' \/ Ends(v)'
  BY <1>3, <1>7 DEF AtWork
<1>9. OpenedIsFollowed'
  <2> SUFFICES ASSUME NEW i \in DOMAIN events', events'[i][1] = "opened"
               PROVE  \/ phase'[events'[i][2]] \in {"opening", "open", "broken"}
                      \/ \E j \in DOMAIN events' :
                            j > i /\ events'[j][1] # "opened" /\ events'[j][2] = events'[i][2]
    BY DEF OpenedIsFollowed, AtWork
  <2>1. CASE i = Len(events) + 1
    BY <1>1, <1>2, <1>3, <2>1 DEF AtWork
  <2>2. CASE i # Len(events) + 1
    <3>1. i \in DOMAIN events /\ events'[i] = events[i] /\ events[i][2] \in Workers
      BY <1>1, <1>2, <2>2
    <3>2. CASE \E j \in DOMAIN events : j > i /\ events[j][1] # "opened" /\ events[j][2] = events[i][2]
      BY <1>2, <3>1, <3>2
    <3>3. CASE AtWork(events[i][2]) /\ events[i][2] # w
      BY <1>3, <3>1, <3>3 DEF AtWork
    <3>4. CASE events[i][2] = w /\ to = "open"
      BY <1>3, <3>1, <3>4 DEF AtWork
    <3>5. CASE events[i][2] = w /\ to # "open"
      <4> DEFINE last == Len(events) + 1
      <4>1. last \in DOMAIN events' /\ last > i /\ kind # "opened"
        BY <1>2, <3>1, <3>5
      <4>2. events'[last][1] = kind /\ events'[last][2] = w
        BY <1>2
      <4> HIDE DEF last
      <4> QED
        BY <3>1, <3>5, <4>1, <4>2
    <3> QED
      BY <3>1, <3>2, <3>3, <3>4, <3>5 DEF OpenedIsFollowed
  <2> QED
    BY <2>1, <2>2
<1>10. ASSUME NEW p PROVE (Backed(p) => Backed(p)') /\ (Attempt(p) => Attempt(p)')
  <2>1. Backed(p) => Backed(p)'
    BY <1>1, <1>6, <1>8 DEF Backed
  <2>2. ASSUME NEW v \in Workers, port[v] = p, phase[v] = "opening" \/ Told(v)
        PROVE  port'[v] = p /\ (phase'[v] = "opening" \/ Told(v)')
    BY <1>1, <1>3, <1>6, <1>7, <2>2
  <2>3. Attempt(p) <=> \E v \in Workers : port[v] = p /\ (phase[v] = "opening" \/ Told(v))
    BY AttemptIsTold
  <2>4. Attempt(p)' <=> \E v \in Workers : port'[v] = p /\ (phase'[v] = "opening" \/ Told(v)')
    BY DEF Attempt, Told, Range
  <2> QED
    BY <2>1, <2>2, <2>3, <2>4
<1> QED
  BY <1>4, <1>5, <1>9, <1>10 DEF Kept

\* A connection is opened: a thread that never spoke is given the name.
LEMMA OpeningKeeps ==
    ASSUME TypeOK, EventsOfStarted, OpenedIsFollowed, NEW p \in Port, OpenConnection(p)
    PROVE  ConnectionsOK' /\ Kept /\ Attempt(p)'
<1>1. PICK w \in Workers : /\ FirstUnused(phase, Workers, w)
                           /\ workers' = [workers EXCEPT ![p] = w]
                           /\ port' = [port EXCEPT ![w] = p]
                           /\ phase' = [phase EXCEPT ![w] = "opening"]
  BY DEF OpenConnection
<1>2. phase[w] = "unused" /\ events' = events
  BY <1>1 DEF FirstUnused, OpenConnection
<1>3. ConnectionsOK'
  BY <1>1, <1>2 DEF TypeOK, ConnectionsOK
<1>4. /\ port'[w] = p /\ phase'[w] = "opening"
      /\ \A v \in Workers : v # w => port'[v] = port[v] /\ phase'[v] = phase[v]
  BY <1>1 DEF TypeOK, ConnectionsOK
<1>5. \A i \in DOMAIN events : events[i][2] \in Workers /\ events[i][2] # w
  BY <1>2, ElementOfSeq DEF TypeOK, ConnectionsOK, EventsOfStarted
<1>6. EventsOfStarted' /\ OpenedIsFollowed'
  BY <1>2, <1>4, <1>5 DEF EventsOfStarted, OpenedIsFollowed, AtWork
<1>7. \A v \in Workers : v # w => /\ AtWork(v) <=> AtWork(v)'
                                 /\ (Ends(v) <=> Ends(v)') /\ (Told(v) <=> Told(v)')
  BY <1>2, <1>4 DEF AtWork, Ends, Told
<1>8. ~AtWork(w) /\ ~Ends(w) /\ ~Told(w) /\ phase[w] # "opening"
  BY <1>2, <1>5 DEF AtWork, Ends, Told
<1>9. ASSUME NEW q PROVE Backed(q) => Backed(q)'
  BY <1>4, <1>7, <1>8 DEF Backed
<1>10. ASSUME NEW q PROVE Attempt(q)' <=> \E v \in Workers : port'[v] = q /\ (phase'[v] = "opening" \/ Told(v)')
  BY DEF Attempt, Told, Range
<1>11. ASSUME NEW q PROVE Attempt(q) => Attempt(q)'
  BY <1>4, <1>7, <1>8, <1>10, AttemptIsTold
<1>12. Attempt(p)'
  BY <1>4, <1>10
<1> QED
  BY <1>3, <1>6, <1>9, <1>11, <1>12 DEF Kept

\* A connection is closed: only the thread is told.
LEMMA ClosingKeeps ==
    ASSUME TypeOK, EventsOfStarted, OpenedIsFollowed, NEW p, CloseConnection(p)
    PROVE  ConnectionsOK' /\ Kept
<1>1. UNCHANGED <<workers, port, phase, events>>
  BY DEF CloseConnection, connVars
<1> QED
  BY <1>1, ConnectionsStay DEF TypeOK, ConnectionsOK

\* A signal is served: for the other names nothing changes, and one that said "opened" leaves
\* its thread at work or its end in the queue.
LEMMA ServingKeeps ==
    ASSUME TypeOK, EventsOfStarted, OpenedIsFollowed, events # <<>>, events' = Tail(events),
           UNCHANGED <<port, phase>>, NEW p, p = HeardPort
    PROVE  /\ EventsOfStarted' /\ OpenedIsFollowed' /\ events' \in Seq(Kind \X Workers)
           /\ p \in Port \cup {NoPort}
           /\ \A q : q # p => (Backed(q) => Backed(q)') /\ (Attempt(q) => Attempt(q)')
           /\ events[1][1] = "opened" => Backed(p)' /\ \A q : Backed(q) => Backed(q)'
<1>1. /\ Len(events) \in Nat \ {0} /\ DOMAIN events = 1..Len(events)
      /\ events' \in Seq(Kind \X Workers) /\ DOMAIN events' = 1..(Len(events) - 1)
      /\ \A i \in 1..(Len(events) - 1) : events'[i] = events[i + 1]
      /\ \A i \in 1..Len(events) : events[i] \in Kind \X Workers
  BY HeadTailProperties, EmptySeq, ElementOfSeq, LenProperties DEF TypeOK, ConnectionsOK
<1>2. ASSUME NEW i \in 2..Len(events) PROVE i - 1 \in DOMAIN events' /\ events'[i - 1] = events[i]
  BY <1>1
<1> DEFINE h == events[1][2]
<1>3. h \in Workers /\ p = port[h] /\ p \in Port \cup {NoPort}
  BY <1>1 DEF HeardPort, TypeOK, ConnectionsOK
<1>4. EventsOfStarted'
  BY <1>1 DEF EventsOfStarted
<1>5. OpenedIsFollowed'
  <2> SUFFICES ASSUME NEW i \in DOMAIN events', events'[i][1] = "opened"
               PROVE  \/ phase[events'[i][2]] \in {"opening", "open", "broken"}
                      \/ \E j \in DOMAIN events' :
                            j > i /\ events'[j][1] # "opened" /\ events'[j][2] = events'[i][2]
    BY DEF OpenedIsFollowed, AtWork
  <2>1. i + 1 \in DOMAIN events /\ events[i + 1] = events'[i]
    BY <1>1
  <2>2. ASSUME NEW j \in DOMAIN events, j > i + 1, events[j][1] # "opened", events[j][2] = events[i + 1][2]
        PROVE  \E k \in DOMAIN events' : k > i /\ events'[k][1] # "opened" /\ events'[k][2] = events'[i][2]
    <3>1. j - 1 \in DOMAIN events' /\ j - 1 > i /\ events'[j - 1] = events[j]
      BY <1>1, <2>1, <2>2
    <3> QED
      BY <2>1, <2>2, <3>1
  <2> QED
    BY <2>1, <2>2 DEF OpenedIsFollowed, AtWork
<1>6. ASSUME NEW v \in Workers, v # h, Told(v) PROVE Told(v)'
  <2>1. PICK i \in DOMAIN events : events[i][2] = v
    BY <1>6 DEF Told
  <2>2. i \in 2..Len(events)
    BY <1>1, <1>6, <2>1
  <2> QED
    BY <1>2, <2>1, <2>2 DEF Told
<1>7. ASSUME NEW v \in Workers, v # h \/ events[1][1] = "opened", Ends(v) PROVE Ends(v)'
  <2>1. PICK i \in DOMAIN events : events[i][1] # "opened" /\ events[i][2] = v
    BY <1>7 DEF Ends
  <2>2. i \in 2..Len(events)
    BY <1>1, <1>7, <2>1
  <2> QED
    BY <1>2, <2>1, <2>2 DEF Ends
<1>8. \A v \in Workers : AtWork(v) <=> AtWork(v)'
  BY DEF AtWork
<1>9. ASSUME NEW q, q # p PROVE (Backed(q) => Backed(q)') /\ (Attempt(q) => Attempt(q)')
  <2>1. \A v \in Workers : port[v] = q => v # h
    BY <1>3, <1>9
  <2>2. Attempt(q)' <=> \E v \in Workers : port'[v] = q /\ (phase'[v] = "opening" \/ Told(v)')
    BY DEF Attempt, Told, Range
  <2>3. Attempt(q) => Attempt(q)'
    BY <1>6, <2>1, <2>2, AttemptIsTold
  <2>4. Backed(q) => Backed(q)'
    BY <1>7, <1>8, <2>1 DEF Backed
  <2> QED
    BY <2>3, <2>4
<1>10. ASSUME events[1][1] = "opened" PROVE Backed(p)' /\ \A q : Backed(q) => Backed(q)'
  <2>1. ASSUME NEW q PROVE Backed(q) => Backed(q)'
    BY <1>7, <1>8, <1>10 DEF Backed
  <2>2. AtWork(h) \/ \E j \in DOMAIN events : j > 1 /\ events[j][1] # "opened" /\ events[j][2] = h
    BY <1>1, <1>10 DEF OpenedIsFollowed
  <2>3. AtWork(h) \/ Ends(h)
    BY <2>2 DEF Ends
  <2>4. Backed(port[h])
    BY <1>3, <2>3 DEF Backed
  <2> QED
    BY <1>3, <2>1, <2>4
<1> QED
  BY <1>1, <1>3, <1>4, <1>5, <1>9, <1>10

-----------------------------------------------------------------------------
(* Sequences and lists *)

\* A nonempty set of numbers has a least one.
LEMMA LeastOf ==
    ASSUME NEW T, T \subseteq Nat, T # {}
    PROVE  \E x \in T : \A y \in T : x <= y
<1>1. PICK x \in T : \A y \in T : <<y, x>> \notin OpToRel(<, Nat)
  BY WFMin, NatLessThanWellFounded, Zenon
<1>2. \A y \in T : ~(y < x)
  BY <1>1, Zenon DEF OpToRel
<1> QED
  BY <1>2

\* The preselected item is one of the list.
LEMMA FirstIsListed ==
    ASSUME NEW S, S \subseteq Port, S # {}
    PROVE  FirstOf(S) \in S
<1> DEFINE I == {i \in DOMAIN PortOrder : PortOrder[i] \in S}
<1>1. DOMAIN PortOrder \subseteq Nat /\ I # {} /\ I \subseteq Nat
  BY OrderAssumption
<1>2. PICK i \in I : \A j \in I : i <= j
  BY <1>1, LeastOf, Zenon
<1>3. \A j \in 1..(i - 1) : PortOrder[j] \notin S
  BY <1>1, <1>2, OrderAssumption
<1> QED
  BY <1>2, <1>3 DEF FirstOf

LEMMA AfterScanIsName ==
    ASSUME NEW S, S \subseteq Port, NEW p \in Port \cup {NoPort}
    PROVE  AfterScan(p, S) \in Port \cup {NoPort}
  BY FirstIsListed DEF AfterScan

LEMMA Removed ==
    ASSUME NEW S, NEW s \in Seq(S), NEW i \in 1..Len(s)
    PROVE  /\ RemoveAt(s, i) \in Seq(S) /\ Len(RemoveAt(s, i)) = Len(s) - 1
           /\ \A j \in 1..(Len(s) - 1) : RemoveAt(s, i)[j] = IF j < i THEN s[j] ELSE s[j + 1]
<1>1. Len(s) \in Nat
  BY LenProperties, Zenon
<1>2. /\ SubSeq(s, 1, i - 1) \in Seq(S) /\ Len(SubSeq(s, 1, i - 1)) = i - 1
      /\ \A j \in 1..(i - 1) : SubSeq(s, 1, i - 1)[j] = s[j]
  BY <1>1
<1>3. /\ SubSeq(s, i + 1, Len(s)) \in Seq(S) /\ Len(SubSeq(s, i + 1, Len(s))) = Len(s) - i
      /\ \A j \in 1..(Len(s) - i) : SubSeq(s, i + 1, Len(s))[j] = s[i + j]
  BY <1>1
<1> DEFINE a == SubSeq(s, 1, i - 1)
           b == SubSeq(s, i + 1, Len(s))
<1>4. RemoveAt(s, i) = a \o b
  BY DEF RemoveAt
<1>5. /\ a \in Seq(S) /\ Len(a) = i - 1 /\ \A j \in 1..(i - 1) : a[j] = s[j]
      /\ b \in Seq(S) /\ Len(b) = Len(s) - i /\ \A j \in 1..(Len(s) - i) : b[j] = s[i + j]
  BY <1>2, <1>3
<1> HIDE DEF a, b
<1>c. /\ a \o b \in Seq(S) /\ Len(a \o b) = Len(a) + Len(b)
      /\ \A j \in 1..(Len(a) + Len(b)) : (a \o b)[j] = IF j <= Len(a) THEN a[j] ELSE b[j - Len(a)]
  BY <1>5, ConcatProperties
<1>6. /\ a \o b \in Seq(S) /\ Len(a \o b) = Len(s) - 1
      /\ \A j \in 1..(Len(s) - 1) : (a \o b)[j] = IF j <= i - 1 THEN a[j] ELSE b[j - (i - 1)]
  <2>1. Len(a) = i - 1 /\ Len(a) + Len(b) = Len(s) - 1
    BY <1>1, <1>5
  <2> QED
    BY <1>c, <2>1
<1>7. \A j \in 1..(Len(s) - 1) : (a \o b)[j] = IF j < i THEN s[j] ELSE s[j + 1]
  <2> SUFFICES ASSUME NEW j \in 1..(Len(s) - 1)
               PROVE  (a \o b)[j] = IF j < i THEN s[j] ELSE s[j + 1]
    OBVIOUS
  <2>1. CASE j < i
    BY <1>1, <1>5, <1>6, <2>1
  <2>2. CASE ~(j < i)
    <3> DEFINE k == j - (i - 1)
    <3>1. (a \o b)[j] = b[k]
      BY <1>1, <1>6, <2>2
    <3>2. k \in 1..(Len(s) - i) /\ i + k = j + 1
      BY <1>1, <2>2
    <3> HIDE DEF k
    <3>3. b[k] = s[i + k]
      BY <1>5, <3>2
    <3> QED
      BY <2>2, <3>1, <3>2, <3>3
  <2> QED
    BY <2>1, <2>2
<1> QED
  BY <1>4, <1>6, <1>7

Items(s) == {s[j] : j \in DOMAIN s}

\* The tabs after a tab was closed.
LEMMA TabsRemoved ==
    ASSUME NEW S, NEW s \in Seq(S), NEW i \in DOMAIN s, NEW s2, s2 = RemoveAt(s, i)
    PROVE  /\ s2 \in Seq(S) /\ DOMAIN s2 = 1..(Len(s) - 1)
           /\ Items(s2) \subseteq Items(s) /\ Items(s) \ {s[i]} \subseteq Items(s2)
<1>0. i \in 1..Len(s) /\ Len(s) \in Nat
  BY LenProperties, Zenon
<1>1. /\ s2 \in Seq(S) /\ DOMAIN s2 = 1..(Len(s) - 1) /\ DOMAIN s = 1..Len(s) /\ Len(s) \in Nat
      /\ \A j \in 1..(Len(s) - 1) : s2[j] = IF j < i THEN s[j] ELSE s[j + 1]
  BY <1>0, Removed, LenProperties
<1>2. \A j \in DOMAIN s2 : (s2[j] = s[j] /\ j \in DOMAIN s) \/ (s2[j] = s[j + 1] /\ j + 1 \in DOMAIN s)
  BY <1>1
<1>3. ASSUME NEW j \in DOMAIN s, j # i PROVE \E k \in DOMAIN s2 : s2[k] = s[j]
  <2>1. CASE j < i
    BY <1>1, <2>1
  <2>2. CASE j > i
    <3>1. j - 1 \in DOMAIN s2 /\ s2[j - 1] = s[j]
      BY <1>1, <2>2
    <3> QED
      BY <3>1
  <2> QED
    BY <1>1, <1>3, <2>1, <2>2
<1>4. ASSUME NEW x \in Items(s2) PROVE x \in Items(s)
  <2>1. PICK j \in DOMAIN s2 : x = s2[j]
    BY DEF Items
  <2> QED
    BY <1>2, <2>1 DEF Items
<1>5. ASSUME NEW x \in Items(s) \ {s[i]} PROVE x \in Items(s2)
  <2>1. PICK j \in DOMAIN s : x = s[j]
    BY DEF Items
  <2>2. j # i
    BY <2>1
  <2>3. PICK k \in DOMAIN s2 : s2[k] = s[j]
    BY <1>3, <2>2
  <2> QED
    BY <2>1, <2>3 DEF Items
<1> QED
  BY <1>1, <1>4, <1>5

-----------------------------------------------------------------------------
(* What most actions leave alone *)

LEMMA ScansStay ==
    ASSUME Inv, UNCHANGED <<scanVars, unlisted, tabs, crashed>>
    PROVE  ScansOK' /\ ScanInv'
  BY DEF Inv, TypeOK, ScanInv, ScansOK, scanVars, ScanReports, UnlistedAreTabs, EveryTabIsListed, TabSet

\* The tabs stay as they are while threads and queue move.
LEMMA TabsStay ==
    ASSUME Inv, UNCHANGED <<tabVars, panelVars, controlVars, listed, strayed>>, Kept
    PROVE  TabsOK' /\ TruthInv' /\ ControlsFollow'
<1>1. TabsOK' /\ FreshIsQuiet' /\ ControlsFollow'
  BY DEF Inv, TypeOK, TabsOK, TruthInv, FreshIsQuiet, ControlsFollow, tabVars, panelVars, controlVars, TabSet
<1>2. TabsTrue'
  BY TabIsTrueMeans DEF Inv, TruthInv, TabsTrue, Kept, tabVars, panelVars, TabSet
<1> QED
  BY <1>1, <1>2, TabIsTrueMeans DEF TruthInv, Kept

-----------------------------------------------------------------------------
(* Scans *)

LEMMA InitInv == Init => Inv
<1> SUFFICES ASSUME Init PROVE Inv
  OBVIOUS
<1>0. /\ current = 1 /\ controls = FALSE /\ listed = {}
      /\ connected = [t \in Panel |-> FALSE] /\ checked = [t \in Panel |-> FALSE]
      /\ scan_worker = 1 /\ scan = [s \in Scans |-> IF s = 1 THEN "listing" ELSE "unused"]
      /\ found = <<>> /\ strayed = {}
      /\ workers = [p \in Port |-> NoWorker] /\ port = [w \in Workers |-> NoPort]
      /\ phase = [w \in Workers |-> "unused"] /\ events = <<>>
  BY DEF Init
<1>1. PICK saved \in SavedTabs :
        /\ tabs = [i \in DOMAIN Restored(saved) |-> i] /\ made = Len(Restored(saved))
        /\ shown = [t \in Panel |-> IF t \in DOMAIN Restored(saved) THEN Restored(saved)[t] ELSE NoPort]
        /\ unlisted = DOMAIN Restored(saved)
  BY Zenon DEF Init
<1> DEFINE names == Restored(saved)
<1>2. names \in Seq(Port \cup {NoPort}) /\ Len(names) \in 1..MaxTabs /\ DOMAIN names = 1..Len(names)
  <2>1. saved \in Seq(Port \cup {NoPort}) /\ Len(saved) <= MaxTabs /\ MaxTabs \in Nat \ {0}
    BY TabsAssumption
  <2>2. CASE saved = <<>>
    BY <2>1, <2>2 DEF Restored
  <2>3. CASE saved # <<>>
    BY <2>1, <2>3, LenProperties, EmptySeq DEF Restored
  <2> QED
    BY <2>2, <2>3
<1> HIDE DEF names
<1>3. /\ tabs = [i \in 1..Len(names) |-> i] /\ made = Len(names) /\ unlisted = 1..Len(names)
      /\ shown \in [Panel -> Port \cup {NoPort}]
  BY <1>1, <1>2 DEF names, Panel
<1>4. Len(names) \in Nat /\ 1..Len(names) \subseteq Panel /\ MaxTabs \in Nat
  BY <1>2, TabsAssumption DEF Panel
<1>5. tabs \in Seq(Panel) /\ DOMAIN tabs = 1..Len(names)
  BY <1>3, <1>4, IsASeq
<1>6. TabSet = 1..made
  BY <1>3, <1>5 DEF TabSet
<1>7. TabsOK
  <2>1. connected \in [Panel -> BOOLEAN] /\ checked \in [Panel -> BOOLEAN] /\ controls \in BOOLEAN
    BY <1>0
  <2>2. made \in Panel /\ current \in TabSet
    BY <1>0, <1>2, <1>3, <1>4, <1>6
  <2> QED
    BY <1>0, <1>3, <1>5, <1>6, <2>1, <2>2 DEF TabsOK
<1>8. ScansOK /\ ConnectionsOK
  <2>1. scan \in [Scans -> {"unused", "listing", "ending", "ended"}] /\ 1 \in Scans
    BY <1>0, BoundsAssumption DEF Scans
  <2> QED
    BY <1>0, <2>1 DEF ScansOK, ConnectionsOK, NoScan, NoWorker
<1>9. FreshIsQuiet /\ EventsOfStarted /\ OpenedIsFollowed
  BY <1>0 DEF FreshIsQuiet, EventsOfStarted, OpenedIsFollowed
<1>10. TabIsTrue
  BY <1>0, <1>3, <1>4, <1>6 DEF TabIsTrue
<1>11. ScanInv
  BY <1>0, <1>3, <1>6, BoundsAssumption DEF ScanInv, ScanReports, UnlistedAreTabs, EveryTabIsListed, Scans, NoScan
<1>12. ControlsFollow
  <2>1. 1 \in Panel
    BY <1>2, <1>4
  <2>2. connected[current] = FALSE /\ controls = FALSE
    BY <1>0, <2>1
  <2> QED
    BY <2>2 DEF ControlsFollow
<1> QED
  BY <1>7, <1>8, <1>9, <1>10, <1>11, <1>12 DEF Inv, TypeOK, TruthInv

\* The scan a handler asks for starts, unless the one the presenter knows runs.
LEMMA ScanAsked ==
    ASSUME Inv, ScanPorts
    PROVE  /\ ScansOK' /\ ScanReports' /\ found' = found
           /\ found # <<>> \/ \E s \in Scans : scan'[s] = "listing"
<1>1. ScansOK /\ ScanReports
  BY DEF Inv, TypeOK, ScanInv
<1>2. CASE ScanInProgress /\ UNCHANGED scanVars
  <2>1. scan_worker \in Scans /\ (scan[scan_worker] = "listing" \/ found # <<>>)
    BY <1>1, <1>2 DEF ScansOK, ScanReports, ScanInProgress
  <2> QED
    BY <1>1, <1>2, <2>1 DEF ScansOK, ScanReports, scanVars
<1>3. CASE ~ScanInProgress /\ found' = found
  <2>1. PICK s \in Scans : scan' = [scan EXCEPT ![s] = "listing"] /\ scan_worker' = s
    BY <1>2, <1>3 DEF ScanPorts, ScanInProgress
  <2>2. scan' \in [Scans -> {"unused", "listing", "ending", "ended"}] /\ scan'[s] = "listing"
    BY <1>1, <2>1 DEF ScansOK
  <2> QED
    BY <1>1, <1>3, <2>1, <2>2 DEF ScansOK, ScanReports
<1> QED
  BY <1>2, <1>3 DEF ScanPorts

LEMMA RequestScanInv == Inv /\ RequestScan => Inv'
<1> SUFFICES ASSUME Inv, RequestScan PROVE Inv'
  OBVIOUS
<1>1. Kept
  BY ConnectionsStay DEF Inv, TruthInv, RequestScan, connVars
<1>2. TabsOK' /\ TruthInv' /\ ControlsFollow'
  BY <1>1, TabsStay DEF RequestScan
<1>3. ConnectionsOK'
  BY DEF Inv, TypeOK, ConnectionsOK, RequestScan, connVars
<1>4. ScansOK' /\ ScanInv'
  BY ScanAsked DEF Inv, ScanInv, RequestScan, UnlistedAreTabs, EveryTabIsListed, tabVars, TabSet
<1> QED
  BY <1>2, <1>3, <1>4 DEF Inv, TypeOK

LEMMA ListPortsInv == \A s \in Scans : Inv /\ ListPorts(s) => Inv'
<1> SUFFICES ASSUME Inv, NEW s \in Scans, ListPorts(s) PROVE Inv'
  OBVIOUS
<1>1. Kept
  BY ConnectionsStay DEF Inv, TruthInv, ListPorts, connVars
<1>2. TabsOK' /\ TruthInv' /\ ControlsFollow'
  BY <1>1, TabsStay DEF ListPorts
<1>3. ConnectionsOK'
  BY DEF Inv, TypeOK, ConnectionsOK, ListPorts, connVars
<1>4. PICK S \in Results : found' = Append(found, S)
  BY DEF ListPorts
<1>5. found \in Seq(SUBSET Port) /\ S \in SUBSET Port
  BY <1>4, OrderAssumption DEF Inv, TypeOK, ScansOK
<1>6. found' \in Seq(SUBSET Port) /\ found' # <<>>
  BY <1>4, <1>5
<1>7. ScansOK'
  BY <1>6 DEF Inv, TypeOK, ScansOK, ListPorts
<1>8. ScanInv'
  BY <1>6 DEF Inv, ScanInv, ListPorts, ScanReports, UnlistedAreTabs, EveryTabIsListed, tabVars, TabSet
<1> QED
  BY <1>2, <1>3, <1>7, <1>8 DEF Inv, TypeOK

LEMMA ScanEndsInv == \A s \in Scans : Inv /\ ScanEnds(s) => Inv'
<1> SUFFICES ASSUME Inv, NEW s \in Scans, ScanEnds(s) PROVE Inv'
  OBVIOUS
<1>1. Kept
  BY ConnectionsStay DEF Inv, TruthInv, ScanEnds, connVars
<1>2. TabsOK' /\ TruthInv' /\ ControlsFollow'
  BY <1>1, TabsStay DEF ScanEnds
<1>3. ConnectionsOK'
  BY DEF Inv, TypeOK, ConnectionsOK, ScanEnds, connVars
<1>4. /\ scan' \in [Scans -> {"unused", "listing", "ending", "ended"}]
      /\ \A r \in Scans : scan[r] = "listing" => scan'[r] = "listing"
  BY DEF Inv, TypeOK, ScansOK, ScanEnds
<1>5. ScansOK'
  BY <1>4 DEF Inv, TypeOK, ScansOK, ScanEnds
<1>6. ScanInv'
  BY <1>4 DEF Inv, TypeOK, ScansOK, ScanInv, ScanEnds, ScanReports, UnlistedAreTabs, EveryTabIsListed,
              tabVars, TabSet
<1> QED
  BY <1>2, <1>3, <1>5, <1>6 DEF Inv, TypeOK

\* A result leaves no tab unlisted; the tabs it renames are noted when they say something.
LEMMA OnScanFinishedInv == Inv /\ OnScanFinished => Inv'
<1> SUFFICES ASSUME Inv, OnScanFinished PROVE Inv'
  OBVIOUS
<1> DEFINE S == Head(found)
           moved == [t \in Panel |-> IF t \in TabSet THEN AfterScan(shown[t], S) ELSE shown[t]]
<1>1. /\ shown' = moved /\ listed' = S /\ found' = Tail(found) /\ scan_worker' = NoScan
      /\ strayed' = strayed \cup {t \in TabSet : (connected[t] \/ checked[t]) /\ moved[t] # shown[t]}
      /\ unlisted' = unlisted \ TabSet
      /\ UNCHANGED <<connVars, tabVars, current_port_panel, connected, checked, controlVars, scan>>
      /\ found # <<>>
  BY DEF OnScanFinished
<1>2. S \in SUBSET Port /\ Tail(found) \in Seq(SUBSET Port)
  BY <1>1, HeadTailProperties DEF Inv, TypeOK, ScansOK
<1>3. moved \in [Panel -> Port \cup {NoPort}]
  BY <1>2, AfterScanIsName DEF Inv, TypeOK, TabsOK
<1> HIDE DEF S, moved
<1>4. TabsOK' /\ FreshIsQuiet' /\ ControlsFollow'
  BY <1>1, <1>2, <1>3 DEF Inv, TypeOK, TabsOK, TruthInv, FreshIsQuiet, ControlsFollow, tabVars, controlVars, TabSet
<1>5. Kept
  BY <1>1, ConnectionsStay DEF Inv, TruthInv, connVars
<1>6. TabsTrue'
  <2>1. TabSet' = TabSet /\ connected' = connected /\ checked' = checked
    BY <1>1 DEF tabVars, TabSet
  <2>2. \A t \in TabSet' \ strayed' : /\ t \in TabSet \ strayed
                                      /\ connected[t] \/ checked[t] => shown'[t] = shown[t]
    BY <1>1, <2>1
  <2> QED
    BY <1>5, <2>1, <2>2, TabIsTrueMeans DEF Inv, TruthInv, TabsTrue, Kept
<1>7. ConnectionsOK'
  BY <1>1 DEF Inv, TypeOK, ConnectionsOK, connVars
<1>8. ScansOK'
  BY <1>1, <1>2 DEF Inv, TypeOK, ScansOK
<1>9. ScanInv'
  BY <1>1 DEF Inv, ScanInv, ScanReports, UnlistedAreTabs, EveryTabIsListed, tabVars, TabSet, NoScan
<1> QED
  BY <1>4, <1>5, <1>6, <1>7, <1>8, <1>9, TabIsTrueMeans DEF Inv, TypeOK, TruthInv, Kept

-----------------------------------------------------------------------------
(* Tabs *)

\* A new panel says nothing, and a list of ports is on its way to it.
LEMMA AddNewPortTabInv == \A plus \in BOOLEAN : Inv /\ AddNewPortTab(plus) => Inv'
<1> SUFFICES ASSUME Inv, NEW plus \in BOOLEAN, AddNewPortTab(plus) PROVE Inv'
  OBVIOUS
<1>1. /\ made < MaxTabs /\ made' = made + 1 /\ tabs' = Append(tabs, made + 1) /\ current' = made + 1
      /\ UNCHANGED <<connVars, panelVars, listed, crashed, strayed>>
      /\ unlisted' = unlisted \cup {made + 1} /\ ScanPorts
      /\ \/ controls' = connected'[current'] /\ unsynced' = FALSE
         \/ unsynced' = TRUE /\ UNCHANGED controls
  BY DEF AddNewPortTab, OnPortTabAdded, SyncControls, NotSynced
<1>2. made \in Nat /\ MaxTabs \in Nat /\ made + 1 \in Panel /\ tabs \in Seq(Panel) /\ TabSet \subseteq 1..made
  BY <1>1, TabsAssumption DEF Inv, TypeOK, TabsOK, Panel
<1>3. /\ tabs' \in Seq(Panel) /\ DOMAIN tabs' = 1..(Len(tabs) + 1) /\ DOMAIN tabs = 1..Len(tabs)
      /\ Len(tabs) \in Nat /\ tabs'[Len(tabs) + 1] = made + 1 /\ \A i \in 1..Len(tabs) : tabs'[i] = tabs[i]
  BY <1>1, <1>2, AppendProperties, LenProperties
<1>4. TabSet' = TabSet \cup {made + 1}
  <2>1. \A i \in DOMAIN tabs' : tabs'[i] \in TabSet \cup {made + 1}
    BY <1>3 DEF TabSet
  <2>2. \A i \in DOMAIN tabs : \E j \in DOMAIN tabs' : tabs'[j] = tabs[i]
    BY <1>3
  <2>3. \E j \in DOMAIN tabs' : tabs'[j] = made + 1
    BY <1>3
  <2> QED
    BY <2>1, <2>2, <2>3 DEF TabSet
<1>5. TabSet' \subseteq 1..made' /\ current' \in TabSet' /\ made' \in Panel
  BY <1>1, <1>2, <1>4
<1>6. controls' \in BOOLEAN
  BY <1>1, <1>2 DEF Inv, TypeOK, TabsOK, panelVars
<1>7. TabsOK'
  BY <1>1, <1>3, <1>5, <1>6 DEF Inv, TypeOK, TabsOK, panelVars
<1>8. FreshIsQuiet' /\ ControlsFollow' /\ ~connected'[made + 1] /\ ~checked'[made + 1]
  BY <1>1, <1>2 DEF Inv, TruthInv, FreshIsQuiet, ControlsFollow, panelVars, Panel
<1>9. Kept
  BY <1>1, ConnectionsStay DEF Inv, TruthInv, connVars
<1>10. TabsTrue'
  BY <1>1, <1>4, <1>8, <1>9, TabIsTrueMeans DEF Inv, TruthInv, TabsTrue, Kept, panelVars
<1>11. ConnectionsOK'
  BY <1>1 DEF Inv, TypeOK, ConnectionsOK, connVars
<1>12. ScansOK' /\ ScanInv'
  BY <1>1, <1>4, ScanAsked DEF Inv, ScanInv, UnlistedAreTabs, EveryTabIsListed
<1> QED
  BY <1>7, <1>8, <1>9, <1>10, <1>11, <1>12, TabIsTrueMeans DEF Inv, TypeOK, TruthInv, Kept

LEMMA CloseTabInv == \A i \in DOMAIN tabs : Inv /\ CloseTab(i) => Inv'
<1> SUFFICES ASSUME Inv, NEW i \in DOMAIN tabs, CloseTab(i) PROVE Inv'
  OBVIOUS
<1>1. /\ Len(tabs) > 1 /\ tabs' = RemoveAt(tabs, i) /\ current' = tabs'[IF i = 1 THEN 1 ELSE i - 1]
      /\ unlisted' = unlisted \ {tabs[i]} /\ unsynced' = TRUE /\ UNCHANGED controls
      /\ UNCHANGED <<connVars, made, current_port_panel, panelVars, listed, scanVars, crashed, strayed>>
  BY DEF CloseTab, NotSynced
<1>2. tabs \in Seq(Panel) /\ DOMAIN tabs = 1..Len(tabs) /\ Len(tabs) \in Nat
  BY LenProperties DEF Inv, TypeOK, TabsOK
<1> DEFINE T2 == {tabs'[j] : j \in DOMAIN tabs'}
<1>3. /\ tabs' \in Seq(Panel) /\ DOMAIN tabs' = 1..(Len(tabs) - 1)
      /\ T2 \subseteq TabSet /\ TabSet \ {tabs[i]} \subseteq T2
  <2> PICK s2 : s2 = tabs'
    OBVIOUS
  <2>1. s2 = RemoveAt(tabs, i)
    BY <1>1
  <2>2. /\ s2 \in Seq(Panel) /\ DOMAIN s2 = 1..(Len(tabs) - 1)
        /\ Items(s2) \subseteq Items(tabs) /\ Items(tabs) \ {tabs[i]} \subseteq Items(s2)
    BY <1>2, <2>1, TabsRemoved
  <2> QED
    BY <2>2 DEF TabSet, Items
<1>4. TabSet' = T2
  BY DEF TabSet
<1> HIDE DEF T2
<1>5. current' \in TabSet'
  BY <1>1, <1>2, <1>3 DEF TabSet
<1>6. TabsOK' /\ FreshIsQuiet' /\ ControlsFollow'
  BY <1>1, <1>3, <1>4, <1>5 DEF Inv, TypeOK, TabsOK, TruthInv, FreshIsQuiet, ControlsFollow, panelVars
<1>7. Kept
  BY <1>1, ConnectionsStay DEF Inv, TruthInv, connVars
<1>8. TabsTrue'
  BY <1>1, <1>3, <1>4, <1>7, TabIsTrueMeans DEF Inv, TruthInv, TabsTrue, Kept, panelVars
<1>9. ConnectionsOK'
  BY <1>1 DEF Inv, TypeOK, ConnectionsOK, connVars
<1>10. ScansOK' /\ ScanInv'
  BY <1>1, <1>3, <1>4 DEF Inv, TypeOK, ScansOK, ScanInv, ScanReports, UnlistedAreTabs, EveryTabIsListed, scanVars
<1> QED
  BY <1>6, <1>7, <1>8, <1>9, <1>10, TabIsTrueMeans DEF Inv, TypeOK, TruthInv, Kept

LEMMA ClickTabInv == \A i \in DOMAIN tabs : Inv /\ ClickTab(i) => Inv'
<1> SUFFICES ASSUME Inv, NEW i \in DOMAIN tabs, ClickTab(i) PROVE Inv'
  OBVIOUS
<1>1. /\ current' = tabs[i] /\ controls' = connected'[current'] /\ unsynced' = FALSE
      /\ UNCHANGED <<connVars, tabs, made, panelVars, listed, scanVars, crashed, strayed, unlisted>>
  BY DEF ClickTab, SyncControls
<1>2. tabs[i] \in TabSet /\ tabs[i] \in Panel
  BY ElementOfSeq DEF Inv, TypeOK, TabsOK, TabSet
<1>3. TabsOK' /\ FreshIsQuiet' /\ ControlsFollow'
  BY <1>1, <1>2 DEF Inv, TypeOK, TabsOK, TruthInv, FreshIsQuiet, ControlsFollow, panelVars, TabSet
<1>4. Kept
  BY <1>1, ConnectionsStay DEF Inv, TruthInv, connVars
<1>5. TabsTrue'
  BY <1>1, <1>4, TabIsTrueMeans DEF Inv, TruthInv, TabsTrue, Kept, panelVars, TabSet
<1>6. ConnectionsOK' /\ ScansOK' /\ ScanInv'
  BY <1>1, ScansStay DEF Inv, TypeOK, ConnectionsOK, connVars
<1> QED
  BY <1>3, <1>4, <1>5, <1>6, TabIsTrueMeans DEF Inv, TypeOK, TruthInv, Kept

LEMMA UpdateCurrentPortPanelInv == Inv /\ UpdateCurrentPortPanel => Inv'
<1> SUFFICES ASSUME Inv, UpdateCurrentPortPanel PROVE Inv'
  OBVIOUS
<1>1. Kept
  BY ConnectionsStay DEF Inv, TruthInv, UpdateCurrentPortPanel, connVars
<1>2. TabsOK' /\ TruthInv' /\ ControlsFollow' /\ ScansOK' /\ ScanInv'
  BY <1>1, TabsStay, ScansStay DEF UpdateCurrentPortPanel, tabVars
<1>3. ConnectionsOK'
  BY DEF Inv, TypeOK, ConnectionsOK, UpdateCurrentPortPanel, connVars
<1> QED
  BY <1>2, <1>3 DEF Inv, TypeOK

\* A tab that is not connected gets another name: what it said of the old one is noted.
LEMMA SelectPortInv == \A p \in Port : Inv /\ SelectPort(p) => Inv'
<1> SUFFICES ASSUME Inv, NEW p \in Port, SelectPort(p) PROVE Inv'
  OBVIOUS
<1>1. /\ ~connected[current] /\ shown' = [shown EXCEPT ![current] = p]
      /\ strayed' = IF checked[current] THEN strayed \cup {current} ELSE strayed
      /\ UNCHANGED <<connVars, tabVars, current_port_panel, connected, checked, controlVars, listed, scanVars,
                     crashed, unlisted>>
  BY DEF SelectPort
<1>2. /\ shown' \in [Panel -> Port \cup {NoPort}]
      /\ \A t \in Panel : t # current => shown'[t] = shown[t]
  BY <1>1 DEF Inv, TypeOK, TabsOK
<1>3. TabsOK' /\ FreshIsQuiet' /\ ControlsFollow'
  BY <1>1, <1>2 DEF Inv, TypeOK, TabsOK, TruthInv, FreshIsQuiet, ControlsFollow, tabVars, controlVars, TabSet
<1>4. Kept
  BY <1>1, ConnectionsStay DEF Inv, TruthInv, connVars
<1>5. TabSet \subseteq Panel /\ TabSet' = TabSet
  BY <1>1, TabsAssumption DEF Inv, TypeOK, TabsOK, TabSet, Panel, tabVars
<1>6. TabsTrue'
  BY <1>1, <1>2, <1>4, <1>5, TabIsTrueMeans DEF Inv, TruthInv, TabsTrue, Kept
<1>7. ConnectionsOK' /\ ScansOK' /\ ScanInv'
  BY <1>1, ScansStay DEF Inv, TypeOK, ConnectionsOK, connVars, tabVars
<1> QED
  BY <1>3, <1>4, <1>6, <1>7, TabIsTrueMeans DEF Inv, TypeOK, TruthInv, Kept

-----------------------------------------------------------------------------
(* Connections *)

\* What set_connected does to the first tab of a name, and to nothing else.
LEMMA MarkedTabs ==
    ASSUME Inv, NEW p, NEW b \in BOOLEAN, NEW f \in [Panel -> BOOLEAN],
           \A t \in Panel : t > made => ~f[t],
           connected' = Mark(connected, p, b), checked' = Mark(f, p, b),
           ConnectionChanged(TabOf(p), b), UNCHANGED RestOfTabs
    PROVE  /\ TabsOK' /\ FreshIsQuiet' /\ ControlsFollow'
           /\ TabSet' = TabSet /\ TabOf(p) \subseteq {t \in TabSet : shown[t] = p}
           /\ \A t \in TabSet : IF t \in TabOf(p) THEN connected'[t] = b /\ checked'[t] = b
                                                  ELSE connected'[t] = connected[t] /\ checked'[t] = f[t]
<1>1. /\ UNCHANGED <<tabs, current, made, shown, listed>> /\ TabSet' = TabSet
      /\ TabOf(p) \subseteq {t \in TabSet : shown[t] = p}
  BY DEF RestOfTabs, tabVars, TabSet, TabOf
<1>2. /\ TabSet \subseteq Panel /\ TabSet \subseteq 1..made /\ made \in Nat
      /\ connected \in [Panel -> BOOLEAN]
  BY TabsAssumption DEF Inv, TypeOK, TabsOK, Panel
<1>3. /\ connected' \in [Panel -> BOOLEAN] /\ checked' \in [Panel -> BOOLEAN]
      /\ \A t \in Panel : IF t \in TabOf(p) THEN connected'[t] = b /\ checked'[t] = b
                                            ELSE connected'[t] = connected[t] /\ checked'[t] = f[t]
  BY <1>2 DEF Mark
<1>4. FreshIsQuiet'
  BY <1>1, <1>2, <1>3 DEF Inv, TruthInv, FreshIsQuiet, Panel
<1>5. ControlsFollow' /\ controls' \in BOOLEAN
  <2>1. current \in Panel /\ current' = current /\ controls \in BOOLEAN
    BY <1>1, <1>2 DEF Inv, TypeOK, TabsOK
  <2>2. CASE TabOf(p) = {}
    BY <1>3, <2>1, <2>2 DEF Inv, ControlsFollow, ConnectionChanged, controlVars
  <2>3. CASE TabOf(p) # {}
    BY <1>3, <2>1, <2>3 DEF ControlsFollow, ConnectionChanged, SyncControls
  <2> QED
    BY <2>2, <2>3
<1>6. TabsOK'
  BY <1>1, <1>3, <1>5 DEF Inv, TypeOK, TabsOK
<1> QED
  BY <1>1, <1>2, <1>3, <1>4, <1>5, <1>6

LEMMA ClickConnectInv == Inv /\ ClickConnect => Inv'
<1> SUFFICES ASSUME Inv, ClickConnect PROVE Inv'
  OBVIOUS
<1> PICK p : p = shown[current]
  OBVIOUS
<1>1. /\ p \in Port /\ OpenConnection(p) /\ checked' = [checked EXCEPT ![current] = TRUE]
      /\ UNCHANGED <<connected, strayed, current_port_panel, controlVars, RestOfTabs>>
      /\ current \in Panel
  BY TabsAssumption DEF ClickConnect, Press, Inv, TypeOK, TabsOK, Panel
<1>2. ConnectionsOK' /\ Kept /\ Attempt(p)'
  BY <1>1, OpeningKeeps DEF Inv, TruthInv
<1>3. /\ checked' \in [Panel -> BOOLEAN] /\ \A t \in Panel : t # current => checked'[t] = checked[t]
  BY <1>1 DEF Inv, TypeOK, TabsOK
<1>4. /\ TabSet \subseteq Panel /\ TabSet' = TabSet /\ current \in TabSet /\ current <= made /\ made \in Nat
      /\ TabSet \subseteq Nat
  BY <1>1, TabsAssumption DEF Inv, TypeOK, TabsOK, TabSet, Panel, RestOfTabs, tabVars
<1>5. TabsOK' /\ FreshIsQuiet' /\ ControlsFollow'
  BY <1>1, <1>3, <1>4 DEF Inv, TypeOK, TabsOK, TruthInv, FreshIsQuiet, ControlsFollow, RestOfTabs, tabVars,
                          controlVars, Panel
<1>6. TabsTrue'
  BY <1>1, <1>2, <1>3, <1>4, TabIsTrueMeans DEF Inv, TruthInv, TabsTrue, Kept, RestOfTabs
<1>7. ScansOK' /\ ScanInv'
  BY <1>1, ScansStay DEF RestOfTabs, tabVars
<1> QED
  BY <1>2, <1>5, <1>6, <1>7, TabIsTrueMeans DEF Inv, TypeOK, TruthInv, Kept

LEMMA ClickRefusedInv == Inv /\ ClickRefused => Inv'
<1> SUFFICES ASSUME Inv, ClickRefused PROVE Inv'
  OBVIOUS
<1> PICK p, f : p = shown[current] /\ f = Press(current)
  OBVIOUS
<1> PICK b \in BOOLEAN : b = FALSE
  OBVIOUS
<1>1. /\ connected' = Mark(connected, p, b) /\ checked' = Mark(f, p, b)
      /\ strayed' = {t \in strayed \cup Unheard(p) : connected'[t] \/ checked'[t]}
      /\ UNCHANGED <<connVars, current_port_panel, RestOfTabs>>
      /\ ConnectionChanged(TabOf(p), b)
  BY DEF ClickRefused, Stray
<1>2. /\ current \in TabSet /\ current \in Panel /\ current <= made /\ made \in Nat /\ Panel \subseteq Nat
  BY TabsAssumption DEF Inv, TypeOK, TabsOK, Panel
<1>3. /\ f \in [Panel -> BOOLEAN]
      /\ \A t \in Panel : t # current => f[t] = checked[t]
  BY DEF Press, Inv, TypeOK, TabsOK
<1>4. \A t \in Panel : t > made => ~f[t]
  BY <1>2, <1>3 DEF Inv, TruthInv, FreshIsQuiet
<1>5. /\ TabsOK' /\ FreshIsQuiet' /\ ControlsFollow'
      /\ TabSet' = TabSet /\ TabOf(p) \subseteq {t \in TabSet : shown[t] = p}
      /\ \A t \in TabSet : IF t \in TabOf(p) THEN connected'[t] = b /\ checked'[t] = b
                                             ELSE connected'[t] = connected[t] /\ checked'[t] = f[t]
  BY <1>1, <1>3, <1>4, MarkedTabs
<1>6. Kept
  BY <1>1, ConnectionsStay DEF Inv, TruthInv, connVars
<1>7. ASSUME NEW t \in TabSet' \ strayed', connected'[t] \/ checked'[t]
      PROVE  /\ t \in TabSet \ strayed /\ shown'[t] = shown[t]
             /\ connected'[t] = connected[t] /\ checked'[t] = checked[t]
  <2>1. t \in TabSet /\ t \notin strayed /\ t \notin Unheard(p) /\ t \notin TabOf(p)
    BY <1>1, <1>5, <1>7
  <2>2. shown[t] # p /\ t # current /\ t \in Panel
    BY <2>1 DEF Unheard, Inv, TypeOK, TabsOK, TabSet
  <2> QED
    BY <1>1, <1>3, <1>5, <2>1, <2>2 DEF RestOfTabs
<1>8. TabsTrue'
  BY <1>6, <1>7, TabIsTrueMeans DEF Inv, TruthInv, TabsTrue, Kept
<1>9. ConnectionsOK' /\ ScansOK' /\ ScanInv'
  BY <1>1, ScansStay DEF Inv, TypeOK, ConnectionsOK, connVars, RestOfTabs, tabVars
<1> QED
  BY <1>5, <1>6, <1>8, <1>9, TabIsTrueMeans DEF Inv, TypeOK, TruthInv, Kept

LEMMA ClickDisconnectInv == Inv /\ ClickDisconnect => Inv'
<1> SUFFICES ASSUME Inv, ClickDisconnect PROVE Inv'
  OBVIOUS
<1>1. /\ CloseConnection(shown[current]) /\ checked' = [checked EXCEPT ![current] = FALSE]
      /\ UNCHANGED <<connected, strayed, current_port_panel, controlVars, RestOfTabs>>
  BY DEF ClickDisconnect
<1>2. ConnectionsOK' /\ Kept
  BY <1>1, ClosingKeeps DEF Inv, TruthInv
<1>3. /\ checked' \in [Panel -> BOOLEAN] /\ \A t \in Panel : checked'[t] => checked[t]
  BY <1>1 DEF Inv, TypeOK, TabsOK
<1>4. TabSet \subseteq Panel /\ TabSet' = TabSet
  BY <1>1, TabsAssumption DEF Inv, TypeOK, TabsOK, TabSet, Panel, RestOfTabs, tabVars
<1>5. TabsOK' /\ FreshIsQuiet' /\ ControlsFollow'
  BY <1>1, <1>3, <1>4 DEF Inv, TypeOK, TabsOK, TruthInv, FreshIsQuiet, ControlsFollow, RestOfTabs, tabVars,
                          controlVars
<1>6. TabsTrue'
  BY <1>1, <1>2, <1>3, <1>4, TabIsTrueMeans DEF Inv, TruthInv, TabsTrue, Kept, RestOfTabs
<1>7. ScansOK' /\ ScanInv'
  BY <1>1, ScansStay DEF RestOfTabs, tabVars
<1> QED
  BY <1>2, <1>5, <1>6, <1>7, TabIsTrueMeans DEF Inv, TypeOK, TruthInv, Kept

\* The shortcuts: the tabs stay as they are.
LEMMA ShortcutsInv == Inv /\ (ConnectCurrentPort \/ DisconnectCurrentPort) => Inv'
<1> SUFFICES ASSUME Inv, ConnectCurrentPort \/ DisconnectCurrentPort PROVE Inv'
  OBVIOUS
<1>1. UNCHANGED <<connected, checked, strayed, controlVars, RestOfTabs>>
  BY DEF ConnectCurrentPort, DisconnectCurrentPort
<1>2. ConnectionsOK' /\ Kept
  <2>1. CASE ConnectCurrentPort
    <3>1. shown[current] \in Port
      BY <2>1, TabsAssumption DEF ConnectCurrentPort, Inv, TypeOK, TabsOK, Panel
    <3> QED
      BY <2>1, <3>1, OpeningKeeps DEF ConnectCurrentPort, Inv, TruthInv
  <2>2. CASE DisconnectCurrentPort
    BY <2>2, ClosingKeeps DEF DisconnectCurrentPort, Inv, TruthInv
  <2> QED
    BY <2>1, <2>2
<1>3. TabsOK' /\ TruthInv' /\ ControlsFollow' /\ ScansOK' /\ ScanInv'
  BY <1>1, <1>2, TabsStay, ScansStay DEF RestOfTabs, tabVars, panelVars
<1> QED
  BY <1>2, <1>3 DEF Inv, TypeOK

\* A signal is shown by the first tab of the name, and noted for those behind it.
LEMMA ShownSignal ==
    ASSUME Inv, NEW kind \in Kind, Heard(kind), Show(kind = "opened")
    PROVE  /\ TabsOK' /\ TruthInv' /\ ControlsFollow' /\ ScansOK' /\ ScanInv'
           /\ events' \in Seq(Kind \X Workers) /\ UNCHANGED <<port, phase>>
<1> PICK p : p = HeardPort
  OBVIOUS
<1> DEFINE b == kind = "opened"
<1>0. b \in BOOLEAN /\ (b => events[1][1] = "opened")
  BY DEF Heard
<1>1. /\ connected' = Mark(connected, p, b) /\ checked' = Mark(checked, p, b)
      /\ ConnectionChanged(TabOf(p), b)
      /\ strayed' = {t \in strayed \cup {u \in Unheard(p) : b => ~connected[u]} : connected'[t] \/ checked'[t]}
  BY DEF Show, Stray
<1> HIDE DEF b
<1>2. /\ events # <<>> /\ events' = Tail(events)
      /\ UNCHANGED <<port, phase, flag, waiting, current_port_panel, RestOfTabs>>
  BY DEF Heard
<1>3. checked \in [Panel -> BOOLEAN] /\ \A t \in Panel : t > made => ~checked[t]
  BY DEF Inv, TypeOK, TabsOK, TruthInv, FreshIsQuiet
<1>4. /\ TabsOK' /\ FreshIsQuiet' /\ ControlsFollow'
      /\ TabSet' = TabSet /\ TabOf(p) \subseteq {t \in TabSet : shown[t] = p}
      /\ \A t \in TabSet : IF t \in TabOf(p) THEN connected'[t] = b /\ checked'[t] = b
                                             ELSE connected'[t] = connected[t] /\ checked'[t] = checked[t]
  BY <1>0, <1>1, <1>2, <1>3, MarkedTabs
<1>5. /\ EventsOfStarted' /\ OpenedIsFollowed' /\ events' \in Seq(Kind \X Workers)
      /\ \A q : q # p => (Backed(q) => Backed(q)') /\ (Attempt(q) => Attempt(q)')
      /\ b => Backed(p)' /\ \A q : Backed(q) => Backed(q)'
  BY <1>0, <1>2, ServingKeeps DEF Inv, TruthInv
<1>6. ASSUME NEW t \in TabSet' \ strayed', connected'[t] \/ checked'[t]
      PROVE  \E q : /\ q = shown[t]
                    /\ connected'[t] => Backed(q)'
                    /\ checked'[t] /\ ~connected'[t] => Attempt(q)'
  <2>0. t \in TabSet /\ t \notin strayed /\ (t \in Unheard(p) => b /\ connected[t])
    BY <1>1, <1>4, <1>6
  <2> PICK q : q = shown[t]
    OBVIOUS
  <2>1. CASE t \in TabOf(p)
    BY <1>4, <1>5, <1>6, <2>0, <2>1
  <2>2. CASE t \notin TabOf(p) /\ shown[t] = p
    BY <1>4, <1>5, <2>0, <2>2, TabIsTrueMeans DEF Unheard, Inv, TruthInv, TabsTrue
  <2>3. CASE t \notin TabOf(p) /\ shown[t] # p
    BY <1>4, <1>5, <2>0, <2>3, TabIsTrueMeans DEF Inv, TruthInv, TabsTrue
  <2> QED
    BY <2>1, <2>2, <2>3
<1>7. TabsTrue'
  BY <1>2, <1>6 DEF TabsTrue, RestOfTabs, Backed, Attempt
<1>8. ScansOK' /\ ScanInv'
  BY <1>2, ScansStay DEF RestOfTabs, tabVars
<1> QED
  BY <1>2, <1>4, <1>5, <1>7, <1>8, TabIsTrueMeans DEF TruthInv

LEMMA ServeConnectionInv == Inv /\ ServeConnection => Inv'
<1> SUFFICES ASSUME Inv, ServeConnection PROVE Inv'
  OBVIOUS
<1>1. /\ TabsOK' /\ TruthInv' /\ ControlsFollow' /\ ScansOK' /\ ScanInv'
      /\ events' \in Seq(Kind \X Workers) /\ UNCHANGED <<port, phase>>
  BY ShownSignal DEF ServeConnection, OnConnectionOpened, OnConnectionClosed, OnError, Kind
<1>2. workers' \in [Port -> Workers \cup {NoWorker}]
  BY DEF ServeConnection, OnConnectionOpened, OnConnectionClosed, OnError, Inv, TypeOK, ConnectionsOK
<1> QED
  BY <1>1, <1>2 DEF Inv, TypeOK, ConnectionsOK

LEMMA WaitReturnsInv == Inv /\ WaitReturns => Inv'
<1> SUFFICES ASSUME Inv, WaitReturns PROVE Inv'
  OBVIOUS
<1>1. Kept
  BY ConnectionsStay DEF Inv, TruthInv, WaitReturns
<1>2. TabsOK' /\ TruthInv' /\ ControlsFollow' /\ ScansOK' /\ ScanInv'
  BY <1>1, TabsStay, ScansStay DEF WaitReturns, TabsFrame, tabVars
<1>3. ConnectionsOK'
  BY DEF Inv, TypeOK, ConnectionsOK, WaitReturns
<1> QED
  BY <1>2, <1>3 DEF Inv, TypeOK

LEMMA ThreadInv == \A w \in Workers : Inv /\ (ThreadProgress(w) \/ IoError(w)) => Inv'
<1> SUFFICES ASSUME Inv, NEW w \in Workers, ThreadProgress(w) \/ IoError(w) PROVE Inv'
  OBVIOUS
<1>1. PICK to \in {"open", "broken", "ended"}, kind \in Kind, running \in {TRUE, flag[w]} :
         /\ ThreadStep(w, to, running, <<<<kind, w>>>>) /\ phase[w] # "unused"
         /\ kind = "opened" <=> to = "open"
  BY DEF ThreadProgress, Opens, OpenFails, Closes, IoError, Kind
<1>2. ConnectionsOK' /\ Kept
  BY <1>1, ThreadKeeps DEF Inv, TruthInv
<1>3. UNCHANGED TabsFrame
  BY <1>1 DEF ThreadStep
<1>4. TabsOK' /\ TruthInv' /\ ControlsFollow' /\ ScansOK' /\ ScanInv'
  BY <1>2, <1>3, TabsStay, ScansStay DEF TabsFrame, tabVars
<1> QED
  BY <1>2, <1>4 DEF Inv, TypeOK

LEMMA StutterInv == Inv /\ UNCHANGED vars => Inv'
<1> SUFFICES ASSUME Inv, UNCHANGED vars PROVE Inv'
  OBVIOUS
<1>1. Kept
  BY ConnectionsStay DEF Inv, TruthInv, vars, connVars
<1>2. TabsOK' /\ TruthInv' /\ ControlsFollow' /\ ScansOK' /\ ScanInv'
  BY <1>1, TabsStay, ScansStay DEF vars, tabVars
<1>3. ConnectionsOK'
  BY DEF Inv, TypeOK, ConnectionsOK, vars, connVars
<1> QED
  BY <1>2, <1>3 DEF Inv, TypeOK

LEMMA NextInv == Inv /\ [Next]_vars => Inv'
<1> SUFFICES ASSUME Inv, [Next]_vars PROVE Inv'
  OBVIOUS
<1>1. CASE RequestScan \/ OnScanFinished \/ \E s \in Scans : ListPorts(s) \/ ScanEnds(s)
  BY <1>1, RequestScanInv, OnScanFinishedInv, ListPortsInv, ScanEndsInv
<1>2. CASE \E plus \in BOOLEAN : AddNewPortTab(plus)
  BY <1>2, AddNewPortTabInv
<1>3. CASE CloseCurrentTab \/ \E i \in DOMAIN tabs : CloseTab(i) \/ ClickTab(i)
  BY <1>3, CloseTabInv, ClickTabInv DEF CloseCurrentTab
<1>4. CASE UpdateCurrentPortPanel \/ \E p \in Port : SelectPort(p)
  BY <1>4, UpdateCurrentPortPanelInv, SelectPortInv
<1>5. CASE ClickButton \/ OpenCurrentPort \/ CloseCurrentPort
  BY <1>5, ClickConnectInv, ClickRefusedInv, ClickDisconnectInv DEF ClickButton, OpenCurrentPort, CloseCurrentPort
<1>6. CASE ConnectCurrentPort \/ DisconnectCurrentPort \/ ServeConnection \/ WaitReturns
  BY <1>6, ShortcutsInv, ServeConnectionInv, WaitReturnsInv
<1>7. CASE \E w \in Workers : ThreadProgress(w) \/ (~crashed /\ IoError(w))
  BY <1>7, ThreadInv
<1> QED
  BY <1>1, <1>2, <1>3, <1>4, <1>5, <1>6, <1>7, StutterInv DEF Next

-----------------------------------------------------------------------------
(* Theorems *)

LEMMA InvAlways == Spec => []Inv
  BY InitInv, NextInv, PTL DEF Spec

\* Panels, scans, workers and signals have their types: a panel is made before it is a tab,
\* the tab in front is one of the tabs, and a combo box shows a port or nothing
\* (port_presenter.py, port_tab_panel.py, port_settings.py).
THEOREM TabsAlwaysTyped == Spec => []TypeOK
  BY InvAlways, PTL DEF Inv

\* What a tab says of its port is true: one that is connected has a thread at work on its port
\* or the end of one still to be served, and one whose button is down while it is not connected
\* has an attempt under way, unless its name was changed meanwhile or a tab in front of it took
\* the event (port_presenter.py, port_settings.py).
THEOREM TabsAlwaysTrue == Spec => []TabIsTrue
<1>1. Inv => TabIsTrue
  BY DEF Inv, TruthInv
<1> QED
  BY <1>1, InvAlways, PTL

\* The controls of manual sends are enabled exactly when the tab in front is connected, until
\* that tab is changed without a signal (main_left_section.py:368).
THEOREM ControlsAlwaysFollow == Spec => []ControlsFollow
  BY InvAlways, PTL DEF Inv

\* A list of ports is on its way to every tab that no scan has reached, also when the tab was
\* added while a scan was under way (port_presenter.py:188).
THEOREM TabsAlwaysListed == Spec => []EveryTabIsListed
<1>1. Inv => EveryTabIsListed
  BY DEF Inv, ScanInv
<1> QED
  BY <1>1, InvAlways, PTL

=============================================================================
