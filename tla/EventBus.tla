------------------------------ MODULE EventBus ------------------------------
(***************************************************************************)
(* The event bus (core/event_bus.py) with the subscriptions of the program *)
(* (presenter/event_router.py, model/macro_runner.py). publish() emits a   *)
(* signal: on the GUI thread its slot runs at once, inside the handler     *)
(* that publishes; from another thread it waits in the GUI event queue.    *)
(*                                                                         *)
(* The subscribers of a topic are called one after the other, and one that *)
(* raises does not keep the event from the next.                           *)
(***************************************************************************)
EXTENDS Integers, FiniteSets, SequencesExt

VARIABLES
    pending, \* events published on other threads, in the GUI event queue
    frames,  \* dispatches in progress, innermost first: the event and the callbacks left
    seen,    \* callback -> events it was called with
    events   \* history: the events dispatched, numbered by their place

busVars == <<pending, frames, seen, events>>

RouterTopic == {"port.opened", "port.closed", "port.error", "port.data_received",
                "port.data_sent", "port.packet_received", "macro.started", "macro.finished",
                "macro.error", "file.progress", "file.completed", "file.error",
                "system.settings_changed"}

Callback == {"runner", "router"}

-----------------------------------------------------------------------------
(* Subscriptions *)

Subscribe(subscribers, topic, callback) ==
    [subscribers EXCEPT ![topic] = IF Contains(@, callback) THEN @ ELSE Append(@, callback)]

\* The runner is made before the router, which subscribes to every topic.
RunnerSubscribed == Subscribe([t \in RouterTopic |-> <<>>], "port.data_received", "runner")
SubscribeEvents(subscribers) ==
    [t \in RouterTopic |-> Subscribe(subscribers, t, "router")[t]]

\* The callbacks of a topic. No topic the program subscribes to has a wildcard.
Due(topic) == SubscribeEvents(RunnerSubscribed)[topic]

-----------------------------------------------------------------------------
(* Dispatch *)

BusInit == pending = <<>> /\ frames = <<>> /\ seen = [c \in Callback |-> <<>>] /\ events = <<>>

\* No handler runs: the GUI thread can serve its event queue.
Idle == frames = <<>>

\* Dispatches of the events es, the first one first, before what is in progress goes on.
Dispatches(es) == [i \in 1..Len(es) |-> [id |-> Len(events) + i, event |-> es[i],
                                         left |-> Due(es[i].topic)]]

\* publish() on the GUI thread, once or several times in a row.
PublishHere(es) == /\ frames' = Dispatches(es) \o frames
                   /\ events' = events \o es

\* publish() on another thread.
PublishThere(e) == pending' = Append(pending, e)

\* The GUI thread takes the next signal from its queue.
DispatchEvent == /\ Idle /\ pending # <<>>
                 /\ PublishHere(<<Head(pending)>>)
                 /\ pending' = Tail(pending)
                 /\ UNCHANGED seen

\* _notify_subscribers: the innermost dispatch calls its next callback, which publishes es itself;
\* whether it returns or raises, the callbacks after it are called.
DropsTheRest(top, raises) == IF raises THEN <<>> ELSE Tail(top.left)      \* mutant: the error ends the loop
LeftAfter(top, raises) == Tail(top.left)

CallNext(es, raises) ==
    /\ frames # <<>> /\ Head(frames).left # <<>>
    /\ LET top == Head(frames)
           rest == <<[top EXCEPT !.left = LeftAfter(top, raises)]>> \o Tail(frames)
       IN /\ seen' = [seen EXCEPT ![Head(top.left)] = Append(@, top.id)]
          /\ frames' = Dispatches(es) \o rest
          /\ events' = events \o es

DispatchEnds == /\ frames # <<>> /\ Head(frames).left = <<>>
                /\ frames' = Tail(frames)
                /\ UNCHANGED <<pending, seen, events>>

-----------------------------------------------------------------------------
(* Properties *)

\* EventBus: once no dispatch is in progress, every event has reached every subscriber of its topic
\* exactly once, whatever the subscribers raised or published, and no one else.
EventsReachAll ==
    Idle => \A c \in Callback, i \in 1..Len(events) :
               Cardinality({k \in 1..Len(seen[c]) : seen[c][k] = i}) =
               (IF Contains(Due(events[i].topic), c) THEN 1 ELSE 0)
=============================================================================
