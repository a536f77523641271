------------------------------ MODULE EventBus ------------------------------
(***************************************************************************)
(* The event bus of the daemon, daemon/src/core/event_bus.h, on top of the *)
(* pool: publish() takes a snapshot of the handlers of the event's type    *)
(* under the mutex of the bus and enqueues one job that calls them in      *)
(* order.  The handlers are those of the daemon's components; they may     *)
(* publish further events (event_bindings.cpp does) and may throw.         *)
(***************************************************************************)
EXTENDS ThreadPool, SequencesExt

CONSTANTS
    Types,      \* the event types
    Handlers    \* the handlers that are subscribed, each once and to one type

VARIABLES
    subscribers,    \* EventBus::subscribers
    event,          \* the type and the handlers captured by each job
    rest,           \* the handlers a worker still has to call, the one it is in first
    inside,         \* the workers that are inside a handler
    ran,            \* history: the handlers each job has called and that returned
    threw           \* history: the jobs a handler has ended by throwing

busVars == <<subscribers, event, rest, inside, ran, threw>>
allVars == <<vars, busVars>>

Subscribed == UNION {Elements(subscribers[y]) : y \in Types}
NoEvent == [type |-> CHOOSE y \in Types : TRUE, handlers |-> <<>>]

\* Where a subscription goes in the list of its type.
AppendHandler(y, h) == Append(subscribers[y], h)

\* subscribe(), called while the system is built.
Subscribe(y, h) ==
    /\ h \notin Subscribed
    /\ subscribers' = [subscribers EXCEPT ![y] = AppendHandler(y, h)]
    /\ UNCHANGED <<vars, event, rest, inside, ran, threw>>

\* publish(): the early return when the type has no subscriber leaves no trace.
Publish(t, y) ==
    /\ t \in Workers => t \in inside
    /\ subscribers[y] # <<>>
    /\ Enqueue(t)
    /\ event' = [event EXCEPT ![next] = [type |-> y, handlers |-> subscribers[y]]]
    /\ UNCHANGED <<subscribers, rest, inside, ran, threw>>

\* The handlers a job calls: those captured, not those subscribed by now.
HandlersNow(j) == subscribers[event[j].type]
HandlersOf(j) == event[j].handlers

BusTake(w) ==
    /\ Take(w)
    /\ rest' = [rest EXCEPT ![w] = HandlersOf(Head(tasks))]
    /\ UNCHANGED <<subscribers, event, inside, ran, threw>>

\* handler(&event_copy): the call, its return and its throwing.
HandlerCall(w) ==
    /\ wpc[w] = "run" /\ w \notin inside /\ rest[w] # <<>>
    /\ inside' = inside \cup {w}
    /\ UNCHANGED <<vars, subscribers, event, rest, ran, threw>>

HandlerReturn(w) ==
    /\ w \in inside /\ epc[w] = "idle"
    /\ inside' = inside \ {w}
    /\ ran' = [ran EXCEPT ![job[w]] = Append(@, Head(rest[w]))]
    /\ rest' = [rest EXCEPT ![w] = Tail(@)]
    /\ UNCHANGED <<vars, subscribers, event, threw>>

\* The exception leaves the loop over the handlers; worker_loop() logs it.
HandlerThrow(w) ==
    /\ w \in inside /\ epc[w] = "idle"
    /\ inside' = inside \ {w}
    /\ threw' = threw \cup {job[w]}
    /\ rest' = [rest EXCEPT ![w] = <<>>]
    /\ UNCHANGED <<vars, subscribers, event, ran>>

\* The loop over the handlers has ended.
LoopEnded(w) == rest[w] = <<>> /\ w \notin inside

BusFinish(w) ==
    /\ LoopEnded(w)
    /\ Finish(w)
    /\ UNCHANGED busVars

\* The steps of the pool the bus has no part in.
PoolStep(t) == EnqueueStep(t) /\ UNCHANGED busVars
PoolWorkerStep(w) == (Sleep(w) \/ WakeNotified(w) \/ Exit(w)) /\ UNCHANGED busVars
BusWorkerStep(w) == BusTake(w) \/ HandlerCall(w) \/ HandlerReturn(w) \/ BusFinish(w)

BusInit ==
    /\ Init
    /\ subscribers = [y \in Types |-> <<>>]
    /\ event = [j \in Jobs |-> NoEvent]
    /\ rest = [w \in Workers |-> <<>>]
    /\ inside = {}
    /\ ran = [j \in Jobs |-> <<>>]
    /\ threw = {}

BusNext ==
    \/ \E y \in Types, h \in Handlers : Subscribe(y, h)
    \/ \E t \in Threads, y \in Types : Publish(t, y)
    \/ \E t \in Threads : PoolStep(t)
    \/ \E w \in Workers : PoolWorkerStep(w) \/ BusWorkerStep(w) \/ HandlerThrow(w)
    \/ \E w \in Workers : WakeSpurious(w) /\ UNCHANGED busVars
    \/ (StopClear \/ StopStep) /\ UNCHANGED busVars

BusSpec == BusInit /\ [][BusNext]_allVars

\* Handlers return or throw, threads that can go on do.
BusFairness ==
    /\ \A t \in Threads : WF_allVars(PoolStep(t))
    /\ \A w \in Workers : WF_allVars(PoolWorkerStep(w) \/ BusWorkerStep(w) \/ HandlerThrow(w))
    /\ WF_allVars(StopStep /\ UNCHANGED busVars)

FairBusSpec == BusSpec /\ BusFairness

-----------------------------------------------------------------------------
(* An event reaches the handlers that were subscribed when it was           *)
(* published, in the order of their subscription, each once; a finished job *)
(* has called all of them unless one threw.  Nothing subscribed meanwhile   *)
(* is called, and concurrent subscriptions disturb no delivery.             *)
DeliversSnapshot ==
    \A j \in 1..(next - 1) :
        /\ IsPrefix(ran[j], event[j].handlers)
        /\ j \in done /\ j \notin threw => ran[j] = event[j].handlers
        /\ j \in Held \cup Elements(tasks) \cup dropped => ran[j] = <<>>
        /\ j \in threw => Len(ran[j]) < Len(event[j].handlers)

=============================================================================
