----------------------------- MODULE GpioDriver -----------------------------
(***************************************************************************)
(* The thread of GpioDriver that waits for edges on the input lines,       *)
(* daemon/src/drivers/gpio_driver.cpp, and the rate buffer of a line,      *)
(* daemon/src/utility/gpio_ratebuffer.cpp, which that thread fills and the *)
(* scheduler's thread samples once a second without a lock.                *)
(* The switch commands of the driver are in module EventBindings.          *)
(***************************************************************************)
EXTENDS Integers, Sequences, FiniteSets

CONSTANTS
    ReadSize,       \* the most edges one read returns (128)
    Window,         \* the sliding window of the rate, in ticks
    HistoryLength,  \* m_historyLength, in ticks
    FilterEdge,     \* the edge the buffer is made for, or "any" (nullopt)
    Deadtime,       \* the dead time of the buffer, in ticks
    LineEdges,      \* the kinds of edges that occur on the line
    MaxEdges,       \* bound: edges on the line
    GpioMaxTime     \* bound: the last clock value

ASSUME GpioDriverAssumption ==
    /\ ReadSize \in Nat \ {0} /\ {Window, HistoryLength, Deadtime, MaxEdges, GpioMaxTime} \subseteq Nat
    /\ FilterEdge \in {"any", "rising", "falling"}

NoTime == -1      \* invalid_time

VARIABLES
    gRunning,   \* running
    gLoop,      \* where eventLoop() is
    gStop,      \* where stop() is
    gControl,   \* control_fd is readable
    gQueue,     \* the edges the kernel holds for the line
    gBatch,     \* the edges read and not yet processed
    gBus,       \* history: the edges published, each with the interval published
    gEdges,     \* history: all edges of the line
    gNow,       \* the steady clock
    gBuf,       \* the fields of the rate buffer
    gSample,    \* the time at which the sampling under way began, or NoTime
    gRaced,     \* the thread has changed the buffer during the sampling
    gSent       \* the samples of the last GpioRateEvent

gpioVars == <<gRunning, gLoop, gStop, gControl, gQueue, gBatch, gBus, gEdges, gNow, gBuf,
              gSample, gRaced, gSent>>
loopVars == <<gRunning, gStop, gBus, gEdges, gNow, gBuf, gSample, gRaced, gSent>>

-----------------------------------------------------------------------------
(* EventRateBuffer.  Nothing sets m_coincSig, so step 2 of handle() is dead. *)

NewBuffer == [last |-> NoTime, interval |-> 0, events |-> <<>>, samples |-> <<>>, latest |-> 0]

\* EdgeFilter::accept() and DeadtimeFilter::accept(); the filter's
\* m_lastAccepted and the buffer's m_lastAcceptedEvent are always equal.
Accepts(b, e) ==
    /\ FilterEdge \in {"any", e.edge}
    /\ b.last = NoTime \/ e.ts - b.last >= Deadtime

\* A sequence from the first of some of its places on.
KeptFrom(s, places) ==
    IF places = {} THEN <<>> ELSE SubSeq(s, CHOOSE i \in places : \A j \in places : i <= j, Len(s))

\* Dropping from the front what has left a window that ends at a time (and a mutant: the edge at
\* its far end, too).
DropOneMore(s, now) == KeptFrom(s, {i \in 1..Len(s) : now - s[i] < Window})
DropOld(s, now) == KeptFrom(s, {i \in 1..Len(s) : now - s[i] <= Window})

\* Mutant of handle(): m_lastAcceptedEvent keeps the first edge.
KeepsFirst(b, e) ==
    [b EXCEPT !.last = IF b.last = NoTime THEN e.ts ELSE @,
              !.interval = IF b.last # NoTime THEN e.ts - b.last ELSE @,
              !.events = DropOld(Append(@, e.ts), e.ts)]
\* handle(): the buffer after an accepted edge; SlidingRateEstimator::add() included.
BufferHandled(b, e) ==
    [b EXCEPT !.last = e.ts,
              !.interval = IF b.last # NoTime THEN e.ts - b.last ELSE @,
              !.events = DropOld(Append(@, e.ts), e.ts)]

\* currentRateHz(): the number of edges and the time they span, or no rate.
NoRate == <<0, 0>>
CurrentRate(b, now) ==
    LET valid == DropOld(b.events, now)
    IN IF Len(b.events) < 2 \/ Len(valid) < 2 \/ valid[Len(valid)] <= valid[1] THEN NoRate
       ELSE <<Len(valid), valid[Len(valid)] - valid[1]>>

\* addSample() of the history, then the last samples not older than the previous call.
Sampled(b, now, rate) ==
    LET samples == Append(b.samples, [ts |-> now, rate |-> rate])
    IN [b EXCEPT !.samples = KeptFrom(samples, {i \in 1..Len(samples) : now - samples[i].ts <= HistoryLength}),
                 !.latest = now]
Retrieved(b, s) == KeptFrom(s, {i \in 1..Len(s) : \A j \in i..Len(s) : s[j].ts >= b.latest})

-----------------------------------------------------------------------------
(* The thread.                                                              *)

GpioStart ==
    /\ gLoop = "none" /\ ~gRunning
    /\ gRunning' = TRUE /\ gLoop' = "top"
    /\ UNCHANGED <<gStop, gControl, gQueue, gBatch, gBus, gEdges, gNow, gBuf, gSample, gRaced, gSent>>

LoopTop ==
    /\ gLoop = "top"
    /\ gLoop' = IF gRunning THEN "poll" ELSE "done"
    /\ UNCHANGED <<gControl, gQueue, gBatch, loopVars>>

\* poll() returns when a descriptor is readable, or for a signal.
LoopPoll ==
    /\ gLoop = "poll"
    /\ gQueue # <<>> \/ gControl
    /\ gLoop' = IF gRunning THEN "read" ELSE "done"
    /\ UNCHANGED <<gControl, gQueue, gBatch, loopVars>>
LoopInterrupted ==
    /\ gLoop = "poll"
    /\ gLoop' = IF gRunning THEN "top" ELSE "done"
    /\ UNCHANGED <<gControl, gQueue, gBatch, loopVars>>

\* One read of the line, then of control_fd.
ReadCount == IF Len(gQueue) < ReadSize THEN Len(gQueue) ELSE ReadSize
LoopRead ==
    /\ gLoop = "read" /\ gBatch = <<>>
    /\ gBatch' = SubSeq(gQueue, 1, ReadCount)
    /\ gQueue' = SubSeq(gQueue, ReadCount + 1, Len(gQueue))
    /\ gControl' = FALSE
    /\ gLoop' = "process"
    /\ UNCHANGED loopVars

\* processEvent(): the edge, and the interval if there is one.
LoopProcess ==
    /\ gLoop = "process" /\ gBatch # <<>>
    /\ LET e == Head(gBatch)
           b == BufferHandled(gBuf, e)
       IN IF Accepts(gBuf, e)
            THEN /\ gBuf' = b
                 /\ gBus' = Append(gBus, [ts |-> e.ts, interval |-> b.interval])
            ELSE UNCHANGED <<gBuf, gBus>>
    /\ gRaced' = (gSample # NoTime)
    /\ gBatch' = Tail(gBatch)
    /\ UNCHANGED <<gRunning, gLoop, gStop, gControl, gQueue, gEdges, gNow, gSample, gSent>>

LoopAgain ==
    /\ gLoop = "process" /\ gBatch = <<>>
    /\ gLoop' = "top"
    /\ UNCHANGED <<gControl, gQueue, gBatch, loopVars>>

\* stop(), called by the destructor on the main thread.
StopFlag ==
    /\ gStop = "idle" /\ gRunning
    /\ gRunning' = FALSE /\ gStop' = "write"
    /\ UNCHANGED <<gLoop, gControl, gQueue, gBatch, gBus, gEdges, gNow, gBuf, gSample, gRaced, gSent>>
StopWrite ==
    /\ gStop = "write"
    /\ gControl' = TRUE /\ gStop' = "join"
    /\ UNCHANGED <<gRunning, gLoop, gQueue, gBatch, gBus, gEdges, gNow, gBuf, gSample, gRaced, gSent>>
StopJoin ==
    /\ gStop = "join" /\ gLoop = "done"
    /\ gStop' = "stopped"
    /\ UNCHANGED <<gRunning, gLoop, gControl, gQueue, gBatch, gBus, gEdges, gNow, gBuf, gSample, gRaced, gSent>>

\* sendGpioRatesAverage() on the scheduler's thread: the clock is read, then the
\* buffer is used while the other thread may be changing it.  The scheduler
\* keeps two calls an interval apart (StartSpacing of module Scheduler).
SampleBegin ==
    /\ gSample = NoTime /\ gLoop # "none" /\ gNow > gBuf.latest
    /\ gSample' = gNow /\ gRaced' = FALSE
    /\ UNCHANGED <<gRunning, gLoop, gStop, gControl, gQueue, gBatch, gBus, gEdges, gNow, gBuf, gSent>>
SampleEnd ==
    /\ gSample # NoTime
    /\ LET rate == IF gRaced THEN "any" ELSE CurrentRate(gBuf, gSample)
           b == Sampled(gBuf, gSample, rate)
       IN gBuf' = b /\ gSent' = Retrieved(gBuf, b.samples)
    /\ gSample' = NoTime
    /\ UNCHANGED <<gRunning, gLoop, gStop, gControl, gQueue, gBatch, gBus, gEdges, gNow, gRaced>>

\* The line and the clock.
GpioEdge(edge) ==
    /\ gLoop # "none" /\ Len(gEdges) < MaxEdges
    /\ gEdges' = Append(gEdges, [ts |-> gNow, edge |-> edge])
    /\ gQueue' = Append(gQueue, [ts |-> gNow, edge |-> edge])
    /\ UNCHANGED <<gRunning, gLoop, gStop, gControl, gBatch, gBus, gNow, gBuf, gSample, gRaced, gSent>>
GpioTick ==
    /\ gNow < GpioMaxTime
    /\ gNow' = gNow + 1
    /\ UNCHANGED <<gRunning, gLoop, gStop, gControl, gQueue, gBatch, gBus, gEdges, gBuf, gSample, gRaced, gSent>>

GpioInit ==
    /\ gRunning = FALSE /\ gLoop = "none" /\ gStop = "idle" /\ gControl = FALSE
    /\ gQueue = <<>> /\ gBatch = <<>> /\ gBus = <<>> /\ gEdges = <<>>
    /\ gNow = 0 /\ gBuf = NewBuffer /\ gSample = NoTime /\ gRaced = FALSE /\ gSent = <<>>

GpioLoop == LoopTop \/ LoopPoll \/ LoopRead \/ LoopProcess \/ LoopAgain
GpioStopping == StopWrite \/ StopJoin
GpioNext ==
    \/ GpioStart \/ GpioLoop \/ LoopInterrupted \/ StopFlag \/ GpioStopping
    \/ SampleBegin \/ SampleEnd \/ GpioTick
    \/ \E edge \in LineEdges : GpioEdge(edge)

GpioSpec == GpioInit /\ [][GpioNext]_gpioVars

-----------------------------------------------------------------------------
(* What the driver has published are the edges of the line that the filters *)
(* let pass: of those that came out of the batches each that passes the     *)
(* filter at least a dead time after the ones published before it, in order *)
(* and once, with the time since the one before it.                         *)
EdgesArePublished ==
    LET seen == Len(gEdges) - Len(gQueue) - Len(gBatch)
        published == 1..Len(gBus)
    IN \E at \in [published -> 1..seen] :
          /\ \A m, n \in published : m < n => at[m] < at[n]
          /\ \A i \in 1..seen :
                (\E n \in published : at[n] = i) <=>
                   /\ FilterEdge \in {"any", gEdges[i].edge}
                   /\ \A n \in published : at[n] < i => gEdges[i].ts - gEdges[at[n]].ts >= Deadtime
          /\ \A n \in published :
                gBus[n] = [ts |-> gEdges[at[n]].ts,
                           interval |-> IF n = 1 THEN 0 ELSE gEdges[at[n]].ts - gEdges[at[n - 1]].ts]

\* The rate of a window: the edges in it, and the time from the first to the last.
RateOf(now) ==
    LET edges == {n \in 1..Len(gBus) : now - gBus[n].ts <= Window}
        times == {gBus[n].ts : n \in edges}
    IN IF \A t, u \in times : t = u THEN NoRate
       ELSE <<Cardinality(edges), (CHOOSE t \in times : \A u \in times : u <= t)
                                    - (CHOOSE t \in times : \A u \in times : t <= u)>>

(* A rate sampled while the thread left the buffer alone is that of all the *)
(* edges published in the window before it, although the buffer has thrown  *)
(* edges away as newer ones came.                                           *)
RateIsOfWindow ==
    gSample # NoTime /\ gSample' = NoTime /\ ~gRaced
        => gSent'[Len(gSent')] = [ts |-> gSample, rate |-> RateOf(gSample)]

(* The driver follows the line: its events and its rates are of the edges   *)
(* that were there, whatever batches they were read in.                     *)
LineIsFollowed == [][EdgesArePublished' /\ RateIsOfWindow]_gpioVars

=============================================================================
