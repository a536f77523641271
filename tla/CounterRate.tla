---------------------------- MODULE CounterRate ----------------------------
(***************************************************************************)
(* CounterRateBuffer of daemon/src/utility/ublox_ratebuffer.cpp: the rate  *)
(* of events from the receiver's counter of rising edges, which has 16     *)
(* bits and wraps around.  Every UbxTimeMarkStruct is handled by a worker  *)
(* of the pool (event_bindings.cpp:366), so two values may arrive in the   *)
(* wrong order.                                                            *)
(***************************************************************************)
EXTENDS Integers, Sequences, FiniteSets, SequencesExt

CONSTANTS
    CounterMask,    \* m_counter_mask: 65535, scaled down
    BufferTime,     \* m_buffer_time, in ticks
    Overtakes,      \* how many values may be overtaken by a later one
    MaxValues,      \* bound: values reported
    CounterMaxTime  \* bound: the last clock value

ASSUME CounterRateAssumption ==
    {CounterMask, BufferTime, Overtakes, MaxValues, CounterMaxTime} \subseteq Nat

VARIABLES
    cCount,     \* the receiver's edges so far; its counter shows them modulo CounterMask + 1
    cOnWay,     \* the values on their way through the pool
    cValues,    \* the values reported so far
    cSwaps,     \* the values that have been overtaken
    cBuffer,    \* m_countbuffer; each entry also has the count it stands for
    cNow,       \* the steady clock
    cTotal      \* the last avgRate(): the counts, what they span, or nothing

counterVars == <<cCount, cOnWay, cValues, cSwaps, cBuffer, cNow, cTotal>>

Counter(n) == n % (CounterMask + 1)

\* The receiver counts some edges, fewer than make it wrap twice, and reports.
Report(n) ==
    /\ cValues < MaxValues
    /\ cCount' = cCount + n /\ cValues' = cValues + 1
    /\ cOnWay' = Append(cOnWay, cCount')
    /\ UNCHANGED <<cSwaps, cBuffer, cNow, cTotal>>

\* onCounterValue(): the oldest values go, but two always stay.
Trimmed(s) ==
    LET old == {i \in 1..(Len(s) - 2) : \A j \in 1..i : cNow - s[j].time > BufferTime}
    IN SubSeq(s, Cardinality(old) + 1, Len(s))

CounterValue(i) ==
    /\ i \in 1..Len(cOnWay) /\ cSwaps + (i - 1) <= Overtakes
    /\ cSwaps' = cSwaps + (i - 1)
    /\ cOnWay' = RemoveAt(cOnWay, i)
    /\ cBuffer' = Trimmed(Append(cBuffer, [time |-> cNow, value |-> Counter(cOnWay[i]), count |-> cOnWay[i]]))
    /\ UNCHANGED <<cCount, cValues, cNow, cTotal>>

\* The step between two values: a fall is taken for a wrap-around.
NoWrap(a, b) == b.value - a.value
Diff(a, b) == IF b.value < a.value THEN b.value - a.value + CounterMask + 1 ELSE b.value - a.value

\* The first value that counts: an entry before the window moves its start on.
FirstCounted == IF cBuffer[1].time < (IF cNow > BufferTime THEN cNow - BufferTime ELSE 0) THEN 2 ELSE 1

\* The counts from that value to each later one.
CountsUpTo[i \in 1..Len(cBuffer)] ==
    IF i <= FirstCounted THEN 0 ELSE CountsUpTo[i - 1] + Diff(cBuffer[i - 1], cBuffer[i])

AvgRate ==
    /\ Len(cBuffer) >= 2
    /\ cTotal' = [counts |-> CountsUpTo[Len(cBuffer)],
                  first |-> cBuffer[FirstCounted].count, last |-> cBuffer[Len(cBuffer)].count]
    /\ UNCHANGED <<cCount, cOnWay, cValues, cSwaps, cBuffer, cNow>>

CounterTick ==
    /\ cNow < CounterMaxTime
    /\ cNow' = cNow + 1
    /\ UNCHANGED <<cCount, cOnWay, cValues, cSwaps, cBuffer, cTotal>>

NoTotal == [counts |-> 0, first |-> 0, last |-> 0]
CounterInit ==
    /\ cCount = 0 /\ cOnWay = <<>> /\ cValues = 0 /\ cSwaps = 0
    /\ cBuffer = <<>> /\ cNow = 0 /\ cTotal = NoTotal
CounterNext ==
    \/ \E n \in 0..CounterMask : Report(n)
    \/ \E i \in 1..Len(cOnWay) : CounterValue(i)
    \/ AvgRate \/ CounterTick

CounterSpec == CounterInit /\ [][CounterNext]_counterVars

-----------------------------------------------------------------------------
(* The counts of the rate are the edges between its first and its last      *)
(* value, across any number of wrap-arounds, unless a value was overtaken.  *)
(* Then they are off by whole rounds of the counter, never by less.         *)
CountsAreEdges ==
    LET edges == cTotal.last - cTotal.first
    IN /\ cSwaps = 0 => cTotal.counts = edges
       /\ Counter(cTotal.counts) = Counter(edges)

=============================================================================
