----------------------------- MODULE AdcDriver -----------------------------
(***************************************************************************)
(* The ADC: ADS1115Driver (daemon/src/drivers/ads1115_driver.cpp) with the *)
(* sampling of ADS1115 (daemon/src/hardware/i2c/ads1115.cpp).  The pool's  *)
(* workers handle the commands and the triggers, the asio thread runs the  *)
(* handlers of the trace timer and of the burst timer, the scheduler calls *)
(* update().  The driver's state is under stateMutex_, a conversion under  *)
(* the device's mutex; the burst's state and the timers are under none.    *)
(* A sample is abstracted to the tracing period it was taken in.           *)
(***************************************************************************)
EXTENDS Integers, Sequences

CONSTANTS
    AdcWorkers,     \* the pool's workers
    BufferSize, Pretrigger,     \* Config::Hardware::ADC
    BurstSizes,     \* the samples a client may ask for
    MaxAdcCommands, \* bound: commands and triggers handled
    MaxAdcTicks     \* bound: timer expiries and updates

ASSUME AdcAssumption ==
    /\ BufferSize \in Nat /\ Pretrigger \in 0 .. BufferSize - 1
    /\ BurstSizes \subseteq Nat /\ MaxAdcCommands \in Nat /\ MaxAdcTicks \in Nat

VARIABLES
    adcSamplingMode, currentAdcSampleIndex, adcSamplesBuffer,
    remaining, burstSamples,
    adcTimers,      \* per timer: a wait is armed, and the expired waits that asio will call back
    adcIo,          \* the asio thread
    adcWorker,      \* per worker: the step of its handler
    adcPublished,   \* ghost: the last AdcTraceEvent, with the samples since its trigger or asked for
    adcPeriod,      \* ghost: the mode changes so far
    adcSince,       \* ghost: amplitude samples since the last trigger, or -1
    adcAsked,       \* ghost: the samples the last startBurst() asked for
    adcCommands, adcTicks

adcVars == <<adcSamplingMode, currentAdcSampleIndex, adcSamplesBuffer, remaining, burstSamples, adcTimers,
             adcIo, adcWorker, adcPublished, adcPeriod, adcSince, adcAsked, adcCommands, adcTicks>>
adcState == <<adcSamplingMode, currentAdcSampleIndex, adcSamplesBuffer, adcPeriod, adcSince>>
adcBurst == <<remaining, burstSamples, adcAsked>>
adcCounts == <<adcCommands, adcTicks>>

Untriggered == -1
NoTrace == [of |-> "none", samples |-> <<>>, count |-> Untriggered]

AdcInit ==
    /\ adcSamplingMode = "PEAK" /\ currentAdcSampleIndex = Untriggered /\ adcSamplesBuffer = <<>>
    /\ remaining = 0 /\ burstSamples = <<>>
    /\ adcTimers = [t \in {"trace", "burst"} |-> [armed |-> FALSE, expired |-> 0]]
    /\ adcIo = "idle" /\ adcWorker = [w \in AdcWorkers |-> "idle"]
    /\ adcPublished = NoTrace /\ adcPeriod = 0 /\ adcSince = Untriggered /\ adcAsked = 0
    /\ adcCommands = 0 /\ adcTicks = 0

\* steady_timer: cancel() takes the armed wait back, expires_after() replaces it; neither
\* reaches a wait that has expired.
Cancelled(timers, t) == [timers EXCEPT ![t].armed = FALSE]
Rearmed(timers, t) == [timers EXCEPT ![t].armed = TRUE]

TimerExpires(t) ==
    /\ adcTicks < MaxAdcTicks /\ adcTicks' = adcTicks + 1
    /\ adcTimers[t].armed
    /\ adcTimers' = [adcTimers EXCEPT ![t] = [armed |-> FALSE, expired |-> @.expired + 1]]
    /\ UNCHANGED <<adcState, adcBurst, adcIo, adcWorker, adcPublished, adcCommands>>

-----------------------------------------------------------------------------
(* A sample.                                                                *)

Newest(s) == IF Len(s) > BufferSize THEN Tail(s) ELSE s

\* ADS1115Driver::onSampleReady() for the amplitude channel, under stateMutex_.
onSampleReady ==
    \/ /\ adcSamplingMode = "DISABLED"
       /\ UNCHANGED <<adcState, adcPublished>>
    \/ /\ adcSamplingMode = "PEAK"
       /\ currentAdcSampleIndex' = 0
       /\ UNCHANGED <<adcSamplingMode, adcSamplesBuffer, adcPublished, adcPeriod, adcSince>>
    \/ /\ adcSamplingMode = "TRACE"
       /\ LET buffer == Newest(Append(adcSamplesBuffer, adcPeriod))
              since == IF adcSince = Untriggered THEN Untriggered ELSE adcSince + 1
              done == currentAdcSampleIndex + 1 >= BufferSize - Pretrigger
          IN /\ adcSamplesBuffer' = buffer
             /\ IF currentAdcSampleIndex = Untriggered
                THEN UNCHANGED <<currentAdcSampleIndex, adcPublished>> /\ adcSince' = since
                ELSE IF done
                THEN /\ currentAdcSampleIndex' = Untriggered /\ adcSince' = Untriggered
                     /\ adcPublished' = [of |-> "trigger", samples |-> buffer, count |-> since]
                ELSE /\ currentAdcSampleIndex' = currentAdcSampleIndex + 1 /\ adcSince' = since
                     /\ UNCHANGED adcPublished
       /\ UNCHANGED <<adcSamplingMode, adcPeriod>>

\* ADS1115::getSample(): the configuration is written, the end of the conversion awaited, the
\* result read.  A failed transfer or a timeout gives the invalid sample and calls nobody; the
\* other channels are published and change no state.
getSample == UNCHANGED <<adcState, adcPublished>> \/ onSampleReady

\* ADS1115Driver::update() on the scheduler's thread.
AdcUpdate ==
    /\ adcTicks < MaxAdcTicks /\ adcTicks' = adcTicks + 1
    /\ getSample
    /\ UNCHANGED <<adcBurst, adcTimers, adcIo, adcWorker, adcCommands>>

-----------------------------------------------------------------------------
(* The commands, on the pool's workers.                                     *)

AdcCommand(w) ==
    /\ adcWorker[w] = "idle"
    /\ adcCommands < MaxAdcCommands /\ adcCommands' = adcCommands + 1
    /\ UNCHANGED adcTicks

At(w, from, to) == adcWorker[w] = from /\ adcWorker' = [adcWorker EXCEPT ![w] = to]

\* A mutant: the index of a trigger outlives the mode.
KeepIndex(w, mode) ==
    /\ AdcCommand(w)
    /\ adcSamplingMode' = mode /\ adcSamplesBuffer' = <<>>
    /\ adcPeriod' = adcPeriod + 1 /\ adcSince' = Untriggered
    /\ adcWorker' = [adcWorker EXCEPT ![w] = IF mode = "TRACE" THEN "arm" ELSE "cancel"]
    /\ UNCHANGED <<currentAdcSampleIndex, adcBurst, adcTimers, adcIo, adcPublished>>

\* setAdcSamplingMode(): the state under the mutex, then the timer.
setAdcSamplingMode(w, mode) ==
    /\ AdcCommand(w)
    /\ adcSamplingMode' = mode /\ adcSamplesBuffer' = <<>> /\ currentAdcSampleIndex' = Untriggered
    /\ adcPeriod' = adcPeriod + 1 /\ adcSince' = Untriggered
    /\ adcWorker' = [adcWorker EXCEPT ![w] = IF mode = "TRACE" THEN "arm" ELSE "cancel"]
    /\ UNCHANGED <<adcBurst, adcTimers, adcIo, adcPublished>>

SetTraceTimer(w) ==
    /\ \/ At(w, "cancel", "idle") /\ adcTimers' = Cancelled(adcTimers, "trace")
       \/ At(w, "arm", "idle") /\ adcTimers' = Rearmed(adcTimers, "trace")
    /\ UNCHANGED <<adcState, adcBurst, adcIo, adcPublished, adcCounts>>

\* The handler of a GpioEvent of the trigger's signal.
Trigger(w) ==
    /\ AdcCommand(w)
    /\ currentAdcSampleIndex' = 0 /\ adcSince' = 0
    /\ adcWorker' = [adcWorker EXCEPT ![w] = "check"]
    /\ UNCHANGED <<adcSamplingMode, adcSamplesBuffer, adcPeriod, adcBurst, adcTimers, adcIo, adcPublished>>

\* The handler of an AdcSampleTriggerCmd.
SampleTrigger(w) ==
    /\ AdcCommand(w)
    /\ adcWorker' = [adcWorker EXCEPT ![w] = "check"]
    /\ UNCHANGED <<adcState, adcBurst, adcTimers, adcIo, adcPublished>>

\* sampleAdcEvent(): the mode is read under the mutex and may be another when the sample is there.
sampleAdcEvent(w) ==
    /\ \/ /\ At(w, "check", IF adcSamplingMode = "DISABLED" THEN "idle" ELSE "sample")
          /\ UNCHANGED <<adcState, adcPublished>>
       \/ At(w, "sample", "idle") /\ getSample
    /\ UNCHANGED <<adcBurst, adcTimers, adcIo, adcCounts>>

\* startBurst() and stopBurst().  Nothing asked for stops a burst.
startBurst(w, samples) ==
    /\ AdcCommand(w)
    /\ IF samples = 0
       THEN /\ remaining' = 0 /\ adcTimers' = Cancelled(adcTimers, "burst")
            /\ UNCHANGED <<burstSamples, adcAsked, adcWorker>>
       ELSE /\ remaining' = samples /\ burstSamples' = <<>> /\ adcAsked' = samples
            /\ adcWorker' = [adcWorker EXCEPT ![w] = "burst"]
            /\ UNCHANGED adcTimers
    /\ UNCHANGED <<adcState, adcIo, adcPublished>>

scheduleBurst(w) ==
    /\ At(w, "burst", "idle")
    /\ adcTimers' = IF remaining <= 0 THEN adcTimers ELSE Rearmed(adcTimers, "burst")
    /\ UNCHANGED <<adcState, adcBurst, adcIo, adcPublished, adcCounts>>

-----------------------------------------------------------------------------
(* The handlers of the timers, on the asio thread.                          *)

Callback(t) == adcIo = "idle" /\ adcTimers[t].expired > 0

\* The wait of scheduleTraceSampling().
TraceCallback ==
    /\ Callback("trace")
    /\ adcTimers' = [adcTimers EXCEPT !["trace"].expired = @ - 1]
    /\ adcIo' = IF adcSamplingMode = "TRACE" THEN "check" ELSE "idle"
    /\ UNCHANGED <<adcState, adcBurst, adcWorker, adcPublished, adcCounts>>

\* sampleTrace() and the next wait.
sampleTrace ==
    /\ \/ /\ adcIo = "check" /\ adcIo' = IF adcSamplingMode = "DISABLED" THEN "rearm" ELSE "sample"
          /\ UNCHANGED <<adcState, adcPublished, adcTimers>>
       \/ /\ adcIo = "sample" /\ adcIo' = "rearm" /\ getSample
          /\ UNCHANGED adcTimers
       \/ /\ adcIo = "rearm" /\ adcIo' = "idle" /\ adcTimers' = Rearmed(adcTimers, "trace")
          /\ UNCHANGED <<adcState, adcPublished>>
    /\ UNCHANGED <<adcBurst, adcWorker, adcCounts>>

\* The wait of scheduleBurst(): the sample first, ...
BurstCallback ==
    /\ Callback("burst")
    /\ adcTimers' = [adcTimers EXCEPT !["burst"].expired = @ - 1]
    /\ \/ adcIo' = "burst" /\ onSampleReady
       \/ adcIo' = "missed" /\ UNCHANGED <<adcState, adcPublished>>
    /\ UNCHANGED <<adcBurst, adcWorker, adcCounts>>

\* ... then the count.
BurstCounted ==
    /\ adcIo \in {"burst", "missed"} /\ adcIo' = "idle"
    /\ remaining' = remaining - 1
    /\ LET got == IF adcIo = "burst" THEN Append(burstSamples, adcPeriod) ELSE burstSamples
       IN IF remaining - 1 <= 0
          THEN /\ burstSamples' = <<>>
               /\ adcPublished' = IF got = <<>> THEN adcPublished
                                  ELSE [of |-> "burst", samples |-> got, count |-> adcAsked]
               /\ UNCHANGED adcTimers
          ELSE /\ burstSamples' = got /\ adcTimers' = Rearmed(adcTimers, "burst")
               /\ UNCHANGED adcPublished
    /\ UNCHANGED <<adcState, adcAsked, adcWorker, adcCounts>>

AdcNext ==
    \/ \E t \in {"trace", "burst"} : TimerExpires(t)
    \/ AdcUpdate \/ TraceCallback \/ sampleTrace \/ BurstCallback \/ BurstCounted
    \/ \E w \in AdcWorkers :
          \/ \E mode \in {"DISABLED", "PEAK", "TRACE"} : setAdcSamplingMode(w, mode)
          \/ \E samples \in BurstSizes : startBurst(w, samples)
          \/ Trigger(w) \/ SampleTrigger(w) \/ sampleAdcEvent(w)
          \/ SetTraceTimer(w) \/ scheduleBurst(w)

AdcSpec == AdcInit /\ [][AdcNext]_adcVars

-----------------------------------------------------------------------------
(* The property.                                                            *)

\* A trace the client is shown belongs to its trigger: it is published when BufferSize - Pretrigger
\* samples have followed the last trigger, holds no more than BufferSize samples and none from
\* before the present mode, whoever samples, triggers and changes the mode meanwhile.  A burst
\* never holds more samples than were asked for last.
TracesAreOfTheirTrigger ==
    /\ adcPublished.of = "trigger" =>
          /\ adcPublished.count = BufferSize - Pretrigger
          /\ Len(adcPublished.samples) <= BufferSize
          /\ \A i, j \in DOMAIN adcPublished.samples : adcPublished.samples[i] = adcPublished.samples[j]
    /\ adcPublished.of = "burst" => Len(adcPublished.samples) <= adcPublished.count
    /\ Len(burstSamples) <= adcAsked
=============================================================================
