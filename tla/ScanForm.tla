------------------------------ MODULE ScanForm ------------------------------
(***************************************************************************)
(* The parameter scan of the client: ScanForm (gui/src/scanform.cpp) steps *)
(* a threshold or the bias voltage of the daemon, measures the rate of     *)
(* time marks at each value, and in the end puts the old value back.  While*)
(* it runs it tells the daemon to inhibit GPIO events and MQTT messages; the*)
(* daemon keeps nothing of that: a MqttInhibitCmd has no subscriber and a  *)
(* GpioInhibitEvent is only passed on to the clients.                      *)
(*                                                                         *)
(* Commands and answers travel over one connection, in order.  The daemon's*)
(* MCP4728Driver (daemon/src/drivers/mcp4728_driver.cpp) sets the voltages:*)
(* it refuses some, the bus may fail, and only some it answers, with the   *)
(* voltages it then reads from all channels.                               *)
(***************************************************************************)
EXTENDS Integers, Sequences

CONSTANTS
    ScanInputs,         \* what the form can hold: [par, min, max, step, nr, time, stat]
    UserVoltages,       \* what the sliders set, within the DAC's range
    DacLimit,           \* 4.095 V, the most a channel can be set to
    ReadFaults,         \* the sets of channels that may fail to be read together
    CounterRange,       \* 2^16, the range of evtCounter
    MaxMarks,           \* bound: time marks
    MaxScanEvents,      \* bound: scans, sliders and connections
    MaxScanFaults       \* bound: failures of the bus

ASSUME ScanFormAssumption ==
    /\ CounterRange \in Nat /\ CounterRange > 3 /\ MaxMarks \in Nat /\ MaxScanEvents \in Nat
    /\ ScanInputs \subseteq [par : 1..5, min : Int, max : Int, step : Int, nr : Nat, time : Nat, stat : Nat]
    /\ DacLimit \in Nat /\ DacLimit > 4 /\ UserVoltages \subseteq 0..DacLimit /\ ReadFaults \subseteq SUBSET (0..3)
    /\ MaxScanFaults \in Nat

VARIABLES
    scActive, scPar,                    \* active, scanPar
    scCurrent, scStep, scLimits,        \* currentScanPar, stepSize, <<minRange, maxRange>>
    scMaxTime, scMaxCounts,             \* maxMeasurementTimeInterval, maxMeasurementStatistics
    scWait, scCounts, scTime, lastTM,   \* waitForFirst, currentCounts, currentTimeInterval
    fLastDacs, scanData,
    scConnected, scOut, scIn,           \* the connection and what is on its way
    scDac,                              \* the voltages of the DAC
    scTold,                             \* history: the last inhibit of each kind told over the connection
    scSetting,                          \* history: what the user set last, but for the channel under a scan
    scRefused,                          \* history: channels whose last setting was refused, failed or got lost
    scMistaken,                         \* history: channels scanned from another voltage than the user's, or cut off
    scMarks, scEvents, scFaults

scScan == <<scActive, scPar, scCurrent, scStep, scLimits, scMaxTime, scMaxCounts, scWait, scCounts, scTime, lastTM, scanData>>
scLink == <<scConnected, scOut, scIn>>
scDaemon == <<scDac, scTold>>
scHistory == <<scSetting, scRefused, scMistaken>>
scVars == <<scScan, fLastDacs, scLink, scDaemon, scHistory, scMarks, scEvents, scFaults>>

Channels == 0..3
scThresholds == 0..1
scBias == 2
SP_NAMES == <<"THR1", "THR2", "BIAS", "DAC4", "TIME">>

ScanInit ==
    /\ scActive = FALSE /\ scPar = 0 /\ scCurrent = 0 /\ scStep = 1 /\ scLimits = <<0, 0>> /\ scMaxTime = 1 /\ scMaxCounts = 0
    /\ scWait = FALSE /\ scCounts = 0 /\ scTime = 0 /\ lastTM = [count |-> 0, time |-> 0] /\ scanData = {}
    /\ fLastDacs = [c \in Channels |-> 0]
    /\ scConnected = TRUE /\ scOut = <<>> /\ scDac = [c \in Channels |-> 5]
    /\ scIn = <<[type |-> "dac", voltages |-> scDac]>>        \* the answer to the first request
    /\ scTold = [gpio |-> FALSE, mqtt |-> FALSE]
    /\ scSetting = scDac /\ scRefused = {} /\ scMistaken = {} /\ scMarks = 0 /\ scEvents = 0 /\ scFaults = 0

User == scEvents < MaxScanEvents /\ scEvents' = scEvents + 1

\* sendPacketIfConnected().
Send(cmds) == scOut' = IF scConnected THEN scOut \o cmds ELSE scOut

\* A ThresholdSettingCmd sets any channel ("set"); a BiasVoltageCmd the bias only ("bias").
Setting(type, c, value) == [type |-> type, channel |-> c, value |-> value]

\* adjustScanPar(): a parameter without a voltage sends nothing.
adjustScanPar(par, value) ==
    IF par \in 1..3 THEN <<Setting(IF par = 3 THEN "bias" ELSE "set", par - 1, value)>> ELSE <<>>
Inhibit(on) == <<[type |-> "gpio", on |-> on], [type |-> "mqtt", on |-> on]>>

-----------------------------------------------------------------------------
(* The scan.                                                                *)

\* A mutant: the voltages are followed during a scan.
AlwaysFollow(voltages) == fLastDacs' = voltages

\* onDacReadbackReceived(): what is read back during a scan is ignored.
onDacReadbackReceived(voltages) == fLastDacs' = IF scActive THEN fLastDacs ELSE voltages

\* stepSize, from the number of measurements or from its own field.
StepOf(i) ==
    IF SP_NAMES[i.par] = "TIME" THEN i.time
    ELSE IF i.nr = 0 THEN i.step
    ELSE IF i.nr < 2 THEN i.max + 1
    ELSE (i.max - i.min) \div (i.nr - 1)
LimitsOf(i) == IF SP_NAMES[i.par] = "TIME" THEN <<0, i.time * (i.nr - 1)>> ELSE <<i.min, i.max>>

\* onScanStartPushButtonClicked() without a scan under way.
StartScan(i) ==
    /\ ~scActive /\ scConnected /\ User
    /\ scPar' = i.par /\ scStep' = StepOf(i) /\ scLimits' = LimitsOf(i) /\ scMaxTime' = i.time /\ scMaxCounts' = i.stat
    /\ scCurrent' = LimitsOf(i)[1] /\ scActive' = TRUE /\ scWait' = TRUE /\ scanData' = {}
    /\ Send(Inhibit(TRUE) \o adjustScanPar(i.par, LimitsOf(i)[1]))
    /\ scMistaken' = scMistaken \cup {c \in Channels : i.par \in 1..3 /\ c = i.par - 1 /\ fLastDacs[c] # scSetting[c]}
    /\ UNCHANGED <<scCounts, scTime, lastTM, fLastDacs, scConnected, scIn, scDaemon, scSetting, scRefused, scMarks, scFaults>>

\* finishScan(): the old voltage and the end of the inhibits; the fifth parameter reads beyond
\* fLastDacs, and what it reads is not used.
Restoring == (IF scPar \in 1..4 THEN adjustScanPar(scPar, fLastDacs[scPar - 1]) ELSE <<>>) \o Inhibit(FALSE)
finishScan == scActive' = FALSE /\ Send(Restoring)

StopScan ==
    /\ scActive /\ scConnected /\ User
    /\ finishScan
    /\ UNCHANGED <<scPar, scCurrent, scStep, scLimits, scMaxTime, scMaxCounts, scWait, scCounts, scTime, lastTM, scanData,
                   fLastDacs, scConnected, scIn, scDaemon, scHistory, scMarks, scFaults>>

\* scanParIteration(): the point is taken, then the next value is set or the scan ends.
scanParIteration(counts, time) ==
    /\ scanData' = scanData \cup {[at |-> scCurrent, counts |-> counts, time |-> time]}
    /\ scCurrent' = scCurrent + scStep
    /\ IF scCurrent' > scLimits[2] THEN finishScan /\ UNCHANGED scWait
       ELSE scWait' = TRUE /\ UNCHANGED scActive /\ Send(adjustScanPar(scPar, scCurrent'))

\* onTimeMarkReceived(): the first mark at a value only begins the measurement.
onTimeMarkReceived(m) ==
    /\ lastTM' = m
    /\ LET counts == scCounts + ((m.count - lastTM.count) % CounterRange)
           time == scTime + (m.time - lastTM.time)
       IN IF ~scActive THEN UNCHANGED <<scActive, scCurrent, scWait, scCounts, scTime, scanData, scOut>>
          ELSE IF scWait THEN /\ scCounts' = 0 /\ scTime' = 0 /\ scWait' = FALSE
                              /\ UNCHANGED <<scActive, scCurrent, scanData, scOut>>
          ELSE /\ scCounts' = counts /\ scTime' = time
               /\ IF time > scMaxTime \/ (counts > scMaxCounts /\ time > 1) THEN scanParIteration(counts, time)
                  ELSE UNCHANGED <<scActive, scCurrent, scWait, scanData, scOut>>

\* Something arrives from the daemon.
ScanReceive ==
    /\ scIn # <<>> /\ scConnected /\ scIn' = Tail(scIn)
    /\ \/ /\ Head(scIn).type = "dac" /\ onDacReadbackReceived(Head(scIn).voltages)
          /\ UNCHANGED <<scScan, scOut>>
       \/ /\ Head(scIn).type = "mark" /\ onTimeMarkReceived(Head(scIn).mark)
          /\ UNCHANGED <<scPar, scStep, scLimits, scMaxTime, scMaxCounts, fLastDacs>>
    /\ UNCHANGED <<scConnected, scDaemon, scHistory, scMarks, scEvents, scFaults>>

\* The channel under a scan, and those with a setting on its way.
Stepped(c) == scActive /\ scPar \in 1..3 /\ c = scPar - 1
Awaiting(c) == \E p \in 1..Len(scOut) : scOut[p].type \in {"set", "bias"} /\ scOut[p].channel = c

\* The connection is lost, with what was on its way; onUiEnabledStateChange() ends the scan.
ScanDisconnect ==
    /\ scConnected /\ User
    /\ scConnected' = FALSE /\ scOut' = <<>> /\ scIn' = <<>>
    /\ scActive' = FALSE
    /\ scTold' = [gpio |-> FALSE, mqtt |-> FALSE]
    /\ scRefused' = scRefused \cup {c \in Channels : Awaiting(c)}
    /\ scMistaken' = scMistaken \cup {c \in Channels : Stepped(c)}
    /\ UNCHANGED <<scPar, scCurrent, scStep, scLimits, scMaxTime, scMaxCounts, scWait, scCounts, scTime, lastTM, scanData,
                   fLastDacs, scDac, scSetting, scMarks, scFaults>>

\* What the driver says it reads; a channel that cannot be read reads as none.
ReadBack(dac, unread) == [type |-> "dac", voltages |-> [c \in Channels |-> IF c \in unread THEN 0 ELSE dac[c]]]

\* A failure of the bus, or none.
ScanFault(happens) == (happens => scFaults < MaxScanFaults) /\ scFaults' = scFaults + (IF happens THEN 1 ELSE 0)

ScanConnect ==
    /\ ~scConnected /\ User
    /\ \E unread \in ReadFaults \cup {{}} : ScanFault(unread # {}) /\ scIn' = <<ReadBack(scDac, unread)>>
    /\ scConnected' = TRUE
    /\ UNCHANGED <<scScan, fLastDacs, scOut, scDaemon, scHistory, scMarks>>

-----------------------------------------------------------------------------
(* The user who moves a slider, during a scan too: a setting of the channel *)
(* under the scan is overwritten by the scan's own.                         *)

UserSets ==
    /\ scConnected /\ User
    /\ \E c \in Channels, type \in {"set", "bias"}, v \in UserVoltages :
          /\ type = "bias" => c = scBias
          /\ Send(<<Setting(type, c, v)>>)
          /\ IF Stepped(c) THEN UNCHANGED <<scSetting, scMistaken>>
             ELSE scSetting' = [scSetting EXCEPT ![c] = v] /\ scMistaken' = scMistaken \ {c}
    /\ UNCHANGED <<scScan, fLastDacs, scConnected, scIn, scDaemon, scRefused, scMarks, scFaults>>

-----------------------------------------------------------------------------
(* The daemon.                                                              *)

\* MCP4728::setVoltage(): nothing below zero or beyond the range, and the bus may fail.
setVoltage(channel, value, ok) ==
    IF ok /\ value \in 0..DacLimit
    THEN scDac' = [scDac EXCEPT ![channel] = value] /\ scRefused' = scRefused \ {channel}
    ELSE UNCHANGED scDac /\ scRefused' = scRefused \cup {channel}

\* setDacValue(): a threshold beyond the range is set to its end, and answered when it was set; the other
\* two channels are never answered.
onThresholdSettingCmd(cmd, ok, unread) ==
    LET value == IF cmd.channel \in scThresholds /\ cmd.value > DacLimit THEN DacLimit ELSE cmd.value
    IN /\ setVoltage(cmd.channel, value, ok)
       /\ scIn' = IF cmd.channel \in scThresholds /\ ok /\ value >= 0 THEN Append(scIn, ReadBack(scDac', unread)) ELSE scIn

\* setBiasVoltage(): answered whether or not it was set.
onBiasVoltageCmd(cmd, ok, unread) ==
    /\ setVoltage(scBias, cmd.value, ok)
    /\ scIn' = Append(scIn, ReadBack(scDac', unread))

\* An inhibit changes nothing in the daemon.
tellInhibit(cmd) == scTold' = [scTold EXCEPT ![cmd.type] = cmd.on]

DaemonHandles ==
    /\ scOut # <<>> /\ scOut' = Tail(scOut)
    /\ LET cmd == Head(scOut)
       IN \/ /\ cmd.type \in {"set", "bias"} /\ UNCHANGED scTold
             /\ \E ok \in BOOLEAN, unread \in ReadFaults \cup {{}} :
                   /\ ScanFault(~ok \/ unread # {})
                   /\ IF cmd.type = "set" THEN onThresholdSettingCmd(cmd, ok, unread) ELSE onBiasVoltageCmd(cmd, ok, unread)
          \/ /\ cmd.type \in {"gpio", "mqtt"} /\ tellInhibit(cmd)
             /\ UNCHANGED <<scDac, scIn, scRefused, scFaults>>
    /\ UNCHANGED <<scScan, fLastDacs, scConnected, scSetting, scMistaken, scMarks, scEvents>>

\* Each mark is one second after the last and has counted three edges more.
DaemonMarks ==
    /\ scConnected /\ scMarks < MaxMarks /\ scMarks' = scMarks + 1
    /\ scIn' = Append(scIn, [type |-> "mark", mark |-> [count |-> (3 * scMarks') % CounterRange, time |-> scMarks']])
    /\ UNCHANGED <<scScan, fLastDacs, scConnected, scOut, scDaemon, scHistory, scEvents, scFaults>>

ScanNext ==
    \/ \E i \in ScanInputs : StartScan(i)
    \/ StopScan \/ ScanReceive \/ ScanDisconnect \/ ScanConnect \/ UserSets \/ DaemonHandles \/ DaemonMarks

ScanSpec == ScanInit /\ [][ScanNext]_scVars

-----------------------------------------------------------------------------
(* The property.                                                            *)

\* When no scan is under way and everything has arrived, the daemon has the voltages the user set,
\* however the scans before ended and whatever else the user moved meanwhile, and was told over this
\* connection to inhibit nothing.  Excepted are a channel whose last setting the DAC refused, the bus
\* failed or the connection lost, and one whose scan was begun with another voltage read back than the
\* user's, or was cut off by a lost connection, until the user sets it again; what the user sets of the
\* channel under a scan does not count, the scan overwrites it.  During a scan every value
\* but the first, which is the minimum even of a range that is empty, stays within the range, and a
\* point counts every edge of its time.
ScanLeavesNoTrace ==
    /\ scConnected /\ ~scActive /\ scOut = <<>> =>
          /\ \A c \in Channels \ (scRefused \cup scMistaken) : scDac[c] = scSetting[c]
          /\ ~scTold.gpio /\ ~scTold.mqtt
    /\ scActive /\ scStep > 0 => scCurrent \in {scLimits[1]} \cup scLimits[1] .. scLimits[2]
    /\ \A p \in scanData : p.counts = 3 * p.time /\ (p.time > scMaxTime \/ (p.counts > scMaxCounts /\ p.time > 1))
=============================================================================
