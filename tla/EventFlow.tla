------------------------------ MODULE EventFlow ------------------------------
(***************************************************************************)
(* How events travel over the daemon's bus, from a source, a driver or a   *)
(* client's command to the data store and the clients:                     *)
(* daemon/src/core/event_bindings.{h,cpp}, the subscriptions that          *)
(* SystemBuilder::build() makes (system_builder.cpp), those of the drivers *)
(* (gpio_driver.cpp, mcp4728_driver.cpp, ads1115_driver.cpp,               *)
(* pca9536_driver.cpp, serialublox.cpp) and of the log parameter processor *)
(* (log_parameter_processor.cpp).                                          *)
(*                                                                         *)
(* One worker delivers the events in the order of their publication;       *)
(* EventBindings has what several workers do to each other.  The value of  *)
(* an event is the number of the stimulus that caused it, so a stale value *)
(* can be told from a new one.  Both channels of a preamplifier, the four  *)
(* of the DAC and all message rates are one value here.                    *)
(***************************************************************************)
EXTENDS Messages

CONSTANT MaxStimuli     \* bound: what sources, clients and faults of the hardware do

ASSUME EventFlowAssumption == MaxStimuli \in Nat

VARIABLES
    flQueue,        \* the events published and not yet delivered
    flStore,        \* DataStore: the value stored of each type, 0 for none
    flTold,         \* what the client was sent last of each type, 0 for nothing
    flClient,       \* whether the client is connected
    flMode,         \* GeoPosManager: the mode of the position
    flNow,          \* history: the true value of each type
    flSaid,         \* history: the value a source or a driver reported last of each type
    flMisled,       \* history: the types whose driver reported what is not so, or kept a change to itself
    flCount         \* history: the stimuli so far

flTruth == <<flNow, flSaid, flMisled>>
flVars == <<flQueue, flStore, flTold, flClient, flMode, flNow, flSaid, flMisled, flCount>>

\* What a driver takes for a value when the device could not be read: no value of a stimulus.
Garbage == MaxStimuli + 2

\* An event is plain, wrapped in a DatastoreStoreEvent, or the command to set the line behind a type.
Plain(t, v) == [kind |-> "plain", type |-> t, value |-> v]
Wrapped(t, v) == [kind |-> "store", type |-> t, value |-> v]
GpioSignalSetCmd(t, v) == [kind |-> "signal", type |-> t, value |-> v]

-----------------------------------------------------------------------------
(* Subscriptions.                                                           *)

\* EventBindings::setupDatastore(): the types subscribe_all() binds.
subscribe_all ==
    {"CfgGNSS", "CfgAnt", "CfgNavX5", "CfgNav5", "NavSat", "MonTx", "MonRx", "NavStatus", "NavClock",
     "UbxTimeMarkStruct", "UbxTimePulseStruct", "GnssMonHwStruct", "GnssMonHw2Struct", "NavTimeGPS",
     "NavTimeUTC", "MqttStatusEvent", "UbxDopStruct", "AdcTraceEvent", "BiasSwitchEvent",
     "GainSwitchEvent", "CalibEvent", "ShowerDetectorCalib", "GpioRateEvent", "GpioInhibitEvent",
     "TemperatureEvent", "MCP4728Event", "PcaSwitchEvent", "PolaritySwitchEvent", "GpsVersion",
     "EventTriggerEvent", "LogInfoStruct", "PositionModeConfig", "VersionEvent"}

\* The requests that are answered from the store: the type they need and the events they make.
ThresholdEvents == <<"ThresholdSettingEvent", "ThresholdSettingEvent">>
Answered(t) == [needs |-> t, sends |-> <<t>>]
Requests ==
    [ThresholdSettingRequestCmd |-> [needs |-> "MCP4728Event", sends |-> ThresholdEvents],
     BiasVoltageRequestCmd |-> [needs |-> "MCP4728Event", sends |-> <<"BiasVoltageEvent">>],
     PcaSwitchRequestCmd |-> Answered("PcaSwitchEvent"),
     BiasSwitchRequestCmd |-> Answered("BiasSwitchEvent"),
     PolaritySwitchRequestCmd |-> Answered("PolaritySwitchEvent"),
     GainSwitchRequestCmd |-> Answered("GainSwitchEvent"),
     GpioRateRequestCmd |-> Answered("GpioRateEvent"),
     TemperatureRequestCmd |-> Answered("TemperatureEvent"),
     CalibRequestCmd |-> Answered("CalibEvent"),
     EventTriggerRequestCmd |-> Answered("EventTriggerEvent"),
     DacSettingRequestCmd |-> Answered("MCP4728Event"),
     PreampSwitchRequestCmd |-> [needs |-> "PreampSwitchEvent",
                                 sends |-> <<"PreampSwitchEvent", "PreampSwitchEvent">>],
     UbxMsgRateRequestCmd |-> Answered("CfgMsg")]

\* LogParameterProcessor::setup(): the events that make log parameters.
LoggedOfBoard ==
    {"UbxTimeMarkStruct", "UbxDopStruct", "GpioRateEvent", "ADS1115Event", "GpioEvent",
     "BiasVoltageEvent", "BiasSwitchEvent", "ThresholdSettingEvent"}
LoggedOfReceiver ==
    {"GnssMonHwStruct", "NavSat", "MonTx", "MonRx", "NavClock", "NavStatus", "GpsVersion",
     "TemperatureEvent", "PcaSwitchEvent"}

\* The commands of the GPIO driver that set one line, by the type that tells its state.
LineCommands ==
    [BiasSwitchCmd |-> "BiasSwitchEvent", PreampSwitchCmd |-> "PreampSwitchEvent",
     GainSwitchCmd |-> "GainSwitchEvent"]

\* The commands to the receiver, by the type that tells the result, which is polled.  UbxMsgRateCmd
\* has no handler: its subscription is commented out.
ReceiverCommands == [UbxGnssConfigCmd |-> "CfgGNSS", UbxTp5Cmd |-> "UbxTimePulseStruct"]

\* What changes the hardware, or a setting that some driver keeps.
Operations == DOMAIN ReceiverCommands
    \cup {"ThresholdSettingCmd", "BiasVoltageCmd", "PcaSwitchCmd", "EventTriggerCmd", "PolaritySwitchCmd",
          "GpioInhibitEvent", "AdcModeEvent", "MqttStatusEvent", "PositionModeCmd"}

-----------------------------------------------------------------------------
(* Delivery: what the handlers of an event publish.                         *)

Seq1(e, condition) == IF condition THEN <<e>> ELSE <<>>

\* The sequence of plain events of the types.
Plains(types, v) == [i \in DOMAIN types |-> Plain(types[i], v)]

\* subscribe_one(): the stored value is published; nothing more.
subscribe_one(t, v) == <<Plain(t, v)>>

\* DatastoreStoreEvent<PreampSwitchEvent>: the first one is not announced.
storePreamp == Seq1(Plain("PreampSwitchRequestCmd", 0), flStore["PreampSwitchEvent"] # 0)

\* A mutant of processGeoPos(): the position is published to be stored.
PublishesWrapped(v) == <<Plain("GnssPosStruct", v), Wrapped("GnssPosStruct", v)>>

\* EventBindings::processGeoPos(): the position as the manager has it, and its mean height.
processGeoPos(v) == <<Plain("GnssPosStruct", v), Plain("LogParameter", v)>>

StoreOutputs(t, v) ==
    CASE t \in subscribe_all -> subscribe_one(t, v)
      [] t = "PreampSwitchEvent" -> storePreamp
      [] t = "CfgMsg" -> Seq1(Plain("CfgMsg", v), flStore["CfgMsg"] # v)
      [] OTHER -> <<>>            \* StatusLedEvent and the acknowledgements of the receiver

\* EventBindings::pollDatastore(): the requests, what is stored of the receiver and of the daemon
\* itself, and the histograms.  A type that was never stored is passed over.
PolledRequests ==
    <<"BiasSwitchRequestCmd", "DacSettingRequestCmd", "PcaSwitchRequestCmd", "EventTriggerRequestCmd",
      "CalibRequestCmd", "GainSwitchRequestCmd", "GpioRateRequestCmd", "TemperatureRequestCmd",
      "PolaritySwitchRequestCmd", "PreampSwitchRequestCmd">>

Stored(t) == Seq1(Plain(t, flStore[t]), flStore[t] # 0)

PolledOfReceiver ==
    Stored("GpsVersion") \o Stored("CfgGNSS") \o Stored("NavSat") \o Stored("MonTx") \o Stored("MonRx")
    \o Stored("NavStatus") \o Stored("NavClock") \o Stored("UbxTimePulseStruct")
    \o Stored("GnssMonHwStruct") \o Stored("GnssMonHw2Struct")

\* A mutant: a type is forgotten.
PolledWithoutLog ==
    Stored("MqttStatusEvent") \o Stored("GpioInhibitEvent") \o Stored("TemperatureEvent")
    \o Stored("PositionModeConfig") \o Stored("VersionEvent")

PolledOfDaemon ==
    Stored("MqttStatusEvent") \o Stored("GpioInhibitEvent") \o Stored("TemperatureEvent")
    \o Stored("PositionModeConfig") \o Stored("VersionEvent") \o Stored("LogInfoStruct")

pollDatastore == Plains(PolledRequests, 0) \o PolledOfReceiver \o PolledOfDaemon \o <<Plain("Histogram", 0)>>

PlainOutputs(t, v) ==
    (IF t \in DOMAIN Requests /\ flStore[Requests[t].needs] # 0
       THEN Plains(Requests[t].sends, flStore[Requests[t].needs]) ELSE <<>>)
    \o Seq1(Plain("LogParameter", v), t \in LoggedOfBoard \cup LoggedOfReceiver)
    \o (IF t = "MCP4728Event" THEN Plains(ThresholdEvents \o <<"BiasVoltageEvent">>, v) ELSE <<>>)
    \o (CASE t = "AdcModeRequestCmd" -> <<Plain("AdcModeEvent", flNow["AdcModeEvent"])>>
          [] t = "I2CStatsRequestCmd" -> <<Plain("I2CStatsEvent", v)>>
          [] t = "SPIStatsRequestCmd" -> <<Plain("SPIStatsEvent", v)>>
          [] t = "HistogramRequestCmd" -> <<Plain("Histogram", 0)>>
          [] t = "HistogramClearCmd" -> <<Plain("shared_ptr<Histogram>", 0)>>
          [] t = "PositionModeCmd" -> <<Plain("PositionModeConfig", v)>>
          [] t = "ServerConnCountEvent" ->
               pollDatastore \o Seq1(Plain("GnssPosStruct", flNow["GnssPosStruct"]), flMode = "Static")
          [] t \in DOMAIN LineCommands -> <<GpioSignalSetCmd(LineCommands[t], v)>>
          [] OTHER -> <<>>)

\* ADS1115Driver::sampleAdcEvent(): what a sample leads to: nothing when the mode is disabled, the
\* sample, or the trace that it completes.  The signal that is the event trigger, which none of the
\* lines written at the start is, begins a trace.
Sampled(t, v) ==
    {<<>>} \cup (IF t = "AdcSampleTriggerCmd" THEN {<<Plain("ADS1115Event", v)>>, <<Plain("AdcTraceEvent", v)>>}
                ELSE IF t = "GpioEvent" /\ v # 1 THEN {<<Plain("ADS1115Event", v)>>} ELSE {})

\* EventBus: the oldest event goes to all handlers of its type; what they publish is queued.
Handled(outputs) == flQueue' = Tail(flQueue) \o outputs

\* TcpSink::handle() for the types it is subscribed to.
SentTypes == {c.type : c \in setupTcpSink}
Sent(t, v) == flTold' = IF flClient /\ t \in SentTypes THEN [flTold EXCEPT ![t] = v] ELSE flTold

\* A wrapped event: it is stored, or given to the manager of positions.
DeliverWrapped ==
    /\ flQueue # <<>> /\ Head(flQueue).kind = "store"
    /\ LET t == Head(flQueue).type
           v == Head(flQueue).value
       IN /\ flStore' = IF t \in subscribe_all \cup {"PreampSwitchEvent", "CfgMsg"}
                          THEN [flStore EXCEPT ![t] = v] ELSE flStore
          /\ IF t = "GnssPosStruct"
               THEN \/ flMode = "Auto" /\ Handled(processGeoPos(v)) /\ UNCHANGED flMode
                    \/ flMode = "LockIn" /\ Handled(processGeoPos(v)) /\ flMode' = "Static"
                    \/ Handled(<<>>) /\ UNCHANGED flMode      \* static, or not good enough
               ELSE Handled(StoreOutputs(t, v)) /\ UNCHANGED flMode
    /\ UNCHANGED <<flTold, flClient, flTruth, flCount>>

\* The hardware does what it is told, or it does not.
Works == UNCHANGED flCount
Fails == flCount < MaxStimuli /\ flCount' = flCount + 1

\* The value of a type becomes v and is reported; now is true and said is reported; v is true and
\* nobody is told.
Reports(t, v) ==
    /\ flNow' = [flNow EXCEPT ![t] = v] /\ flSaid' = [flSaid EXCEPT ![t] = v] /\ flMisled' = flMisled \ {t}
Misreports(t, now, said) ==
    /\ flNow' = [flNow EXCEPT ![t] = now] /\ flSaid' = [flSaid EXCEPT ![t] = said]
    /\ flMisled' = flMisled \cup {t}
Conceals(t, v) == flNow' = [flNow EXCEPT ![t] = v] /\ flMisled' = flMisled \cup {t} /\ UNCHANGED flSaid

\* GpioDriver, GpioSignalSetCmd: the line is written, which is told as an edge, and its state is to be
\* stored, or writing fails.
DeliverSignal ==
    /\ flQueue # <<>> /\ Head(flQueue).kind = "signal"
    /\ LET t == Head(flQueue).type
           v == Head(flQueue).value
       IN \/ Works /\ Reports(t, v) /\ Handled(<<Plain("GpioEvent", v), Wrapped(t, v)>>)
          \/ Fails /\ Handled(<<>>) /\ UNCHANGED flTruth
    /\ UNCHANGED <<flStore, flTold, flClient, flMode>>

\* MCP4728Driver::readDac(), when the DAC has the value now: a failed read gives zeros, which are
\* reported as the voltages.
readDac(now, outputs) ==
    \/ /\ Works /\ Reports("MCP4728Event", now)
       /\ Handled(outputs \o <<Wrapped("MCP4728Event", now)>>)
    \/ /\ Fails /\ Misreports("MCP4728Event", now, Garbage)
       /\ Handled(outputs \o <<Wrapped("MCP4728Event", Garbage)>>)

\* MCP4728Driver::setDacValue(): a threshold is read back; the bias and the fourth channel are not.
\* A negative value is refused, and a failed write is not answered.
setDacValue(v) ==
    \/ readDac(v, <<>>)
    \/ Works /\ Conceals("MCP4728Event", v) /\ Handled(<<>>)
    \/ Fails /\ Handled(<<>>) /\ UNCHANGED flTruth

\* MCP4728Driver::setBiasVoltage(): read back whether it could be set or not.
setBiasVoltage(v) == \E now \in {v, flNow["MCP4728Event"]} : readDac(now, <<>>)

\* PCA9536Driver::setOutputState(): what was to be set is reported, whether it was set or not.
setOutputState(v) ==
    /\ \/ Works /\ Reports("PcaSwitchEvent", v)
       \/ Fails /\ Misreports("PcaSwitchEvent", flNow["PcaSwitchEvent"], v)
    /\ Handled(<<Wrapped("PcaSwitchEvent", v), Plain("LogParameter", v)>>)

\* ADS1115Driver, EventTriggerCmd.
setEventTrigger(v) ==
    Works /\ Reports("EventTriggerEvent", v) /\ Handled(<<Wrapped("EventTriggerEvent", v)>>)

\* SerialUblox: the receiver is configured and polled.  It takes the configuration or not, and its
\* answer may be lost.
configureReceiver(t, v) ==
    \/ Works /\ Reports(ReceiverCommands[t], v) /\ Handled(<<Wrapped(ReceiverCommands[t], v)>>)
    \/ Fails /\ Handled(<<>>) /\ (UNCHANGED flTruth \/ Conceals(ReceiverCommands[t], v))

\* GpioDriver, PolaritySwitchCmd: the two lines are written one after the other.  When the second
\* fails the polarity is neither the old one nor the new, and only the edge of the first is told.
switchPolarity(v) ==
    \/ /\ Works /\ Reports("PolaritySwitchEvent", v)
       /\ Handled(<<Plain("GpioEvent", v), Plain("GpioEvent", v), Wrapped("PolaritySwitchEvent", v)>>)
    \/ Fails /\ Handled(<<>>) /\ UNCHANGED flTruth
    \/ Fails /\ Handled(<<Plain("GpioEvent", v)>>) /\ Conceals("PolaritySwitchEvent", Garbage)

\* GeoPosManager::set_mode_config(): the mode, and the position when it is static.
set_mode_config(v) ==
    /\ flMode' \in {"Auto", "LockIn", "Static"}
    /\ flNow' = [flNow EXCEPT !["PositionModeConfig"] = v,
                             !["GnssPosStruct"] = IF flMode' = "Static" THEN v ELSE @]
    /\ flSaid' = [flSaid EXCEPT !["PositionModeConfig"] = v] /\ UNCHANGED flMisled
    /\ Handled(PlainOutputs("PositionModeCmd", v)) /\ Works

\* The handler of an event that does something to the hardware, or fails to.  The inhibit switch, the
\* mode of the ADC and the status of MQTT are told by the very event that changes them.
Operate(t, v) ==
    \/ t = "PositionModeCmd" /\ set_mode_config(v)
    \/ /\ \/ t = "ThresholdSettingCmd" /\ setDacValue(v)
          \/ t = "BiasVoltageCmd" /\ setBiasVoltage(v)
          \/ t = "PcaSwitchCmd" /\ setOutputState(v)
          \/ t = "EventTriggerCmd" /\ setEventTrigger(v)
          \/ t \in DOMAIN ReceiverCommands /\ configureReceiver(t, v)
          \/ t = "PolaritySwitchCmd" /\ switchPolarity(v)
          \/ /\ t \in {"GpioInhibitEvent", "AdcModeEvent", "MqttStatusEvent"}
             /\ Works /\ Reports(t, v) /\ Handled(PlainOutputs(t, v))
       /\ UNCHANGED flMode

\* A plain event: the drivers, the store and the TCP sink.
DeliverPlain ==
    /\ flQueue # <<>> /\ Head(flQueue).kind = "plain"
    /\ LET t == Head(flQueue).type
           v == Head(flQueue).value
       IN /\ Sent(t, v)
          /\ flStore' = IF t = "MqttStatusEvent" THEN [flStore EXCEPT ![t] = v] ELSE flStore
          /\ \/ t \in Operations /\ Operate(t, v)
             \/ /\ t = "DacSettingRequestCmd" /\ UNCHANGED flMode
                /\ readDac(flNow["MCP4728Event"], PlainOutputs(t, v))
             \/ /\ t \notin Operations \cup {"DacSettingRequestCmd"}
                /\ \E samples \in Sampled(t, v) : Handled(PlainOutputs(t, v) \o samples)
                /\ Works /\ UNCHANGED <<flMode, flTruth>>
    /\ UNCHANGED flClient

Deliver == DeliverWrapped \/ DeliverSignal \/ DeliverPlain

-----------------------------------------------------------------------------
(* Stimuli.                                                                 *)

\* The types that sources of the daemon publish wrapped and plain.
Sources ==
    {"CfgGNSS", "CfgAnt", "CfgNavX5", "CfgNav5", "NavSat", "MonTx", "MonRx", "NavStatus", "NavClock",
     "UbxTimeMarkStruct", "UbxTimePulseStruct", "GnssMonHwStruct", "GnssMonHw2Struct", "NavTimeGPS",
     "NavTimeUTC", "UbxDopStruct", "CalibEvent", "ShowerDetectorCalib", "GpioRateEvent",
     "TemperatureEvent", "GpsVersion", "LogInfoStruct", "GnssPosStruct", "CfgMsg", "UbxAckAck",
     "StatusLedEvent"}
PlainSources ==
    {"MqttStatusEvent", "GpioEvent", "ADS1115Event", "AdcTraceEvent", "IntervalEvent",
     "HistogramRequestCmd"}

\* What the command decoder publishes for the commands of a client.
DecodedTypes ==
    ({TcpCommandDecoder[k].type : k \in DOMAIN TcpCommandDecoder}
        \ {"UbxTimePulseStruct", "PositionModeConfig"}) \cup {"UbxTp5Cmd", "PositionModeCmd"}

Stimulus(e) ==
    /\ flCount < MaxStimuli /\ flQueue = <<>>
    /\ flQueue' = <<e>> /\ flCount' = flCount + 1
    /\ UNCHANGED <<flStore, flTold, flClient, flMode>>

\* A source has read a new value.
Source ==
    LET v == flCount + 2
    IN \/ \E t \in Sources : Stimulus(Wrapped(t, v)) /\ Reports(t, v)
       \/ \E t \in PlainSources : Stimulus(Plain(t, v)) /\ Reports(t, v)

Command ==
    /\ flClient
    /\ \E t \in DecodedTypes : Stimulus(Plain(t, flCount + 2))
    /\ UNCHANGED flTruth

\* LogParameterProcessor::poll(), which ends early when the ADC or the calibration is missing.
Poll ==
    /\ flCount < MaxStimuli /\ flQueue = <<>>
    /\ flCount' = flCount + 1
    /\ \/ flQueue' = <<Plain("LogParameter", 0)>>
       \/ /\ flStore["ShowerDetectorCalib"] # 0
          /\ flQueue' = <<Plain("LogParameter", 0), Plain("BiasCurrentEvent", 0), Plain("Histogram", 0)>>
    /\ UNCHANGED <<flStore, flTold, flClient, flMode, flTruth>>

\* A client connects, at any time, and the server publishes it; it leaves, and forgets.
Connect ==
    /\ ~flClient /\ flClient' = TRUE
    /\ flQueue' = Append(flQueue, Plain("ServerConnCountEvent", 0))
    /\ UNCHANGED <<flStore, flTold, flMode, flTruth, flCount>>

Leave ==
    /\ flClient /\ flClient' = FALSE /\ flCount < MaxStimuli /\ flCount' = flCount + 1
    /\ flTold' = [t \in DOMAIN flTold |-> 0]
    /\ UNCHANGED <<flQueue, flStore, flMode, flTruth>>

-----------------------------------------------------------------------------
Types == subscribe_all \cup SentTypes \cup Sources \cup PlainSources \cup {"PreampSwitchEvent"}

\* What SystemBuilder::build() stores and publishes, after the drivers' constructors.  That of the DAC
\* reports what it read, which may have failed, before the configured voltages were set.
Preset == {"PositionModeConfig", "VersionEvent", "EventTriggerEvent", "GpioInhibitEvent", "MqttStatusEvent"}
StartUp(read) ==
    <<Wrapped("PcaSwitchEvent", 1), Wrapped("MCP4728Event", read), Plain("LogParameter", 1)>>
    \o Plains(<<"BiasSwitchCmd", "PreampSwitchCmd", "PreampSwitchCmd", "GainSwitchCmd">>, 1)
    \o <<Wrapped("StatusLedEvent", 1), Plain("EventTriggerCmd", 1), Plain("PolaritySwitchCmd", 1),
         Plain("UbxConfigDefaultCmd", 1)>>

FlowInit ==
    /\ flQueue = <<>> /\ flClient = FALSE /\ flMode = "Auto" /\ flCount = 0
    /\ flStore = <<>> /\ flTold = <<>> /\ flNow = <<>> /\ flSaid = <<>> /\ flMisled = {}

Built == flStore # <<>>

\* SystemBuilder::build(), in one step: what it publishes is delivered when it has ended.
build ==
    /\ ~Built
    /\ LET Known == Preset \cup {"PcaSwitchEvent", "MCP4728Event", "AdcModeEvent"}
       IN \E misled \in SUBSET {"PcaSwitchEvent", "MCP4728Event"} :
            LET read == IF "MCP4728Event" \in misled THEN Garbage ELSE 1
            IN /\ IF misled = {} THEN Works ELSE Fails
               /\ flMisled' = misled /\ flQueue' = StartUp(read)
               /\ flSaid' = [t \in Types |-> IF t = "MCP4728Event" THEN read ELSE IF t \in Known THEN 1 ELSE 0]
               /\ flNow' = [t \in Types |->
                     IF t = "PcaSwitchEvent" /\ t \in misled THEN Garbage ELSE IF t \in Known THEN 1 ELSE 0]
    /\ flStore' = [t \in Types |-> IF t \in Preset THEN 1 ELSE 0]
    /\ flTold' = [t \in Types |-> 0]
    /\ UNCHANGED <<flClient, flMode>>

FlowNext ==
    \/ build
    \/ Built /\ (Deliver \/ Source \/ Command \/ Poll \/ Connect \/ Leave)

\* The workers of the pool run.
FlowFairness == WF_flVars(Deliver)

FlowSpec == FlowInit /\ [][FlowNext]_flVars /\ FlowFairness

-----------------------------------------------------------------------------
(* Properties.                                                              *)

\* "This will trigger infinite loop" (event_bindings.cpp:147): no event sets off a cascade that
\* feeds itself, whatever is stored and whoever is connected.
CascadeEnds == [](flQueue # <<>> => <>(flQueue = <<>>))

\* What a client shows of the station.  The mode of the position and the inhibit switch are excepted: a
\* command that changes them is told to the clients of the moment and never stored.  The event trigger,
\* which the window decodes (gui/src/mainwindow.cpp:754), is stored and polled and never sent: TcpSink
\* is not subscribed to it.  The preamplifiers, whose first state is not announced, are in EventBindings.
NotKept == {"PositionModeConfig", "GpioInhibitEvent"}
NeverSent == {"EventTriggerEvent"}
Shown ==
    {"GpsVersion", "CfgGNSS", "NavSat", "MonTx", "MonRx", "NavStatus", "NavClock", "UbxTimePulseStruct",
     "GnssMonHwStruct", "GnssMonHw2Struct", "MqttStatusEvent", "GpioInhibitEvent", "TemperatureEvent",
     "PositionModeConfig", "VersionEvent", "LogInfoStruct", "BiasSwitchEvent", "MCP4728Event",
     "PcaSwitchEvent", "CalibEvent", "GainSwitchEvent", "GpioRateEvent", "PolaritySwitchEvent",
     "EventTriggerEvent"}

\* What a client was told of a type that follows from another is what was reported of that last, and it
\* is so, unless a driver reported what is not so or kept a change to itself.
Informed(t, from) == flTold[t] = flSaid[from] /\ (flTold[t] = flNow[from] \/ from \in flMisled)

\* "Sends out all data which is needed on a new connection" (event_bindings.cpp:385): when no event is
\* on its way a client that connected at any time was told what a driver or a source reported last of
\* everything it shows, the thresholds and the bias voltage derived from the DAC included, and that is
\* the present value.  The exceptions are the drivers': a DAC read that failed, a bias or fourth channel
\* set as a threshold (mcp4728_driver.cpp:171-175), voltages set after they were read at the start
\* (54-95), a port that could not be switched (pca9536_driver.cpp:55), one of two polarity lines
\* written, and a lost answer of the receiver.
ClientIsCurrent ==
    flClient /\ flQueue = <<>> =>
        /\ \A t \in Shown \ (NotKept \cup NeverSent) : Informed(t, t)
        /\ \A t \in {"ThresholdSettingEvent", "BiasVoltageEvent"} : Informed(t, "MCP4728Event")
=============================================================================
