---------------------------- MODULE MCComponents ----------------------------
(* The components of which only safety is checked, in one model.  They      *)
(* share no state, so a behaviour is one of a single component, which       *)
(* `part` names; the others rest.                                           *)
EXTENDS UbxParser, MessageProcessor, GpioDriver, CounterRate, I2cDevice, AdcDriver, Dac,
        Calibration, GeoPos, Protocol, FileSink, Configuration, Histograms, Sds011, ScanForm,
        NetworkDiscovery

VARIABLE part

Parts ==
    {"parser", "processor", "gpio", "counter", "i2c", "adc", "dac", "calibration", "position",
     "protocol", "files", "configuration", "histograms", "dust", "scan", "discovery"}

\* A start with nothing unusual.
One == [text |-> "1", int |-> <<1>>]
ThreeHundred == [text |-> "300", int |-> <<300>>]
Debug == [text |-> "Debug", int |-> <<>>]
GoodSettings ==
    [s \in {"geo_handling", "mode"} |-> Text("Static")]
    @@ [s \in {"lon", "lat", "alt"} |-> [type |-> "float", value |-> 7]]
HardwareList == {[id |-> "ADC", known |-> TRUE, typed |-> TRUE, category |-> "i2c", address |-> a] : a \in {72, 300}}
ComponentList == {[id |-> "ADC", known |-> k, every |-> <<1>>] : k \in BOOLEAN}
GoodStart ==
    [file |-> NoFile, settings |-> Holding(GoodSettings), hardware |-> Holding(HardwareList),
     components |-> Holding(ComponentList), dev |-> {}, typed |-> {Flag("d"), Flag("b"), One, Debug}]

\* A feed of few histograms.
Shape(auto) == [min |-> 0, max |-> 100, auto |-> auto]
Scaled(names, fixed) == [n \in names |-> Shape(TRUE)] @@ [n \in fixed |-> Shape(FALSE)]
Currents ==
    [events |-> {[type |-> "BiasCurrentEvent", ibias |-> i] : i \in {-30, 20, 95, 240}}, max |-> 7,
     shapes |-> Scaled({"Bias Current"}, {})]

Init ==
    /\ part \in Parts
    /\ UbxInit /\ MpInit /\ GpioInit /\ CounterInit /\ I2cInit /\ AdcInit /\ DacInit /\ CalInit
    /\ GeoInit /\ ProtocolInit /\ FileInit /\ CfInit /\ HistoInit /\ SdsInit /\ ScanInit /\ DiscoveryInit
    /\ part = "configuration" \/ cfStart = GoodStart
    /\ part = "histograms" \/ hFeed = Currents
    /\ part = "dust" \/ sdsSleep = CHOOSE n \in SleepTimes : TRUE

\* Groups of components.
SerialVars == <<ubxVars, mpVars>>
LineVars == <<gpioVars, counterVars>>
BusVars == <<i2cVars, adcVars, dacVars, calVars>>
ServiceVars == <<geoVars, protocolVars, fileVars>>
HostVars == <<cfVars, hVars, sdsVars>>
ClientVars == <<scVars, ndVars>>
allVars == <<part, SerialVars, LineVars, BusVars, ServiceVars, HostVars, ClientVars>>

RunSerial ==
    /\ \/ part = "parser" /\ UbxNext /\ UNCHANGED mpVars
       \/ part = "processor" /\ MpNext /\ UNCHANGED ubxVars
    /\ UNCHANGED <<part, LineVars, BusVars, ServiceVars, HostVars, ClientVars>>
RunLines ==
    /\ \/ part = "gpio" /\ GpioNext /\ UNCHANGED counterVars
       \/ part = "counter" /\ CounterNext /\ UNCHANGED gpioVars
    /\ UNCHANGED <<part, SerialVars, BusVars, ServiceVars, HostVars, ClientVars>>
RunBus ==
    /\ \/ part = "i2c" /\ I2cNext /\ UNCHANGED <<adcVars, dacVars, calVars>>
       \/ part = "adc" /\ AdcNext /\ UNCHANGED <<i2cVars, dacVars, calVars>>
       \/ part = "dac" /\ DacNext /\ UNCHANGED <<i2cVars, adcVars, calVars>>
       \/ part = "calibration" /\ CalNext /\ UNCHANGED <<i2cVars, adcVars, dacVars>>
    /\ UNCHANGED <<part, SerialVars, LineVars, ServiceVars, HostVars, ClientVars>>
RunServices ==
    /\ \/ part = "position" /\ GeoNext /\ UNCHANGED <<protocolVars, fileVars>>
       \/ part = "protocol" /\ ProtocolNext /\ UNCHANGED <<geoVars, fileVars>>
       \/ part = "files" /\ FileNext /\ UNCHANGED <<geoVars, protocolVars>>
    /\ UNCHANGED <<part, SerialVars, LineVars, BusVars, HostVars, ClientVars>>
RunHost ==
    /\ \/ part = "configuration" /\ CfNext /\ UNCHANGED <<hVars, sdsVars>>
       \/ part = "histograms" /\ HistoNext /\ UNCHANGED <<cfVars, sdsVars>>
       \/ part = "dust" /\ SdsNext /\ UNCHANGED <<cfVars, hVars>>
    /\ UNCHANGED <<part, SerialVars, LineVars, BusVars, ServiceVars, ClientVars>>
RunClient ==
    /\ \/ part = "scan" /\ ScanNext /\ UNCHANGED ndVars
       \/ part = "discovery" /\ DiscoveryNext /\ UNCHANGED scVars
    /\ UNCHANGED <<part, SerialVars, LineVars, BusVars, ServiceVars, HostVars>>

Next == RunSerial \/ RunLines \/ RunBus \/ RunServices \/ RunHost \/ RunClient

Spec == Init /\ [][Next]_allVars

-----------------------------------------------------------------------------
(* The data of the instance.                                                *)

\* Frames, with and without a payload that looks like the start of one; pieces
\* and spoilt copies of them; one too long.
EmptyFrame == RawMessage([cls |-> 1, id |-> 2, payload |-> <<>>])
FullFrame == RawMessage([cls |-> 200, id |-> 100, payload |-> <<SYNC_1, SYNC_2>>])
TooLong == RawMessage([cls |-> 1, id |-> 1, payload |-> <<0, SYNC_1, 0>>])
LinePieces ==
    {EmptyFrame, FullFrame, TooLong, <<SYNC_1>>, <<SYNC_2>>, SubSeq(FullFrame, 1, 8),
     [EmptyFrame EXCEPT ![7] = Byte(@ + 1)], [FullFrame EXCEPT ![10] = Byte(@ + 1)]}

\* What may follow PROTVER: every text of up to three characters, and longer usual ones.
ProtverTexts ==
    UNION {[1..n -> CharKinds] : n \in 0..3}
    \cup {<<"sign", "digit", "dot", "digit", "nul">>, <<"space", "digit", "digit", "dot", "digit">>}

Layout == <<1, 2, 2>>

\* Starts of the daemon: every setting with every kind of entry in the file and the options about
\* it, and every way in which a file or a device can be missing.
EntryKinds ==
    {Text("local"), Text("x"), Number(-1), Number(2), Number(256), Number(65536), Boolean(TRUE), Boolean(FALSE)}
OneEntry(s, e) == Holding([x \in {s} |-> e])
OptionsAbout(s) ==
    {Flag(k) : k \in {o \in DOMAIN OptionSetting : OptionSetting[o] = s} \cup {o \in DOMAIN SwitchSetting : SwitchSetting[o] = s}}
Typed == DOMAIN SystemConfig \ {"mqtt", "geo_mode", "coordinates"}
InFile == Typed \ {"logging", "gnss_dump_raw", "showin", "showout", "thresholds", "bias"}
OneSetting ==
    {[GoodStart EXCEPT !.typed = OptionsAbout(s) \cup {Flag("d"), Flag("unknown"), One, ThreeHundred, Debug}] : s \in Typed}
    \cup {[GoodStart EXCEPT !.file = OneEntry(s, e), !.typed = OptionsAbout(s) \cup {Flag("d"), One}] : s \in InFile, e \in EntryKinds}
OneFile ==
    {[GoodStart EXCEPT !.file = f] :
        f \in {NoFile, Bad, Holding([x \in {"mqtt_user", "mqtt_password"} |-> Text("u")]), OneEntry("mqtt_user", Text("u"))}}
    \cup {[GoodStart EXCEPT !.settings = f] :
        f \in {NoFile, Bad, OneEntry("mode", Text("LockIn")), OneEntry("geo_handling", Text("x"))}}
    \cup {[GoodStart EXCEPT !.hardware = f] : f \in {NoFile, Bad}}
    \cup {[GoodStart EXCEPT !.components = f] : f \in {NoFile, Bad}}
AllStarts ==
    OneSetting \cup OneFile
    \cup {[GoodStart EXCEPT !.dev = d] : d \in SUBSET {"/dev/ttyS0", "/dev/serial0", "/dev/gpiochip0"}}
    \cup {[GoodStart EXCEPT !.typed = {Flag(k) : k \in o} \cup {One, Debug}] : o \in {{"l", "h", "p", "bias"}, {"th1", "th2", "t"}}}

\* Events for the other histograms, by where they come from.
GnssEvents ==
    [events |-> {[type |-> "UbxDopStruct", v |-> v, h |-> 1, p |-> 2, t |-> 3] : v \in {0, 1, 5}}
                \cup {[type |-> "GnssPosStruct", vAcc |-> a, hAcc |-> 5, lockIn |-> l, height |-> 300, lon |-> 7, lat |-> 8] :
                        a \in {5, 200}, l \in BOOLEAN},
     max |-> 4, shapes |-> Scaled({"geoHeight", "weightedGeoHeight", "geoLongitude", "geoLatitude", "pDOP", "tDOP"}, {})]
Pulses ==
    [events |-> {[type |-> "UbxTimeMarkStruct", rising |-> r, falling |-> 40, fallingValid |-> TRUE] : r \in {30, 50, 2000}}
                \cup {[type |-> "GpioEvent", sig |-> "TIMEPULSE", edge |-> e, time |-> t] :
                        e \in {"rising", "falling"}, t \in {10, 21, 29}},
     max |-> 4, shapes |-> Scaled({"UbxEventLength", "UbxEventInterval", "TPTimeJitter"}, {"TPTimePhase"})]
BoardEvents ==
    [events |-> {[type |-> "ADS1115Event", channel |-> c, voltage |-> 3, convTime |-> 9] : c \in {"amplitude", "bias2"}}
                \cup {[type |-> "IntervalEvent", sig |-> s, interval |-> 4] : s \in {"EVT_AND", "EVT_XOR"}}
                \cup {[type |-> "EventTriggerEvent", sig |-> "EVT_AND"], [type |-> "ShowerDetectorCalib", vdiv |-> 11]},
     max |-> 4, shapes |-> Scaled({"gpioEventInterval", "Bias Voltage", "adcSampleTime"}, {"gpioEventIntervalShort", "pulseHeight"})]
HistoFeeds == {Currents, GnssEvents, Pulses, BoardEvents}

\* Frames of the dust sensor, one with a payload that looks like a frame, and spoilt ones.
DustFrame(type, d) == <<HEAD, type>> \o d \o <<MapThenSumSet(LAMBDA k : d[k], 1..6) % 256, TAIL>>
Dust == DustFrame(DATA, <<HEAD, 1, DATA, 2, 7, 9>>)
DustPieces ==
    {DustFrame(ACK, <<t, 1, 0, 3, 4, 5>>) : t \in {2, 5, 6, 7, 8, 9}}
    \cup {Dust, <<HEAD>>, SubSeq(Dust, 1, 5), [Dust EXCEPT ![9] = @ + 1], [Dust EXCEPT ![10] = HEAD]}

DacReadFaults == {{0}}

\* Scans: a step given, of the bias beyond its range, of a threshold beyond its range with both limits, one
\* step only of the last DAC with an empty range, of time.
Scan(par, min, max, step, nr, time, stat) ==
    [par |-> par, min |-> min, max |-> max, step |-> step, nr |-> nr, time |-> time, stat |-> stat]
Scans ==
    {Scan(1, 1, 3, 2, 0, 0, 99), Scan(3, 2, 9, 0, 2, 0, 99), Scan(2, 2, 9, 7, 0, 9, 5),
     Scan(4, 3, 1, 0, 1, 0, 99), Scan(5, 0, 0, 0, 2, 1, 99)}

=============================================================================
