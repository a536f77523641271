------------------------------ MODULE Messages ------------------------------
(***************************************************************************)
(* What the daemon and its graphical client have to say to each other: the *)
(* codecs (library/src/capnp/capnp_codec.cpp), the events the TCP sink     *)
(* sends (event_bindings.cpp setupTcpSink), the client's decoder map and   *)
(* its commands (gui/src/mainwindow.cpp), and the daemon's command decoder *)
(* (daemon/src/sources/tcp_command_decoder.cpp).                           *)
(*                                                                         *)
(* A codec is the members of its type, each with the bits of the member    *)
(* and the bits of its field on the wire.                                  *)
(***************************************************************************)
EXTENDS Integers, Sequences

-----------------------------------------------------------------------------
(* The codecs.                                                              *)

\* Members put together, or the entries of two maps.
f ++ g == [m \in DOMAIN f \cup DOMAIN g |-> IF m \in DOMAIN f THEN f[m] ELSE g[m]]

Wire(bits, field, members) == [m \in members |-> <<bits, field>>]
Same(bits, members) == Wire(bits, bits, members)
Flags(members) == Same(1, members)
Texts(members) == Same(1, members)          \* a string is carried whole
Missing(bits, members) == Wire(bits, 0, members)
Codec(type, key, members) == [type |-> type, key |-> key, members |-> members]

Sds011Event == Codec("Sds011Event", "SDS011_SAMPLE", Same(16, {"id", "pm2dot5", "pm10dot0"}))
ADS1115Event == Codec("ADS1115Event", "ADC_SAMPLE",
    Same(32, {"deviceId", "voltage"}) ++ Same(8, {"channel"}) ++ Same(16, {"rawValue"})
      ++ Same(64, {"timestamp"}) ++ Missing(64, {"convTime"}))
NavSat == Codec("NavSat", "GNSS_SATS",
    Same(32, {"iTOW", "prRes"}) ++ Same(64, {"goodSats", "satellites"})
      ++ Same(9, {"version", "globFlags"})             \* optional: a flag and the bits
      ++ Same(8, {"numSvs", "GnssId", "SatId", "Cnr", "Elev", "Quality", "Health", "OrbitSource"})
      ++ Same(16, {"Azim"}) ++ Flags({"Used", "DiffCorr", "Smoothed"}))
GpioEvent == Codec("GpioEvent", "GPIO_EVENT",
    Same(8, {"gpio_signal", "edge"}) ++ Wire(32, 8, {"gpio_pin"}) ++ Same(64, {"timestamp"}))
AdcTraceEvent == Codec("AdcTraceEvent", "ADC_TRACE", Same(32, {"adcSampleBuffer"}))
CalibEvent == Codec("CalibEvent", "CALIB_SET",
    Flags({"valid", "eepromValid"}) ++ Same(64, {"id"}) ++ Texts({"name", "type", "value"})
      ++ Same(16, {"address"}))
CfgGNSS == Codec("CfgGNSS", "UBX_GNSS_CONFIG",
    Same(8, {"version", "numTrkChHw", "numTrkChUse", "numConfigBlocks", "gnssId", "resTrkCh", "maxTrkCh"})
      ++ Same(32, {"flags"}))
GpioRateEvent == Codec("GpioRateEvent", "GPIO_RATE", Same(8, {"whichRate"}) ++ Same(32, {"first", "second"}))
I2CStatsEvent == Codec("I2CStatsEvent", "I2C_STATS",
    Same(8, {"nrDevices", "address", "status"}) ++ Texts({"name"})
      ++ Same(32, {"bytesRead", "bytesWritten", "nrBytesWritten", "nrBytesRead", "nrIoErrors",
                   "lastTransactionTime"}))
MCP4728Event == Codec("MCP4728Event", "DAC_READBACK",
    Same(16, {"dacValues"}) ++ Same(17, {"eepromValues"}) ++ Same(32, {"voltages"}))
\* encodeMonBuffer and decodeMonBuffer, for MonRx and MonTx
MonBuffer(type, key) ==
    Codec(type, key, Same(16, {"pending"}) ++ Same(8, {"usage", "peakUsage", "tUsage", "tPeakUsage"}))
MonRx == MonBuffer("MonRx", "UBX_RXBUF")
MonTx == MonBuffer("MonTx", "UBX_TXBUF")
PositionModeConfig == Codec("PositionModeConfig", "POSITION_MODEL",
    Same(2, {"mode"}) ++ Same(3, {"filter_config"})
      ++ Same(64, {"longitude", "latitude", "altitude", "hor_error", "vert_error",
                   "lock_in_max_dop", "lock_in_min_error_meters"}))
CfgMsg == Codec("CfgMsg", "UBX_MSG_RATE", Same(16, {"msgID"}) ++ Same(32, {"rate"}))
UbxTimeMarkStruct == Codec("UbxTimeMarkStruct", "UBX_TIMEMARK",
    Same(64, {"rising.tv_sec", "falling.tv_sec"}) ++ Same(32, {"accuracy_ns"})
      ++ Same(30, {"rising.tv_nsec", "falling.tv_nsec"})     \* less than 10^9
      ++ Flags({"risingValid", "fallingValid", "valid", "utcAvailable"})
      ++ Same(8, {"timeBase", "flags"}) ++ Same(16, {"evtCounter"}))
VersionEvent == Codec("VersionEvent", "VERSION",
    Same(32, {"hw_ver.major", "hw_ver.minor", "hw_ver.patch", "sw_ver.major", "sw_ver.minor", "sw_ver.patch"})
      ++ Texts({"hw_ver.additional", "hw_ver.hash", "sw_ver.additional", "sw_ver.hash"}))
AdcModeEvent == Codec("AdcModeEvent", "ADC_MODE", Same(8, {"mode"}))
BiasSwitchEvent == Codec("BiasSwitchEvent", "BIAS_SWITCH", Flags({"biasOn"}))
BiasVoltageEvent == Codec("BiasVoltageEvent", "BIAS_VOLTAGE", Same(32, {"voltage"}))
GainSwitchEvent == Codec("GainSwitchEvent", "GAIN_SWITCH", Flags({"state"}))
PcaSwitchEvent == Codec("PcaSwitchEvent", "PCA_SWITCH", Same(8, {"pcaPortMask"}))
PolaritySwitchEvent == Codec("PolaritySwitchEvent", "POLARITY_SWITCH", Flags({"pol1", "pol2"}))
\* A mutant: the event's codec leaves the state out, as the command's does.
PreampWithoutState == Codec("PreampSwitchEvent", "PREAMP_SWITCH", Same(8, {"channel"}) ++ Missing(1, {"state"}))

PreampSwitchEvent == Codec("PreampSwitchEvent", "PREAMP_SWITCH", Same(8, {"channel"}) ++ Flags({"state"}))
GpioInhibitEvent == Codec("GpioInhibitEvent", "GPIO_INHIBIT", Flags({"inhibit"}))
MqttInhibitEvent == Codec("MqttInhibitEvent", "MQTT_INHIBIT", Flags({"inhibit"}))
TemperatureEvent == Codec("TemperatureEvent", "TEMPERATURE", Same(32, {"temperature"}) ++ Missing(1, {"source"}))
MqttStatusEvent == Codec("MqttStatusEvent", "MQTT_STATUS", Same(8, {"status"}) ++ Texts({"text"}))
SPIStatsEvent == Codec("SPIStatsEvent", "SPI_STATS", Flags({"spiPresent"}))
ThresholdSettingEvent == Codec("ThresholdSettingEvent", "THRESHOLD", Same(8, {"channel"}) ++ Same(64, {"voltage"}))
EventTriggerEvent == Codec("EventTriggerEvent", "EVENTTRIGGER", Same(8, {"signal"}))
GnssPosStruct == Codec("GnssPosStruct", "GEO_POS",
    Same(32, {"iTOW", "lon", "lat", "height", "hMSL", "hAcc", "vAcc"}))
GnssMonHwStruct == Codec("GnssMonHwStruct", "UBX_MONHW",
    Same(16, {"noisePerMS", "agcCnt"}) ++ Same(8, {"antStatus", "antPower", "flags", "jamInd"}))
GnssMonHw2Struct == Codec("GnssMonHw2Struct", "UBX_MONHW2",
    Same(8, {"ofsI", "magI", "ofsQ", "magQ", "cfgSrc"}) ++ Same(32, {"postStatus"}))
GpsVersion == Codec("GpsVersion", "UBX_VERSION", Texts({"hwString", "swString", "prot"}))
NavClock == Codec("NavClock", "UBX_NAVCLOCK", Same(32, {"iTOW", "clkB", "clkD", "tAcc", "fAcc"}))
NavStatus == Codec("NavStatus", "UBX_NAVSTATUS",
    Wire(32, 16, {"iTOW", "ttff", "msss"}) ++ Wire(8, 16, {"gpsFix", "flags", "flags2"}))
UbxTimePulseStruct == Codec("UbxTimePulseStruct", "UBX_CFG_TP5",
    Same(8, {"tpIndex", "version"}) ++ Same(16, {"antCableDelay", "rfGroupDelay"})
      ++ Same(32, {"freqPeriod", "freqPeriodLock", "pulseLenRatio", "pulseLenRatioLock",
                   "userConfigDelay", "flags"}))
LogInfoStruct == Codec("LogInfoStruct", "LOG_INFO",
    Texts({"logFileName", "dataFileName"}) ++ Same(8, {"status"})
      ++ Same(32, {"logFileSize", "dataFileSize"}) ++ Same(64, {"logAge", "logRotationDuration"})
      ++ Missing(1, {"logEnabled"}))
\* decode() restores the bins and neither flow.
HistogramCodec == Codec("Histogram", "HISTOGRAM",
    Texts({"name", "unit"}) ++ Same(32, {"nrBins", "bins.bin"}) ++ Flags({"autoscale"})
      ++ Same(64, {"min", "max", "bins.content"}) ++ Missing(64, {"overflow", "underflow"}))

StartBurstSampling == Codec("StartBurstSampling", "RATE_SCAN", Wire(64, 32, {"frequencyHz", "samples"}))
GainSwitchCmd == Codec("GainSwitchCmd", "GAIN_SWITCH", Flags({"state"}))
ThresholdSettingCmd == Codec("ThresholdSettingCmd", "THRESHOLD", Same(8, {"channel"}) ++ Same(32, {"value"}))
PcaSwitchCmd == Codec("PcaSwitchCmd", "PCA_SWITCH", Same(8, {"pcaPortMask"}))
UbxMsgPollCmd == Codec("UbxMsgPollCmd", "UBX_MSG_POLL", Same(16, {"id"}))
UbxMsgRateCmd == Codec("UbxMsgRateCmd", "UBX_MSG_RATE", Same(16, {"id"}) ++ Same(8, {"port", "rate"}))
UbxGnssConfigCmd == Codec("UbxGnssConfigCmd", "UBX_GNSS_CONFIG",
    Same(8, {"gnssId", "resTrkCh", "maxTrkCh"}) ++ Same(32, {"flags"}))
UbxRateCmd == Codec("UbxRateCmd", "NONE", Same(16, {"measRate", "navRate"}))
UbxResetCmd == Codec("UbxResetCmd", "UBX_RESET", Same(32, {"resetFlags"}))
UbxSaveCmd == Codec("UbxSaveCmd", "UBX_CFG_SAVE", Same(32, {"devMask"}))
UbxSetAopCmd == Codec("UbxSetAopCmd", "NONE", Flags({"enable"}) ++ Same(16, {"maxOrbErr"}))
MqttInhibitCmd == Codec("MqttInhibitCmd", "MQTT_INHIBIT", Flags({"inhibit"}))
PolaritySwitchCmd == Codec("PolaritySwitchCmd", "POLARITY_SWITCH", Flags({"pol1", "pol2"}))
BiasVoltageCmd == Codec("BiasVoltageCmd", "BIAS_VOLTAGE", Same(32, {"voltage"}))
BiasSwitchCmd == Codec("BiasSwitchCmd", "BIAS_SWITCH", Flags({"state"}))
PreampSwitchCmd == Codec("PreampSwitchCmd", "PREAMP_SWITCH", Same(8, {"channel"}) ++ Missing(1, {"state"}))
AdcSampleTriggerCmd == Codec("AdcSampleTriggerCmd", "ADC_SAMPLE_REQUEST", Same(8, {"channel"}))
HistogramClearCmd == Codec("HistogramClearCmd", "HISTOGRAM_CLEAR", Texts({"histogramName"}))
GpioRateRequestCmd == Codec("GpioRateRequestCmd", "GPIO_RATE_REQUEST", Same(8, {"n_points"}))
EventTriggerCmd == Codec("EventTriggerCmd", "EVENTTRIGGER", Same(8, {"signal"}))
EMPTY_CMD_CODEC(type, key) == Codec(type, key, Same(1, {}))

PreampSwitchRequestCmd == EMPTY_CMD_CODEC("PreampSwitchRequestCmd", "PREAMP_SWITCH_REQUEST")
GpioRateResetCmd == EMPTY_CMD_CODEC("GpioRateResetCmd", "GPIO_RATE_RESET")
UbxConfigDefaultCmd == EMPTY_CMD_CODEC("UbxConfigDefaultCmd", "UBX_CONFIG_DEFAULT")
I2CStatsRequestCmd == EMPTY_CMD_CODEC("I2CStatsRequestCmd", "I2C_STATS_REQUEST")
I2CScanBusCmd == EMPTY_CMD_CODEC("I2CScanBusCmd", "I2C_SCAN_BUS")
CalibRequestCmd == EMPTY_CMD_CODEC("CalibRequestCmd", "CALIB_REQUEST")
CalibSaveCmd == EMPTY_CMD_CODEC("CalibSaveCmd", "CALIB_SAVE")
GainSwitchRequestCmd == EMPTY_CMD_CODEC("GainSwitchRequestCmd", "GAIN_SWITCH_REQUEST")
DacSettingRequestCmd == EMPTY_CMD_CODEC("DacSettingRequestCmd", "THRESHOLD_REQUEST")
ThresholdSettingRequestCmd == EMPTY_CMD_CODEC("ThresholdSettingRequestCmd", "THRESHOLD_REQUEST")
PcaSwitchRequestCmd == EMPTY_CMD_CODEC("PcaSwitchRequestCmd", "PCA_SWITCH_REQUEST")
AdcModeRequestCmd == EMPTY_CMD_CODEC("AdcModeRequestCmd", "ADC_MODE_REQUEST")
PolaritySwitchRequestCmd == EMPTY_CMD_CODEC("PolaritySwitchRequestCmd", "POLARITY_SWITCH_REQUEST")
BiasVoltageRequestCmd == EMPTY_CMD_CODEC("BiasVoltageRequestCmd", "BIAS_VOLTAGE_REQUEST")
BiasSwitchRequestCmd == EMPTY_CMD_CODEC("BiasSwitchRequestCmd", "BIAS_SWITCH_REQUEST")
TemperatureRequestCmd == EMPTY_CMD_CODEC("TemperatureRequestCmd", "TEMPERATURE_REQUEST")
DacEepromSetCmd == EMPTY_CMD_CODEC("DacEepromSetCmd", "DAC_EEPROM_SET")
EventTriggerRequestCmd == EMPTY_CMD_CODEC("EventTriggerRequestCmd", "EVENTTRIGGER_REQUEST")
HistogramRequestCmd == EMPTY_CMD_CODEC("HistogramRequestCmd", "HISTOGRAM_REQUEST")
UbxMsgRateRequestCmd == EMPTY_CMD_CODEC("UbxMsgRateRequestCmd", "UBX_MSG_RATE_REQUEST")

-----------------------------------------------------------------------------
(* Who sends and who understands what.                                      *)

\* EventBindings::setupTcpSink: the events the daemon sends to its clients.
setupTcpSink ==
    {AdcModeEvent, AdcTraceEvent, ADS1115Event, BiasSwitchEvent, BiasVoltageEvent, CalibEvent,
     GainSwitchEvent, GpioRateEvent, GpioInhibitEvent, I2CStatsEvent, TemperatureEvent, MCP4728Event,
     MqttStatusEvent, PcaSwitchEvent, PolaritySwitchEvent, PreampSwitchEvent, SPIStatsEvent, GpioEvent,
     ThresholdSettingEvent, NavSat, CfgMsg, CfgGNSS, GnssPosStruct, UbxTimeMarkStruct, MonTx, MonRx,
     GnssMonHwStruct, GnssMonHw2Struct, GpsVersion, NavStatus, NavClock, UbxTimePulseStruct,
     HistogramCodec, LogInfoStruct, PositionModeConfig, VersionEvent}

\* MainWindow::buildDecoderMap: the codec the client uses for a key, for what comes from the board
\* and for what comes from the receiver and the daemon itself.
decodersOfBoard ==
    [GPIO_EVENT |-> GpioEvent, UBX_MSG_RATE |-> CfgMsg, THRESHOLD |-> ThresholdSettingEvent,
     BIAS_VOLTAGE |-> BiasVoltageEvent, BIAS_SWITCH |-> BiasSwitchEvent,
     PREAMP_SWITCH |-> PreampSwitchEvent, GAIN_SWITCH |-> GainSwitchEvent,
     PCA_SWITCH |-> PcaSwitchEvent, POLARITY_SWITCH |-> PolaritySwitchEvent,
     EVENTTRIGGER |-> EventTriggerEvent, GPIO_RATE |-> GpioRateEvent, GEO_POS |-> GnssPosStruct,
     ADC_SAMPLE |-> ADS1115Event, ADC_TRACE |-> AdcTraceEvent, DAC_READBACK |-> MCP4728Event,
     TEMPERATURE |-> TemperatureEvent, I2C_STATS |-> I2CStatsEvent, SPI_STATS |-> SPIStatsEvent,
     CALIB_SET |-> CalibEvent]

decodersOfReceiver ==
    [GNSS_SATS |-> NavSat, UBX_GNSS_CONFIG |-> CfgGNSS,
     UBX_TIMEMARK |-> UbxTimeMarkStruct, UBX_TXBUF |-> MonTx, UBX_RXBUF |-> MonRx,
     UBX_RXBUF_PEAK |-> MonRx, UBX_MONHW |-> GnssMonHwStruct, UBX_MONHW2 |-> GnssMonHw2Struct,
     UBX_VERSION |-> GpsVersion, UBX_NAVCLOCK |-> NavClock, UBX_NAVSTATUS |-> NavStatus,
     UBX_CFG_TP5 |-> UbxTimePulseStruct, HISTOGRAM |-> HistogramCodec, ADC_MODE |-> AdcModeEvent,
     LOG_INFO |-> LogInfoStruct, MQTT_STATUS |-> MqttStatusEvent, GPIO_INHIBIT |-> GpioInhibitEvent,
     MQTT_INHIBIT |-> MqttInhibitEvent, VERSION |-> VersionEvent, POSITION_MODEL |-> PositionModeConfig]

buildDecoderMap == decodersOfBoard ++ decodersOfReceiver

\* The commands of the client that carry the key of their codec, sendCmdIfConnected(): what the
\* tabs are connected to, the slots, and what it asks for after connecting and once per poll.
tabCommands ==
    {GpioRateResetCmd, UbxConfigDefaultCmd, UbxSaveCmd, I2CStatsRequestCmd, I2CScanBusCmd,
     CalibRequestCmd, CalibSaveCmd}
valueUpdateRequests ==
    {PreampSwitchRequestCmd, GainSwitchRequestCmd, ThresholdSettingRequestCmd, PcaSwitchRequestCmd,
     CalibRequestCmd, AdcModeRequestCmd, PolaritySwitchRequestCmd, BiasVoltageRequestCmd,
     BiasSwitchRequestCmd, AdcSampleTriggerCmd, TemperatureRequestCmd, I2CStatsRequestCmd}
sendCmdIfConnected ==
    {<<c.key, c>> : c \in tabCommands \cup valueUpdateRequests \cup
        {EventTriggerCmd, UbxMsgRateRequestCmd, UbxResetCmd, HistogramClearCmd, HistogramRequestCmd,
         StartBurstSampling, GpioRateRequestCmd, DacEepromSetCmd}}

\* Its commands that name their key: sendSetBiasVoltage() to onSetTP5Config(), and
\* sendInputSwitch() to onPosModeConfigChanged().
sendToBoard ==
    {<<"BIAS_VOLTAGE", BiasVoltageCmd>>, <<"BIAS_SWITCH", BiasSwitchCmd>>,
     <<"GAIN_SWITCH", GainSwitchCmd>>, <<"PREAMP_SWITCH", PreampSwitchCmd>>,
     <<"THRESHOLD", ThresholdSettingCmd>>, <<"UBX_MSG_RATE", UbxMsgRateCmd>>,
     <<"ADC_MODE", AdcModeEvent>>, <<"UBX_GNSS_CONFIG", UbxGnssConfigCmd>>,
     <<"UBX_CFG_TP5", UbxTimePulseStruct>>}
sendToDaemon ==
    {<<"PCA_SWITCH", PcaSwitchCmd>>,
     <<"CALIB_SET", CalibEvent>>, <<"GPIO_INHIBIT", GpioInhibitEvent>>,
     <<"MQTT_INHIBIT", MqttInhibitCmd>>, <<"POLARITY_SWITCH", PolaritySwitchEvent>>,
     <<"POSITION_MODEL", PositionModeConfig>>}
sendPacketIfConnected == sendToBoard \cup sendToDaemon

\* TcpCommandDecoder::handle: the codec the daemon uses for a key, for the receiver, the counters
\* and the calibration, and for the board.
receiverCommands ==
    [UBX_CFG_TP5 |-> UbxTimePulseStruct, UBX_GNSS_CONFIG |-> UbxGnssConfigCmd,
     UBX_MSG_RATE |-> UbxMsgRateCmd, UBX_MSG_POLL |-> UbxMsgPollCmd,
     UBX_MSG_RATE_REQUEST |-> UbxMsgRateRequestCmd, UBX_RESET |-> UbxResetCmd,
     UBX_CFG_SAVE |-> UbxSaveCmd, UBX_CONFIG_DEFAULT |-> UbxConfigDefaultCmd,
     RATE_SCAN |-> StartBurstSampling, MQTT_INHIBIT |-> MqttInhibitCmd,
     GPIO_INHIBIT |-> GpioInhibitEvent, GPIO_RATE_RESET |-> GpioRateResetCmd,
     I2C_STATS_REQUEST |-> I2CStatsRequestCmd, I2C_SCAN_BUS |-> I2CScanBusCmd,
     CALIB_REQUEST |-> CalibRequestCmd, CALIB_SAVE |-> CalibSaveCmd]

boardCommands ==
    [PREAMP_SWITCH |-> PreampSwitchCmd,
     PREAMP_SWITCH_REQUEST |-> PreampSwitchRequestCmd, GAIN_SWITCH |-> GainSwitchCmd,
     GAIN_SWITCH_REQUEST |-> GainSwitchRequestCmd, THRESHOLD |-> ThresholdSettingCmd,
     THRESHOLD_REQUEST |-> ThresholdSettingRequestCmd, PCA_SWITCH |-> PcaSwitchCmd,
     ADC_MODE_REQUEST |-> AdcModeRequestCmd, ADC_MODE |-> AdcModeEvent,
     POLARITY_SWITCH |-> PolaritySwitchCmd, POLARITY_SWITCH_REQUEST |-> PolaritySwitchRequestCmd,
     BIAS_VOLTAGE |-> BiasVoltageCmd, BIAS_VOLTAGE_REQUEST |-> BiasVoltageRequestCmd,
     BIAS_SWITCH |-> BiasSwitchCmd, BIAS_SWITCH_REQUEST |-> BiasSwitchRequestCmd,
     DAC_REQUEST |-> DacSettingRequestCmd, DAC_EEPROM_SET |-> DacEepromSetCmd,
     ADC_SAMPLE_REQUEST |-> AdcSampleTriggerCmd, TEMPERATURE_REQUEST |-> TemperatureRequestCmd,
     HISTOGRAM_CLEAR |-> HistogramClearCmd, HISTOGRAM_REQUEST |-> HistogramRequestCmd,
     GPIO_RATE_REQUEST |-> GpioRateRequestCmd, POSITION_MODEL |-> PositionModeConfig,
     EVENTTRIGGER_REQUEST |-> EventTriggerRequestCmd, EVENTTRIGGER |-> EventTriggerCmd]

TcpCommandDecoder == receiverCommands ++ boardCommands
=============================================================================
