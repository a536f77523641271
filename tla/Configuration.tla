--------------------------- MODULE Configuration ---------------------------
(***************************************************************************)
(* How the daemon gets its configuration: main() of daemon/src/app/main.cpp*)
(* up to the start of the system, ConfigParser of                          *)
(* daemon/src/app/config_parser.cpp, and the loading of the two lists by   *)
(* SystemBuilder (daemon/src/core/system_builder.cpp).  Every setting has  *)
(* a default, which the file and then the command line may replace.        *)
(*                                                                         *)
(* A file is NoFile, Bad (it does not parse) or holds a function from     *)
(* settings to entries; a setting outside its domain is not in the file.   *)
(* Texts are names; a word of the command line is a text with the number   *)
(* it begins with, if it does.                                             *)
(***************************************************************************)
EXTENDS Integers, Sequences, FiniteSets, SequencesExt, FiniteSetsExt, TLC

CONSTANTS
    Starts,     \* what the daemon can find: files, the devices in /dev, and what may be typed
    MaxArgs     \* bound: arguments

ASSUME ConfigurationAssumption == MaxArgs \in Nat

VARIABLES
    cfStart,    \* what it finds
    cfArgs,     \* argv
    cfAt,       \* the argument parse() is at
    cfConfig,   \* m_config
    cfGiven,    \* m_presence: pairs of "cfg" or "cli" and a setting
    cfWarned,   \* the settings validate() warned of
    cfBuilt,    \* the ids of the devices and of the components
    cfPhase

cfVars == <<cfStart, cfArgs, cfAt, cfConfig, cfGiven, cfWarned, cfBuilt, cfPhase>>

NoFile == [state |-> "missing"]
Bad == [state |-> "bad"]
Holding(contents) == [state |-> "parsed", has |-> contents]
Text(s) == [type |-> "string", value |-> s]
Number(n) == [type |-> "int", value |-> n]
Boolean(b) == [type |-> "bool", value |-> IF b THEN 1 ELSE 0]
Flag(k) == [key |-> k]

\* The defaults of its members.
SystemConfig ==
    [hardware_config |-> "/etc/hardware", component_config |-> "/etc/components", max_geohash_length |-> 6,
     store_local |-> FALSE, gnss_dynamic_model |-> 2, ublox_device |-> "", gpio_device |-> "",
     ublox_baud |-> 9600, tcp_ip |-> "0.0.0.0", tcp_port |-> 51508, timing_input |-> 0,
     bias_switch |-> FALSE, preamp1_switch |-> FALSE, preamp2_switch |-> FALSE, gain_switch |-> FALSE,
     trigger_input |-> "EVT_XOR", input1_polarity |-> TRUE, input2_polarity |-> TRUE,
     mqtt |-> <<"", "">>, stationID |-> "0", geo_mode |-> "Auto", coordinates |-> <<0, 0, 0, 0, 0>>,
     sds011_n_sleep |-> 0, logging |-> "Warning", gnss_dump_raw |-> FALSE, showin |-> FALSE,
     showout |-> FALSE, thresholds |-> <<-1, -1>>, bias |-> -1]

CfInit ==
    /\ cfStart \in Starts
    /\ cfArgs = <<>> /\ cfAt = 1 /\ cfConfig = SystemConfig /\ cfGiven = {} /\ cfWarned = {} /\ cfBuilt = <<{}, {}>>
    /\ cfPhase = "shell"

\* The command line is typed: flags, and words with the number they begin with, [text, int].
CfType ==
    /\ cfPhase = "shell"
    /\ \/ /\ Len(cfArgs) < MaxArgs
          /\ \E a \in cfStart.typed : cfArgs' = Append(cfArgs, a)
          /\ UNCHANGED cfPhase
       \/ cfPhase' = "load" /\ UNCHANGED cfArgs
    /\ UNCHANGED <<cfStart, cfAt, cfConfig, cfGiven, cfWarned, cfBuilt>>

\* loadConfigFile(): a file that cannot be read is an empty configuration, one that does not
\* parse is an exception.
loadConfigFile(f) == IF f.state = "missing" THEN [s \in {} |-> Number(0)] ELSE f.has

\* main(): nothing catches the exception of the first file, that of the second ends the program,
\* and so do settings without geo_handling, those of a missing file among them.
CfLoad ==
    /\ cfPhase = "load"
    /\ cfPhase' = IF "bad" \in {cfStart.file.state, cfStart.settings.state} THEN "ended"
                  ELSE IF "geo_handling" \notin DOMAIN loadConfigFile(cfStart.settings) THEN "ended"
                  ELSE "defaults"
    /\ UNCHANGED <<cfStart, cfArgs, cfAt, cfConfig, cfGiven, cfWarned, cfBuilt>>

-----------------------------------------------------------------------------
(* apply_defaults().                                                        *)

File == loadConfigFile(cfStart.file)
Settings == loadConfigFile(cfStart.settings)
Has(s, types) == s \in DOMAIN File /\ File[s].type \in types

\* readBoolFlexible().
readBoolFlexible(s) == IF Has(s, {"bool", "int"}) THEN <<File[s].value # 0>> ELSE <<>>

Triggers == <<"EVT_XOR", "EVT_AND", "TIME_MEAS_OUT", "EXT_TRIGGER">>

\* A number, and what its setting makes of it: a port is cut to 16 bits, a mask out of range is
\* refused, a trigger that does not exist is EVT_AND.
NumberOf(s) ==
    IF ~Has(s, {"int"}) THEN <<>>
    ELSE LET n == File[s].value
         IN CASE s = "tcp_port" -> <<n % 65536>>
              [] s = "timing_input" -> IF n \in 0..255 THEN <<n>> ELSE <<>>
              [] s = "trigger_input" -> IF n \in 0..3 THEN <<Triggers[n + 1]>> ELSE <<"EVT_AND">>
              [] OTHER -> <<n>>
TextOf(s) == IF Has(s, {"string"}) THEN <<File[s].value>> ELSE <<>>

\* The settings among the given ones that their reader accepts.
Accepted(names, Reader(_)) == [s \in {n \in names : Reader(n) # <<>>} |-> Reader(s)[1]]

\* Paths and other settings that only the file gives.
pathSettings ==
    Accepted({"hardware_config", "component_config"}, TextOf)
    @@ Accepted({"max_geohash_length", "gnss_dynamic_model"}, NumberOf)
    @@ (IF Has("store_local", {"bool"}) THEN [store_local |-> File["store_local"].value # 0]
                                        ELSE [s \in {} |-> FALSE])

\* A device that the file does not name is looked for in /dev; one with an entry of another type is not.
Candidates(s) ==
    IF s = "ublox_device" THEN {"/dev/ttyS0", "/dev/ttyAMA0", "/dev/serial0"} ELSE {"/dev/gpiochip0"}
Devices(s) ==
    IF s \in DOMAIN File THEN ToSet(TextOf(s)) \cup (IF TextOf(s) = <<>> THEN {""} ELSE {})
    ELSE IF Candidates(s) \cap cfStart.dev = {} THEN {""} ELSE Candidates(s) \cap cfStart.dev

lineSettings == Accepted({"ublox_baud", "tcp_port", "timing_input"}, NumberOf) @@ Accepted({"tcp_ip"}, TextOf)

SwitchNames == {"bias_switch", "preamp1_switch", "preamp2_switch", "gain_switch"}
switchSettings == Accepted(SwitchNames, readBoolFlexible) @@ Accepted({"trigger_input"}, NumberOf)
polaritySettings == Accepted({"input1_polarity", "input2_polarity"}, readBoolFlexible)

\* Both credentials or none.
identity ==
    (IF TextOf("mqtt_user") # <<>> /\ TextOf("mqtt_password") # <<>>
     THEN [mqtt |-> TextOf("mqtt_user") \o TextOf("mqtt_password")] ELSE [s \in {} |-> ""])
    @@ Accepted({"stationID"}, TextOf)

\* The coordinates are read one after the other: the first that fails leaves it and the rest alone.
Coordinates == <<"lon", "lat", "alt", "hor_error", "vert_error">>
GoodCoordinate(i) == Coordinates[i] \in DOMAIN Settings /\ Settings[Coordinates[i]].type = "float"
positionSettings ==
    [geo_mode |-> IF "mode" \in DOMAIN Settings /\ Settings["mode"] \in {Text("Static"), Text("LockIn")}
                  THEN Settings["mode"].value ELSE "Auto",
     coordinates |-> [i \in 1..5 |-> IF \A j \in 1..i : GoodCoordinate(j) THEN Settings[Coordinates[i]].value
                                     ELSE SystemConfig.coordinates[i]]]

\* The sleep of the dust sensor: one when the file does not have it or it is negative.
sleepSettings ==
    IF "sds011_n_sleep" \notin DOMAIN File THEN [sds011_n_sleep |-> 1]
    ELSE LET n == NumberOf("sds011_n_sleep")
         IN IF n = <<>> THEN [s \in {} |-> 0] ELSE [sds011_n_sleep |-> IF n[1] < 0 THEN 1 ELSE n[1]]

\* The settings whose presence is noted; the entry of the bias switch is noted as preamplifier 1.
Noted(found) ==
    ((DOMAIN found \ (DOMAIN pathSettings \cup {"mqtt", "bias_switch"}))
     \cup (IF "bias_switch" \in DOMAIN found THEN {"preamp1_switch"} ELSE {}))
    \cup {s \in {"ublox_device", "gpio_device"} : TextOf(s) # <<>>}

apply_defaults ==
    /\ cfPhase = "defaults" /\ cfPhase' = "parse"
    /\ LET found == lineSettings @@ switchSettings @@ polaritySettings @@ identity
       IN \E gps \in Devices("ublox_device"), gpio \in Devices("gpio_device") :
             /\ cfConfig' = found @@ pathSettings @@ positionSettings @@ sleepSettings
                            @@ [ublox_device |-> gps, gpio_device |-> gpio] @@ cfConfig
             /\ cfGiven' = {<<"cfg", s>> : s \in Noted(found)}
    /\ UNCHANGED <<cfStart, cfArgs, cfAt, cfWarned, cfBuilt>>

-----------------------------------------------------------------------------
(* parse().                                                                 *)

is_flag(a) == "key" \in DOMAIN a

\* A mutant: whatever follows is the value.
AnyNext(i) == IF i < Len(cfArgs) THEN <<cfArgs[i + 1] @@ [text |-> "-", int |-> <<>>]>> ELSE <<>>

\* The word that follows, unless it begins with a dash.
next_value(i) == IF i < Len(cfArgs) /\ ~is_flag(cfArgs[i + 1]) THEN <<cfArgs[i + 1]>> ELSE <<>>

\* The setting an option is about.
OptionSetting ==
    [l |-> "logging", b |-> "ublox_baud", server |-> "tcp_ip", dp |-> "tcp_port", th1 |-> "thresholds",
     th2 |-> "thresholds", bias |-> "bias", pol1 |-> "input1_polarity", pol2 |-> "input2_polarity",
     id |-> "stationID", t |-> "trigger_input", pca |-> "timing_input", sds011_n_sleep |-> "sds011_n_sleep"]
SwitchSetting ==
    [d |-> "gnss_dump_raw", showin |-> "showin", showout |-> "showout", p |-> "bias_switch",
     pre1 |-> "preamp1_switch", pre2 |-> "preamp2_switch", g |-> "gain_switch"]

\* What an option makes of a word, if it takes it.
ValueOf(key, w, old) ==
    CASE key = "l" -> IF w.text \in {"Warning", "Error", "Info", "Debug"} THEN <<w.text>> ELSE <<>>
      [] key \in {"server", "id"} -> <<w.text>>
      [] key \in {"pol1", "pol2"} -> <<w.text = "1">>
      [] w.int = <<>> -> <<>>
      [] key = "dp" -> <<w.int[1] % 65536>>
      [] key = "pca" -> <<w.int[1] % 256>>
      [] key = "th1" -> <<[old EXCEPT ![1] = w.int[1]]>>
      [] key = "th2" -> <<[old EXCEPT ![2] = w.int[1]]>>
      [] key = "t" -> IF w.int[1] \in 0..3 THEN <<Triggers[w.int[1] + 1]>> ELSE <<>>
      [] OTHER -> w.int

\* The number of a trigger is read without a try block.
Throws(key, w) == key = "t" /\ w.int = <<>>

\* An option that was understood is noted; a trigger that does not exist is noted as well.
Understood(key, w) == ValueOf(key, w, <<0, 0>>) # <<>> \/ key = "t"
NotedOptions == {"b", "server", "dp", "bias", "pol1", "pol2", "id", "t", "pca", "sds011_n_sleep"}
NotedSetting(key) == IF key = "bias" THEN "bias_switch" ELSE OptionSetting[key]

ParseDevice(w) ==
    /\ IF cfConfig.ublox_device = ""
       THEN /\ cfConfig' = [cfConfig EXCEPT !.ublox_device = w.text]
            /\ cfGiven' = cfGiven \cup {<<"cli", "ublox_device">>}
       ELSE UNCHANGED <<cfConfig, cfGiven>>
    /\ cfAt' = cfAt + 1 /\ UNCHANGED cfPhase

ParseSwitch(key) ==
    /\ cfConfig' = [cfConfig EXCEPT ![SwitchSetting[key]] = TRUE]
    /\ cfGiven' = IF key \in {"d", "showin", "showout"} THEN cfGiven
                  ELSE cfGiven \cup {<<"cli", SwitchSetting[key]>>}
    /\ cfAt' = cfAt + 1 /\ UNCHANGED cfPhase

ParseOption(key, words) ==
    LET s == OptionSetting[key]
    IN IF words = <<>> THEN cfAt' = cfAt + 1 /\ UNCHANGED <<cfConfig, cfGiven, cfPhase>>
       ELSE IF Throws(key, words[1]) THEN cfPhase' = "ended" /\ UNCHANGED <<cfConfig, cfGiven, cfAt>>
       ELSE /\ LET v == ValueOf(key, words[1], cfConfig[s])
               IN cfConfig' = IF v = <<>> THEN cfConfig ELSE [cfConfig EXCEPT ![s] = v[1]]
            /\ cfGiven' = IF key \in NotedOptions /\ Understood(key, words[1])
                          THEN cfGiven \cup {<<"cli", NotedSetting(key)>>} ELSE cfGiven
            /\ cfAt' = cfAt + 2 /\ UNCHANGED cfPhase

\* One turn of the loop; an option that does not exist is passed over, and its value is not.
parse ==
    /\ cfPhase = "parse" /\ cfAt <= Len(cfArgs)
    /\ LET a == cfArgs[cfAt]
       IN CASE ~is_flag(a) -> ParseDevice(a)
            [] is_flag(a) /\ a.key \in DOMAIN SwitchSetting -> ParseSwitch(a.key)
            [] is_flag(a) /\ a.key \in DOMAIN OptionSetting -> ParseOption(a.key, next_value(cfAt))
            [] is_flag(a) /\ a.key = "h" -> cfPhase' = "ended" /\ UNCHANGED <<cfConfig, cfGiven, cfAt>>
            [] OTHER -> cfAt' = cfAt + 1 /\ UNCHANGED <<cfConfig, cfGiven, cfPhase>>
    /\ UNCHANGED <<cfStart, cfArgs, cfWarned, cfBuilt>>

-----------------------------------------------------------------------------
(* validate() and the two lists.                                            *)

Validated ==
    {"ublox_baud", "tcp_ip", "tcp_port", "timing_input", "trigger_input", "input1_polarity", "input2_polarity",
     "stationID"} \cup SwitchNames
IsGiven(s) == <<"cfg", s>> \in cfGiven \/ <<"cli", s>> \in cfGiven
GoodAddresses == {"0.0.0.0", "localhost", "local"}

validate ==
    /\ cfPhase = "parse" /\ cfAt > Len(cfArgs) /\ cfPhase' = "build"
    /\ cfWarned' = {s \in Validated : ~IsGiven(s)}
                   \cup (IF IsGiven("ublox_device") \/ cfConfig.ublox_device # "" THEN {} ELSE {"ublox_device"})
                   \cup (IF <<"cli", "sds011_n_sleep">> \in cfGiven THEN {} ELSE {"sds011_n_sleep"})
    /\ cfConfig' = [cfConfig EXCEPT !.tcp_ip = IF @ \in GoodAddresses THEN @ ELSE ""]
    /\ UNCHANGED <<cfStart, cfArgs, cfAt, cfGiven, cfBuilt>>

\* parseHardwareConfig(): a device needs an id that exists, a type, known or not, and a category;
\* an address out of range is left out.
parseHardwareConfig(list) ==
    {[id |-> d.id, address |-> IF d.address \in 0..255 THEN <<d.address>> ELSE <<>>] :
        d \in {e \in list : e.known /\ e.typed /\ e.category # ""}}

\* parseComponentConfig(): a component needs an id that exists.
parseComponentConfig(list) == {[id |-> c.id, every |-> c.every] : c \in {e \in list : e.known}}

\* loadHardwareConfig() and loadComponentConfig(): without the list they throw, and build() with them.
CfBuild ==
    /\ cfPhase = "build"
    /\ IF {cfStart.hardware.state, cfStart.components.state} # {"parsed"}
       THEN cfPhase' = "ended" /\ UNCHANGED cfBuilt
       ELSE /\ cfPhase' = "running"
            /\ cfBuilt' = <<parseHardwareConfig(cfStart.hardware.has), parseComponentConfig(cfStart.components.has)>>
    /\ UNCHANGED <<cfStart, cfArgs, cfAt, cfConfig, cfGiven, cfWarned>>

CfNext == CfType \/ CfLoad \/ apply_defaults \/ parse \/ validate \/ CfBuild

CfSpec == CfInit /\ [][CfNext]_cfVars

-----------------------------------------------------------------------------
(* The property.                                                            *)

\* The values the command line gives a setting, by position.
Takes(i, s) ==
    /\ is_flag(cfArgs[i])
    /\ \/ cfArgs[i].key \in DOMAIN SwitchSetting /\ SwitchSetting[cfArgs[i].key] = s
       \/ /\ cfArgs[i].key \in DOMAIN OptionSetting /\ OptionSetting[cfArgs[i].key] = s
          /\ i < Len(cfArgs) /\ ~is_flag(cfArgs[i + 1])
          /\ ValueOf(cfArgs[i].key, cfArgs[i + 1], <<0, 0>>) # <<>>
Asked(s) == {i \in 1..Len(cfArgs) : Takes(i, s)}
AskedValue(i) ==
    IF cfArgs[i].key \in DOMAIN SwitchSetting THEN TRUE
    ELSE ValueOf(cfArgs[i].key, cfArgs[i + 1], <<0, 0>>)[1]
IsValue(i) == i > 1 /\ is_flag(cfArgs[i - 1]) /\ cfArgs[i - 1].key \in DOMAIN OptionSetting
Positional == {i \in 1..Len(cfArgs) : ~is_flag(cfArgs[i]) /\ ~IsValue(i)}

FileGives == lineSettings @@ switchSettings @@ polaritySettings @@ identity @@ pathSettings @@ sleepSettings

\* Once the system is built every setting has the value of the last option that gave it, wherever
\* it stands on the command line, else that of the file, else its default, and an address that
\* is not one is empty; the GNSS device is the first word that is no option's value if neither
\* the file nor /dev had one.  A setting that validate() calls defaulted was not given (the bias
\* switch is the exception, whose presence in the file is noted elsewhere).  Nothing is built
\* unless the three files it needs are there and all four parse.
ConfigurationIsAsAsked ==
    cfPhase = "running" =>
        /\ \A s \in DOMAIN SystemConfig \ {"ublox_device", "gpio_device", "geo_mode", "coordinates", "tcp_ip", "thresholds"} :
              cfConfig[s] = IF Asked(s) # {} THEN AskedValue(Max(Asked(s)))
                            ELSE IF s \in DOMAIN FileGives THEN FileGives[s] ELSE SystemConfig[s]
        /\ cfConfig.tcp_ip \in GoodAddresses \cup {""}
        /\ cfConfig.ublox_device \in
              IF Devices("ublox_device") # {""} THEN Devices("ublox_device")
              ELSE IF Positional = {} THEN {""} ELSE {cfArgs[Min(Positional)].text}
        /\ \A s \in cfWarned \ {"bias_switch", "sds011_n_sleep", "ublox_device"} :
              Asked(s) = {} /\ s \notin DOMAIN FileGives
        /\ cfStart.file.state # "bad" /\ {cfStart.settings.state, cfStart.hardware.state, cfStart.components.state} = {"parsed"}
=============================================================================
