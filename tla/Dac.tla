-------------------------------- MODULE Dac --------------------------------
(***************************************************************************)
(* The DAC that sets the thresholds and the bias voltage: MCP4728          *)
(* (daemon/src/hardware/i2c/mcp4728.cpp) and MCP4728Driver                 *)
(* (daemon/src/drivers/mcp4728_driver.cpp).  The device keeps a register   *)
(* and an EEPROM cell per channel; the class keeps a copy of both, read    *)
(* again when it is older than DataValidityTimeout; the driver turns       *)
(* commands into calls, on whatever worker handles them and without a      *)
(* lock.                                                                   *)
(*                                                                         *)
(* A voltage is a number of half millivolts, the step of the internal      *)
(* reference: 2000 to the volt.                                            *)
(***************************************************************************)
EXTENDS Integers, FiniteSets, FiniteSetsExt

CONSTANTS
    DacWorkers,     \* the pool's workers
    DacChannels,    \* the channels 0..3 that are used
    Thresholds,     \* of these, the threshold channels
    BiasChannel,    \* and the channel of the bias voltage
    MaxCode,        \* 0xfff
    Modulus,        \* 2^16, the range of std::uint16_t
    VddUnits,       \* fVddRefVoltage in half millivolts
    Voltages,       \* the voltages asked for
    MaxDacCalls,    \* bound: calls made
    MaxDacFaults    \* bound: transfers that fail

ASSUME DacAssumption ==
    /\ MaxCode \in Nat /\ Modulus \in Nat \ {0} /\ DacChannels \subseteq 0 .. 3
    /\ VddUnits \in MaxCode + 1 .. 4 * (MaxCode + 1)     \* 6600 of 4096
    /\ Voltages \subseteq Nat /\ Thresholds \subseteq DacChannels /\ BiasChannel \in DacChannels \ Thresholds

VARIABLES
    dacReg, dacEep,                     \* the device
    dacBusy,                            \* the device is writing its EEPROM
    fChannelSetting, fChannelSettingEep, fBusy,     \* the copy
    dacFresh,                           \* fLastRegisterUpdate is recent
    dacDo,          \* per worker: the call it is in
    dacDone,        \* the last call and how it ended
    dacEvent,       \* the last MCP4728Event
    dacCalls, dacFaults

dacVars == <<dacReg, dacEep, dacBusy, fChannelSetting, fChannelSettingEep, fBusy, dacFresh, dacDo, dacDone,
             dacEvent, dacCalls, dacFaults>>
dacDevice == <<dacReg, dacEep, dacBusy>>
dacCopy == <<fChannelSetting, fChannelSettingEep, fBusy>>

DacChannel == [value |-> 0, gain |-> 1, vref |-> "2V"]     \* DacChannel as it is constructed
Idle == [op |-> "none"]

DacInit ==
    /\ dacReg = [c \in DacChannels |-> [DacChannel EXCEPT !.vref = "Vdd"]]
    /\ dacEep = [c \in DacChannels |-> [DacChannel EXCEPT !.value = 1]]
    /\ dacBusy = FALSE
    /\ fChannelSetting = [c \in DacChannels |-> DacChannel]
    /\ fChannelSettingEep = [c \in DacChannels |-> DacChannel]
    /\ fBusy = FALSE /\ dacFresh = FALSE
    /\ dacDo = [w \in DacWorkers |-> Idle] /\ dacDone = Idle /\ dacEvent = fChannelSetting
    /\ dacCalls = 0 /\ dacFaults = 0

-----------------------------------------------------------------------------
(* Codes and voltages.                                                      *)

VddCode(v) == ((v * (MaxCode + 1) + VddUnits \div 2) \div VddUnits) % Modulus

\* A mutant: the gain is doubled and the code is cut instead of halved.
CutCode(vref, v) ==
    IF vref = "2V"
    THEN LET code == v % Modulus
         IN [value |-> code % (MaxCode + 1), gain |-> IF code > MaxCode THEN 2 ELSE 1, vref |-> vref]
    ELSE [value |-> VddCode(v), gain |-> 1, vref |-> vref]

\* MCP4728::setVoltage(): the code, as a 16-bit number, and the gain.
Coded(vref, v) ==
    IF vref = "2V"
    THEN LET code == v % Modulus
         IN IF code > MaxCode THEN [value |-> code \div 2, gain |-> 2, vref |-> vref]
                              ELSE [value |-> code, gain |-> 1, vref |-> vref]
    ELSE [value |-> VddCode(v), gain |-> 1, vref |-> vref]

code2voltage(c) ==
    IF c.vref = "2V" THEN c.value * c.gain ELSE (c.value * VddUnits) \div (MaxCode + 1)

\* As close as the steps of the reference allow.
Near(c, v) == LET d == code2voltage(c) - v IN d \in -2 .. 2

-----------------------------------------------------------------------------
(* Transfers.                                                               *)

Fault == dacFaults < MaxDacFaults /\ dacFaults' = dacFaults + 1
NoFault == UNCHANGED dacFaults

ReadCall == [op |-> "readDac", step |-> "read", got |-> <<>>, lost |-> {}]

\* A call returns.  The handlers that set a voltage may read the DAC afterwards.
Returned(w, ok) ==
    LET call == dacDo[w]
        reads == call.op = "setVoltage" /\ (call.then = "read" \/ (call.then = "readIfSet" /\ ok))
    IN /\ dacDone' = [op |-> call.op, ok |-> ok, call |-> call]
       /\ dacDo' = [dacDo EXCEPT ![w] = IF reads THEN ReadCall ELSE Idle]

Step(w, step) == dacDo' = [dacDo EXCEPT ![w].step = step]

\* waitEepReady() precedes what is written and not what is read.
Waits(w, busy) == busy /\ dacDo[w].op # "readDac"

\* readRegisters(): the copy if it is recent, or all registers.  readDac() asks for one channel
\* after the other and goes on when a read fails.
DacFetch(w) ==
    /\ dacDo[w] # Idle /\ dacDo[w].step = "read"
    /\ \/ /\ dacFresh /\ NoFault /\ UNCHANGED dacDone
          /\ IF Waits(w, fBusy) THEN dacFresh' = FALSE /\ UNCHANGED dacDo
                                ELSE Step(w, "go") /\ UNCHANGED dacFresh
       \/ /\ ~dacFresh /\ NoFault
          /\ dacDo' = [dacDo EXCEPT ![w].step = "parse", ![w].got = dacDevice]
          /\ UNCHANGED <<dacFresh, dacDone>>
       \/ /\ ~dacFresh /\ Fault
          /\ IF dacDo[w].op = "readDac"
             THEN LET lost == dacDo[w].lost \cup {Min(DacChannels \ dacDo[w].lost)}
                  IN /\ dacDo' = [dacDo EXCEPT ![w].lost = lost,
                                               ![w].step = IF lost = DacChannels THEN "go" ELSE "read"]
                     /\ UNCHANGED dacDone
             ELSE Returned(w, FALSE)
          /\ UNCHANGED dacFresh
    /\ UNCHANGED <<dacDevice, dacCopy, dacEvent, dacCalls>>

\* parseChannelData().  A busy EEPROM has waitEepReady() read again, a hundred times at the most.
DacParse(w) ==
    /\ dacDo[w] # Idle /\ dacDo[w].step = "parse"
    /\ fChannelSetting' = dacDo[w].got[1] /\ fChannelSettingEep' = dacDo[w].got[2] /\ fBusy' = dacDo[w].got[3]
    /\ \/ /\ ~Waits(w, dacDo[w].got[3])
          /\ dacFresh' = TRUE /\ Step(w, "go") /\ UNCHANGED dacDone
       \/ /\ Waits(w, dacDo[w].got[3])
          /\ dacFresh' = TRUE /\ Returned(w, FALSE)
       \/ /\ Waits(w, dacDo[w].got[3])
          /\ dacFresh' = FALSE /\ Step(w, "read") /\ UNCHANGED dacDone
    /\ UNCHANGED <<dacDevice, dacEvent, dacCalls, dacFaults>>

\* The device has written its EEPROM.
EepromReady ==
    /\ dacBusy /\ dacBusy' = FALSE
    /\ UNCHANGED <<dacReg, dacEep, dacCopy, dacFresh, dacDo, dacDone, dacEvent, dacCalls, dacFaults>>

CopyAges ==
    /\ dacFresh /\ dacFresh' = FALSE
    /\ UNCHANGED <<dacDevice, dacCopy, dacDo, dacDone, dacEvent, dacCalls, dacFaults>>

\* writeChannel(): one transfer, then the copy, which has to be read again.
writeChannel(w) ==
    /\ dacDo[w] # Idle /\ dacDo[w].op = "setVoltage" /\ dacDo[w].step = "go"
    /\ \/ NoFault /\ dacReg' = [dacReg EXCEPT ![dacDo[w].channel] = dacDo[w].data] /\ Step(w, "written")
          /\ UNCHANGED dacDone
       \/ Fault /\ Returned(w, FALSE) /\ UNCHANGED dacReg
    /\ UNCHANGED <<dacEep, dacBusy, dacCopy, dacFresh, dacEvent, dacCalls>>

Written(w) ==
    /\ dacDo[w] # Idle /\ dacDo[w].op = "setVoltage" /\ dacDo[w].step = "written"
    /\ fChannelSetting' = [fChannelSetting EXCEPT ![dacDo[w].channel] = dacDo[w].data]
    /\ dacFresh' = FALSE
    /\ Returned(w, TRUE)
    /\ UNCHANGED <<dacDevice, fChannelSettingEep, fBusy, dacEvent, dacCalls, dacFaults>>

\* storeSettings(): the copy goes to the registers and to the EEPROM, in one transfer.
storeSettings(w) ==
    /\ dacDo[w] # Idle /\ dacDo[w].op = "storeSettings" /\ dacDo[w].step = "go"
    /\ \/ NoFault /\ dacReg' = fChannelSetting /\ dacEep' = fChannelSetting /\ dacBusy' = TRUE
          /\ dacFresh' = FALSE /\ Returned(w, TRUE)
       \/ Fault /\ Returned(w, FALSE) /\ UNCHANGED <<dacDevice, dacFresh>>
    /\ UNCHANGED <<dacCopy, dacEvent, dacCalls>>

-----------------------------------------------------------------------------
(* The driver.                                                              *)

DacCall(w, call) ==
    /\ dacDo[w] = Idle /\ dacCalls < MaxDacCalls /\ dacCalls' = dacCalls + 1
    /\ dacDo' = [dacDo EXCEPT ![w] = call]
    /\ dacDone' = Idle
    /\ UNCHANGED <<dacDevice, dacCopy, dacFresh, dacEvent, dacFaults>>

SetCall(channel, v, then) ==
    [op |-> "setVoltage", channel |-> channel, voltage |-> v, data |-> Coded(fChannelSetting[channel].vref, v),
     then |-> then, step |-> "read", got |-> <<>>, lost |-> {}]

\* setVoltage() refuses a code of more than 12 bits before anything is sent.
Refused(call) == call.data.value > MaxCode

\* setDacValue(): a threshold is limited and read back once it is set, the other channels are neither.
setDacValue(w, channel, v) ==
    LET call == IF channel \in Thresholds
                THEN SetCall(channel, Min({v, 2 * MaxCode}), "readIfSet")
                ELSE SetCall(channel, v, "no")
    IN ~Refused(call) /\ DacCall(w, call)

\* setBiasVoltage() reads the DAC whatever became of it.
setBiasVoltage(w, v) ==
    LET call == SetCall(BiasChannel, v, "read") IN DacCall(w, IF Refused(call) THEN ReadCall ELSE call)

\* saveDacValuesToEeprom().
saveDacValuesToEeprom(w) == DacCall(w, [op |-> "storeSettings", step |-> "read", got |-> <<>>, lost |-> {}])

\* The handler of a DacSettingRequestCmd.
requestDac(w) == DacCall(w, ReadCall)

\* readDac(): what cannot be read is shown as zero.
readDac(w) ==
    /\ dacDo[w] # Idle /\ dacDo[w].op = "readDac" /\ dacDo[w].step = "go"
    /\ dacEvent' = [c \in DacChannels |-> IF c \in dacDo[w].lost THEN DacChannel ELSE fChannelSetting[c]]
    /\ Returned(w, TRUE)
    /\ UNCHANGED <<dacDevice, dacCopy, dacFresh, dacCalls, dacFaults>>

DacNext ==
    \/ CopyAges \/ EepromReady
    \/ \E w \in DacWorkers :
          \/ \E c \in DacChannels, v \in Voltages : setDacValue(w, c, v)
          \/ \E v \in Voltages : setBiasVoltage(w, v)
          \/ saveDacValuesToEeprom(w) \/ requestDac(w)
          \/ DacFetch(w) \/ DacParse(w) \/ writeChannel(w) \/ Written(w) \/ storeSettings(w) \/ readDac(w)

DacSpec == DacInit /\ [][DacNext]_dacVars

-----------------------------------------------------------------------------
(* The properties.                                                          *)

\* What the driver believes of the DAC is so: a copy taken for recent is what the device holds;
\* a voltage that was accepted is on its channel (as far as 16 bits carry it: on the internal
\* reference a larger one wraps around and is accepted as another; on Vdd it is the code that wraps);
\* a store that succeeded put the registers, and nothing older, into the EEPROM.  With one worker:
\* two may read, write and parse across each other.
DacIsAsBelieved ==
    /\ dacFresh /\ (\A w \in DacWorkers : dacDo[w] = Idle \/ dacDo[w].step # "written") =>
          fChannelSetting = dacReg /\ fChannelSettingEep = dacEep
    /\ dacDone.op = "setVoltage" /\ dacDone.ok =>
          (dacReg[dacDone.call.channel].vref = "2V" \/ dacDone.call.voltage < Modulus =>
              Near(dacReg[dacDone.call.channel], dacDone.call.voltage % Modulus))
    /\ dacDone.op = "storeSettings" /\ dacDone.ok => dacEep = dacReg
=============================================================================
