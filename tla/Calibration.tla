---------------------------- MODULE Calibration ----------------------------
(***************************************************************************)
(* The calibration data in the EEPROM: ShowerDetectorCalib                 *)
(* (daemon/src/utility/calibration.cpp) over EEPROM24AA02                  *)
(* (daemon/src/hardware/i2c/eeprom24aa02.cpp), whose writes go page by     *)
(* page and go on after a page that failed.  The daemon may end between    *)
(* two pages and read the EEPROM again when it starts.                     *)
(*                                                                         *)
(* The bytes of an item all carry the item's value, so an item that is     *)
(* read from bytes of two writes shows.                                    *)
(***************************************************************************)
EXTENDS Integers, Sequences

CONSTANTS
    CALIBITEMS,     \* the bytes of each item, in order; the last one is WRITE_CYCLES
    PAGESIZE,
    EepromSize,     \* 256
    SerialSize,     \* the last six bytes hold the unique id
    ItemValues,     \* what an item can be set to
    MaxCalibCalls,  \* bound: calls made
    MaxCalibFaults  \* bound: transfers that fail and crashes

HeaderSize == 2
Cycles == Len(CALIBITEMS)
Items == 1 .. Cycles

\* buildCalibList(): an item begins where the one before it ends.
address[i \in Items] == IF i = 1 THEN HeaderSize ELSE address[i - 1] + CALIBITEMS[i - 1]
ItemBytes(i) == address[i] .. address[i] + CALIBITEMS[i] - 1

\* The items end before the unique id.
ASSUME CalibAssumption ==
    /\ CALIBITEMS \in Seq(Nat \ {0}) /\ Cycles > 0 /\ PAGESIZE \in Nat \ {0} /\ MaxCalibCalls \in Nat
    /\ EepromSize \in Nat /\ SerialSize \in Nat /\ ItemValues \subseteq Int
    /\ address[Cycles] + CALIBITEMS[Cycles] <= EepromSize - SerialSize

VARIABLES
    calEeprom,      \* the bytes in the device
    fEepBuffer, fCalibList, fEepromValid, fValid,
    calPage,        \* the next byte writeBytes() will write, or -1
    calSuccess,     \* success so far
    calWritten,     \* ghost: the list of the last write, and whether it ended well
    calCalls, calFaults

calVars == <<calEeprom, fEepBuffer, fCalibList, fEepromValid, fValid, calPage, calSuccess, calWritten, calCalls,
             calFaults>>
calObject == <<fEepBuffer, fCalibList, fEepromValid, fValid>>

EepromBytes == 0 .. EepromSize - 1
Serial == EepromSize - SerialSize .. EepromSize - 1
Defaults == [i \in Items |-> IF i = Cycles THEN 1 ELSE 0]

CALIB_HEADER == 77
Blank == -1
Id == 99
Torn == -2
NotWriting == -1

\* An object whose first read failed, over a device that was never written.
CalInit ==
    /\ calEeprom = [b \in EepromBytes |-> IF b \in Serial THEN Id ELSE Blank]
    /\ fEepBuffer = [b \in EepromBytes |-> 0] /\ fCalibList = Defaults
    /\ fEepromValid = FALSE /\ fValid = FALSE
    /\ calPage = NotWriting /\ calSuccess = TRUE
    /\ calWritten = [list |-> Defaults, ok |-> FALSE]
    /\ calCalls = 0 /\ calFaults = 0

CalCall == calPage = NotWriting /\ calCalls < MaxCalibCalls /\ calCalls' = calCalls + 1
CalFault == calFaults < MaxCalibFaults /\ calFaults' = calFaults + 1

-----------------------------------------------------------------------------
(* Reading.                                                                 *)

ItemIn(buffer, i) ==
    IF \A b, c \in ItemBytes(i) : buffer[b] = buffer[c] THEN buffer[address[i]] ELSE Torn
HasHeader(buffer) == \A b \in 0 .. HeaderSize - 1 : buffer[b] = CALIB_HEADER

\* readFromEeprom() with a transfer that succeeds: without the header the list stays as it is.
ReadAll ==
    /\ fEepBuffer' = calEeprom
    /\ fValid' = HasHeader(calEeprom)
    /\ fCalibList' = IF HasHeader(calEeprom) THEN [i \in Items |-> ItemIn(calEeprom, i)] ELSE fCalibList

\* A mutant: the EEPROM is still thought valid.
StillValid == fEepBuffer' = [b \in EepromBytes |-> 0] /\ UNCHANGED <<fCalibList, fValid, fEepromValid>>

\* The buffer was cleared before the transfer that fails.
ReadFails == fEepBuffer' = [b \in EepromBytes |-> 0] /\ fEepromValid' = FALSE /\ UNCHANGED <<fCalibList, fValid>>

readFromEeprom ==
    /\ CalCall
    /\ \/ ReadAll /\ UNCHANGED <<fEepromValid, calFaults>>
       \/ CalFault /\ ReadFails
    /\ UNCHANGED <<calEeprom, calPage, calSuccess, calWritten>>

\* init(), after a start or a crash: the list of defaults, then a first read.
CalRestart ==
    /\ calCalls < MaxCalibCalls /\ calCalls' = calCalls + 1
    /\ calPage' = NotWriting /\ calSuccess' = TRUE
    /\ \/ /\ fEepBuffer' = calEeprom /\ fValid' = HasHeader(calEeprom) /\ fEepromValid' = TRUE
          /\ fCalibList' = IF HasHeader(calEeprom) THEN [i \in Items |-> ItemIn(calEeprom, i)] ELSE Defaults
          /\ IF calPage = NotWriting THEN UNCHANGED calFaults ELSE CalFault
       \/ /\ fEepBuffer' = [b \in EepromBytes |-> 0] /\ fValid' = FALSE /\ fEepromValid' = FALSE
          /\ fCalibList' = Defaults /\ CalFault
    /\ UNCHANGED <<calEeprom, calWritten>>

-----------------------------------------------------------------------------
(* Writing.                                                                 *)

setCalibItem ==
    /\ CalCall
    /\ \E i \in Items \ {Cycles}, v \in ItemValues : fCalibList' = [fCalibList EXCEPT ![i] = v]
    /\ UNCHANGED <<calEeprom, fEepBuffer, fEepromValid, fValid, calPage, calSuccess, calWritten, calFaults>>

\* updateBuffer(): the header and the items; the other bytes keep what was read.
updateBuffer(list) ==
    [b \in EepromBytes |->
        IF b < HeaderSize THEN CALIB_HEADER
        ELSE IF \E i \in Items : b \in ItemBytes(i) THEN list[CHOOSE i \in Items : b \in ItemBytes(i)]
        ELSE fEepBuffer[b]]

\* writeToEeprom(): the cycles are counted, the buffer filled and the pages written.
writeToEeprom ==
    /\ CalCall /\ fEepromValid
    /\ LET list == [fCalibList EXCEPT ![Cycles] = @ + 1]
       IN /\ fCalibList' = list /\ fEepBuffer' = updateBuffer(list)
          /\ calWritten' = [list |-> list, ok |-> FALSE]
    /\ calPage' = 0 /\ calSuccess' = TRUE
    /\ UNCHANGED <<calEeprom, fEepromValid, fValid, calFaults>>

\* The bytes left on the page, for a write that begins at address 0.
pageRemainder(at) ==
    LET left == PAGESIZE - (at % PAGESIZE) IN IF at + left >= EepromSize THEN EepromSize - at ELSE left

\* One turn of the loop of EEPROM24AA02::writeBytes().
writeBytes ==
    /\ calPage # NotWriting
    /\ LET next == calPage + pageRemainder(calPage)
           done == next >= EepromSize
       IN /\ \/ /\ calEeprom' = [b \in EepromBytes |-> IF b \in calPage .. next - 1 THEN fEepBuffer[b] ELSE calEeprom[b]]
                /\ UNCHANGED <<calFaults, calSuccess>>
                /\ calWritten' = [calWritten EXCEPT !.ok = done /\ calSuccess]
             \/ /\ CalFault /\ calSuccess' = FALSE /\ UNCHANGED <<calEeprom, calWritten>>
          /\ calPage' = IF done THEN NotWriting ELSE next
    /\ UNCHANGED <<calObject, calCalls>>

CalNext == readFromEeprom \/ CalRestart \/ setCalibItem \/ writeToEeprom \/ writeBytes

CalSpec == CalInit /\ [][CalNext]_calVars

-----------------------------------------------------------------------------
(* The property.                                                            *)

\* The calibration survives: whatever fails and whenever the daemon ends, the unique id at the end
\* of the EEPROM is never written over with anything else; after a write that returned true the
\* EEPROM is the calibration that was written, header, items and the count of cycles, so that the
\* next start finds it whole.
CalibrationSurvives ==
    /\ \A b \in Serial : calEeprom[b] = Id
    /\ calWritten.ok => HasHeader(calEeprom) /\ \A i \in Items : ItemIn(calEeprom, i) = calWritten.list[i]
=============================================================================
