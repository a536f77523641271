-------------------------- MODULE MessageProcessor --------------------------
(***************************************************************************)
(* The decoding of the receiver's messages,                                *)
(* daemon/src/hardware/ublox/message_processor.cpp.  A handler reads its   *)
(* fields at fixed offsets of the payload and returns an event; here it is *)
(* the set of the fields it reads, each an offset and a size.  Two static  *)
(* variables outlive a message: the version, and the length of the last    *)
(* pulse, from which TIM-TM2 recovers an edge the receiver did not time.   *)
(***************************************************************************)
EXTENDS Integers, Sequences, FiniteSets

CONSTANTS
    NanosPerSecond,     \* 10^9, scaled down
    PulseLimit,         \* the longest pulse that is remembered, 10^6 ns scaled alike
    LastNanosecond,     \* bound: the last time of an edge
    VersionTexts,       \* the texts behind PROTVER, as sequences of kinds of characters
    MaxMessages         \* bound: messages processed

ASSUME MessageProcessorAssumption ==
    /\ NanosPerSecond \in Nat \ {0} /\ LastNanosecond \in Nat /\ MaxMessages \in Nat
    /\ PulseLimit \in 1..NanosPerSecond

VARIABLES
    mpEvent,        \* what the last processMessage() returned
    gpsVersion,     \* MessageProcessor::gpsVersion: the protocol text, if any
    lastPulseLength,\* UBXTimTM2's static variable
    mpCount         \* the messages processed

mpVars == <<mpEvent, gpsVersion, lastPulseLength, mpCount>>

-----------------------------------------------------------------------------
(* The handlers: the bytes each reads from a payload of a length.           *)

\* The third component tells fields taken from the same place apart.
Field(offset, size) == <<offset, size, 1>>
SecondField(offset, size) == <<offset, size, 2>>
Each(offsets, size) == {Field(o, size) : o \in offsets}

\* std::size_t arithmetic, with a smaller width than the machine's.
SizeT == 2^16
Blocks(len, head, size) == ((len - head) % SizeT) \div size

UBXNavStatus == Each({0, 8, 12}, 4) \cup Each({4, 5, 7}, 1)
UBXNavDOP == Each({0}, 4) \cup Each({4, 6, 8, 10, 12, 14, 16}, 2)
UBXNavTimeGPS == Each({0, 4, 12}, 4) \cup Each({8}, 2) \cup Each({10, 11}, 1)
UBXNavTimeUTC == Each({0, 4, 8}, 4) \cup Each({12}, 2) \cup Each(14..19, 1)
UBXNavClock == Each({0, 4, 8, 12, 16}, 4)
UBXNavPosLLH == Each({0, 4, 8, 12, 16, 20, 24}, 4)
UBXCfgAnt == Each({0, 2}, 2)
UBXCfgNavX5 == Each({0, 10, 11, 12, 14, 27}, 1) \cup Each({18, 30}, 2)
UBXCfgNav5 == Each({0}, 2) \cup Each({2, 3, 12, 24, 25}, 1) \cup Each({4, 8}, 4)
UBXCfgTP5 == Each({0, 1}, 1) \cup Each({4, 6}, 2) \cup Each({8, 12, 16, 20, 24, 28}, 4)
UBXCfgMSG == Each({0}, 2) \cup Each({2 + 1}, 1)                     \* s_default_target
UBXMonRx == UNION {{Field(2 * t, 2), Field(t + 12, 1), Field(t + 18, 1)} : t \in 0..5}
UBXMonTx == UBXMonRx \cup Each({24, 25}, 1)
UBXMonHW == Each({16, 18}, 2) \cup Each({20, 21, 22, 45}, 1)
UBXMonHW2 == Each(0..4, 1) \cup Each({20}, 4)
\* flags and refInfo are both taken from byte 14.
UBXTimTP == Each({0, 4, 8}, 4) \cup Each({12}, 2) \cup Each({14}, 1) \cup {SecondField(14, 1)}
UBXTimTM2 == Each({0, 1}, 1) \cup Each({2, 4, 6}, 2) \cup Each({8, 12, 16, 20, 24}, 4)

UBXNavSVinfo(len) ==
    Each({0}, 4) \cup Each({4, 5}, 1) \cup
    UNION {{Field(n + 1, 1), Field(n + 2, 1), Field(n + 3, 1), Field(n + 4, 1), Field(n + 5, 1),
            Field(n + 6, 2), Field(n + 8, 4)} : n \in {8 + i * 12 : i \in 0..(Blocks(len, 8, 12) - 1)}}
UBXNavSat(len) ==
    Each({0}, 4) \cup Each({4, 5}, 1) \cup
    UNION {{Field(n, 1), Field(n + 1, 1), Field(n + 2, 1), Field(n + 3, 1), Field(n + 4, 2),
            Field(n + 6, 2), Field(n + 8, 4)} : n \in {8 + i * 12 : i \in 0..(Blocks(len, 8, 12) - 1)}}
\* The blocks of CFG-GNSS begin behind a header of four bytes.
BlocksFromEight(len) ==
    Each(0..3, 1) \cup
    UNION {{Field(n + 8, 1), Field(n + 9, 1), Field(n + 10, 1), Field(n + 12, 4)} :
              n \in {8 * i : i \in 0..(Blocks(len, 4, 8) - 1)}}
UBXCfgGNSS(len) ==
    Each(0..3, 1) \cup
    UNION {{Field(n + 4, 1), Field(n + 5, 1), Field(n + 6, 1), Field(n + 8, 4)} :
              n \in {8 * i : i \in 0..(Blocks(len, 4, 8) - 1)}}
\* The two strings end at a zero; the search for extensions stays inside by substr().
UBXMonVer(len) == Each(0..29, 1) \cup Each(30..39, 1) \cup Each(0..(len - 1), 1)

\* What handlerLookup finds for a message.
handlerLookup(m, len) ==
    CASE m = "NAV_STATUS" -> UBXNavStatus
      [] m = "NAV_DOP" -> UBXNavDOP
      [] m = "NAV_TIMEGPS" -> UBXNavTimeGPS
      [] m = "NAV_TIMEUTC" -> UBXNavTimeUTC
      [] m = "NAV_CLOCK" -> UBXNavClock
      [] m = "NAV_SVINFO" -> UBXNavSVinfo(len)
      [] m = "NAV_SAT" -> UBXNavSat(len)
      [] m = "NAV_POSLLH" -> UBXNavPosLLH
      [] m = "CFG_ANT" -> UBXCfgAnt
      [] m = "CFG_NAVX5" -> UBXCfgNavX5
      [] m = "CFG_NAV5" -> UBXCfgNav5
      [] m = "CFG_TP5" -> UBXCfgTP5
      [] m = "CFG_GNSS" -> UBXCfgGNSS(len)
      [] m = "CFG_MSG" -> UBXCfgMSG
      [] m = "MON_RXBUF" -> UBXMonRx
      [] m = "MON_TXBUF" -> UBXMonTx
      [] m = "MON_HW" -> UBXMonHW
      [] m = "MON_HW2" -> UBXMonHW2
      [] m = "MON_VER" -> UBXMonVer(len)
      [] m = "TIM_TP" -> UBXTimTP
      [] m = "TIM_TM2" -> UBXTimTM2

\* The payloads a receiver sends: a header and n blocks.
PayloadLengths ==
    [NAV_STATUS |-> {16}, NAV_DOP |-> {18}, NAV_TIMEGPS |-> {16}, NAV_TIMEUTC |-> {20},
     NAV_CLOCK |-> {20}, NAV_SVINFO |-> {8 + 12 * n : n \in 0..3}, NAV_SAT |-> {8 + 12 * n : n \in 0..3},
     NAV_POSLLH |-> {28}, CFG_ANT |-> {4}, CFG_NAVX5 |-> {40}, CFG_NAV5 |-> {36}, CFG_TP5 |-> {32},
     CFG_GNSS |-> {4 + 8 * n : n \in 0..3}, CFG_MSG |-> {8}, MON_RXBUF |-> {24}, MON_TXBUF |-> {28},
     MON_HW |-> {60}, MON_HW2 |-> {28}, MON_VER |-> {40 + 30 * n : n \in 0..2}, TIM_TP |-> {16},
     TIM_TM2 |-> {28}]

Handled == DOMAIN PayloadLengths

-----------------------------------------------------------------------------
(* The protocol version in MON-VER.                                         *)

DropFront(s, K) == LET keep == {i \in 1..Len(s) : s[i] \notin K}
                   IN IF keep = {} THEN <<>> ELSE SubSeq(s, CHOOSE i \in keep : \A j \in keep : i <= j, Len(s))
DropBack(s, K) == LET keep == {i \in 1..Len(s) : s[i] \notin K}
                  IN IF keep = {} THEN <<>> ELSE SubSeq(s, 1, CHOOSE i \in keep : \A j \in keep : i >= j)
CharKinds == {"digit", "dot", "sign", "space", "nul"}

ASSUME VersionTextsAssumption == VersionTexts \subseteq Seq(CharKinds)

\* What UBXMonVer keeps of the text behind PROTVER.
KeepTail(text) == DropFront(text, CharKinds \ {"digit"})
ProtText(text) == DropBack(DropFront(text, CharKinds \ {"digit"}), {"space", "nul"})

\* std::from_chars over the whole of a text.
IsNumber(s) == s # <<>> /\ \A i \in 1..Len(s) : s[i] = "digit"

\* getProtVersion(): does the text give a version?
HasProtVersion(text) ==
    LET s == DropBack(DropFront(text, {"space"}), {"space"})
        dots == {i \in 1..Len(s) : s[i] = "dot"}
    IN IF dots = {} THEN IsNumber(s)
       ELSE LET d == CHOOSE i \in dots : \A j \in dots : i <= j
            IN IsNumber(SubSeq(s, 1, d - 1)) /\ IsNumber(SubSeq(s, d + 1, Len(s)))

-----------------------------------------------------------------------------
(* TIM-TM2: the two edges of a pulse.                                       *)

Stamp(t) == [sec |-> t \div NanosPerSecond, nsec |-> t % NanosPerSecond]
Nanos(s) == s.sec * NanosPerSecond + s.nsec

\* The two carries of the code; a falling edge is only ever later.
NoBorrow(s) == s
Borrow(s) ==
    CASE s.nsec >= NanosPerSecond -> [sec |-> s.sec + 1, nsec |-> s.nsec - NanosPerSecond]
      [] s.nsec < 0 -> [sec |-> s.sec - 1, nsec |-> s.nsec + NanosPerSecond]
      [] OTHER -> s
Carry(s) ==
    IF s.nsec >= NanosPerSecond THEN [sec |-> s.sec + 1, nsec |-> s.nsec - NanosPerSecond] ELSE s

RisingFrom(falling, length) ==
    Borrow([sec |-> falling.sec - length \div NanosPerSecond,
            nsec |-> falling.nsec - (length % NanosPerSecond)])
FallingFrom(rising, length) ==
    Carry([sec |-> rising.sec + length \div NanosPerSecond,
           nsec |-> rising.nsec + (length % NanosPerSecond)])

\* The edges the event carries, from those the receiver reports as new.
TimeMark(rising, falling, risingValid, fallingValid) ==
    [risingValid |-> risingValid, fallingValid |-> fallingValid,
     rising |-> IF ~risingValid /\ fallingValid THEN RisingFrom(falling, lastPulseLength) ELSE rising,
     falling |-> IF ~fallingValid /\ risingValid THEN FallingFrom(rising, lastPulseLength) ELSE falling]

\* Is this a pulse whose length is remembered?
Remembered(dts) == dts > 0 /\ dts < PulseLimit

-----------------------------------------------------------------------------
(* processMessage().                                                        *)

\* A message whose handler only reads fields.
ProcessFields(m, len) ==
    /\ mpEvent' = [kind |-> m, reads |-> handlerLookup(m, len), len |-> len]
    /\ UNCHANGED <<gpsVersion, lastPulseLength>>

ProcessMonVer(text, len) ==
    /\ gpsVersion' = ProtText(text)
    /\ mpEvent' = [kind |-> "MON_VER", reads |-> UBXMonVer(len), len |-> len, text |-> text]
    /\ UNCHANGED lastPulseLength

ProcessTimTM2(r, f, risingValid, fallingValid) ==
    /\ mpEvent' = [kind |-> "TIM_TM2", reads |-> UBXTimTM2, len |-> 28,
                   mark |-> TimeMark(Stamp(r), Stamp(f), risingValid, fallingValid)]
    /\ lastPulseLength' = IF risingValid /\ fallingValid /\ Remembered(f - r) THEN f - r ELSE lastPulseLength
    /\ UNCHANGED gpsVersion

\* UBXAck(): a payload that does not name a message gives no event.
ProcessAck(len, isNak) ==
    /\ mpEvent' = [kind |-> IF len < 2 THEN "nullopt" ELSE IF isNak THEN "UbxAckNak" ELSE "UbxAckAck"]
    /\ UNCHANGED <<gpsVersion, lastPulseLength>>

\* unhandled() only logs.
ProcessUnhandled ==
    /\ mpEvent' = [kind |-> "nullopt"]
    /\ UNCHANGED <<gpsVersion, lastPulseLength>>

MpInit == mpEvent = [kind |-> "nullopt"] /\ gpsVersion = <<>> /\ lastPulseLength = 0 /\ mpCount = 0

MpStep ==
    \/ \E m \in Handled \ {"MON_VER", "TIM_TM2"} : \E len \in PayloadLengths[m] : ProcessFields(m, len)
    \/ \E text \in VersionTexts, len \in PayloadLengths["MON_VER"] \ {40} : ProcessMonVer(text, len)
    \/ \E r, f \in 0..LastNanosecond, rv, fv \in BOOLEAN : ProcessTimTM2(r, f, rv, fv)
    \/ \E len \in {0, 1, 2}, isNak \in BOOLEAN : ProcessAck(len, isNak)
    \/ ProcessUnhandled
MpNext == mpCount < MaxMessages /\ MpStep /\ mpCount' = mpCount + 1
MpSpec == MpInit /\ [][MpNext]_mpVars

-----------------------------------------------------------------------------
Bytes(field) == field[1]..(field[1] + field[2] - 1)

\* The bytes of which a handler makes two fields: TIM-TP takes refInfo, the receiver's byte 15, from
\* the byte of the flags (lines 1080 and 1082).
TakenTwice(m) == IF m = "TIM_TP" THEN {14} ELSE {}

(* No handler reads beyond a payload the receiver sends, repeated blocks    *)
(* included, though none ever looks at the length, and no byte is taken for *)
(* two fields but the one that TIM-TP takes twice.                          *)
FieldsInPayload ==
    mpEvent.kind \in Handled =>
        /\ \A f \in mpEvent.reads : Bytes(f) \subseteq 0..(mpEvent.len - 1)
        /\ \A f, g \in mpEvent.reads : f # g => Bytes(f) \cap Bytes(g) \subseteq TakenTwice(mpEvent.kind)

(* A version that the receiver announces in its usual form, a number with   *)
(* or without a fraction, whatever surrounds it, is understood by           *)
(* getProtVersion(), on which the set-up of the receiver waits.             *)
AnnouncesVersion(text) ==
    \E i, j, k \in 1..(Len(text) + 1) :
        /\ i < j /\ j <= k
        /\ \A n \in 1..(i - 1) : text[n] \in {"sign", "space"}
        /\ IsNumber(SubSeq(text, i, j - 1))
        /\ k > j => text[j] = "dot" /\ IsNumber(SubSeq(text, j + 1, k - 1))
        /\ \A n \in k..Len(text) : text[n] \in {"space", "nul"}
VersionIsUnderstood ==
    mpEvent.kind = "MON_VER" /\ AnnouncesVersion(mpEvent.text) => HasProtVersion(gpsVersion)

(* A pulse of which the receiver timed one edge is reported with both, as   *)
(* long as the last complete pulse, and with proper nanoseconds, also       *)
(* across a second's boundary.                                              *)
PulseIsRecovered ==
    mpEvent.kind = "TIM_TM2" =>
        LET mark == mpEvent.mark
        IN /\ \A s \in {mark.rising, mark.falling} : s.nsec \in 0..(NanosPerSecond - 1)
           /\ mark.risingValid # mark.fallingValid =>
                 Nanos(mark.falling) - Nanos(mark.rising) = lastPulseLength

(* No message of the receiver misleads processMessage(): the fields lie in  *)
(* the payload, the version is understood and a half-timed pulse recovered. *)
MessagesAreDecoded == FieldsInPayload /\ VersionIsUnderstood /\ PulseIsRecovered

=============================================================================
