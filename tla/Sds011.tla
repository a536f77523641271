------------------------------- MODULE Sds011 -------------------------------
(***************************************************************************)
(* The dust sensor: Sds011 (daemon/src/hardware/sds011/sds011.cpp), which  *)
(* sets the sensor's mode when it is constructed and then reads the serial *)
(* line, and Sds011Parser (sds011_parser.cpp), which finds the frames of   *)
(* ten bytes in it.  What is written waits in a queue on the transmit      *)
(* strand.                                                                 *)
(***************************************************************************)
EXTENDS Integers, Sequences

CONSTANTS
    SdsPieces,      \* the pieces the serial line is made of, each a sequence of bytes
    MaxSdsPieces,   \* bound: pieces on the line
    SleepTimes      \* the values of sds011_n_sleep

SdsBytes == 0..255

ASSUME Sds011Assumption ==
    SdsPieces \subseteq Seq(SdsBytes) /\ MaxSdsPieces \in Nat /\ SleepTimes \subseteq Nat

VARIABLES
    sdsParser,      \* the fields of the parser
    sdsOut,         \* the events published
    sdsLine,        \* the bytes that have not been read
    sdsRead,        \* history: the bytes that have been fed
    sdsCount,       \* the number of pieces so far
    sdsReading,     \* a read is under way
    sdsSleep,       \* n_sleep
    sdsState,       \* of the constructor
    sdsPosted,      \* the messages posted to tx_strand_
    tx_queue_,
    sdsWriting,     \* a write is under way
    sdsSent         \* history: what the sensor received

sdsParserVars == <<sdsParser, sdsOut, sdsLine, sdsRead, sdsCount, sdsReading>>
sdsWriterVars == <<sdsPosted, tx_queue_, sdsWriting, sdsSent>>
sdsVars == <<sdsParserVars, sdsWriterVars, sdsSleep, sdsState>>

HEAD == 170     \* 0xAA
TAIL == 171     \* 0xAB
DATA == 192     \* 0xC0
ACK == 197      \* 0xC5

-----------------------------------------------------------------------------
(* The parser.                                                              *)

NoFrame == [state |-> "SYNC1", type |-> DATA, data |-> <<>>, ck |-> 0]

Pair(lo, hi) == lo + 256 * hi

build_data_msg(d) == [pm2dot5 |-> Pair(d[1], d[2]), pm10dot0 |-> Pair(d[3], d[4]), id |-> Pair(d[5], d[6])]

\* An acknowledgement carries the one field its type is about.
build_ack_msg(d) ==
    CASE d[1] = 2 -> [ackType |-> 2, queryOnlyMode |-> d[3] = 1]
      [] d[1] = 5 -> [ackType |-> 5, id |-> Pair(d[5], d[6])]
      [] d[1] = 6 -> [ackType |-> 6, sleep |-> d[3] = 0]
      [] d[1] = 7 -> [ackType |-> 7, firmwareDate |-> SubSeq(d, 2, 4)]
      [] d[1] = 8 -> [ackType |-> 8, modeByte |-> d[3]]
      [] OTHER -> [ackType |-> d[1]]
Message(type, d) == IF type = DATA THEN build_data_msg(d) ELSE build_ack_msg(d)

\* A mutant: a start byte after a start byte is taken for noise.
ForgetHead(p, b) ==
    IF b \in {DATA, ACK} THEN [p EXCEPT !.state = "DAT", !.type = b, !.data = <<>>, !.ck = 0]
    ELSE [p EXCEPT !.state = "SYNC1"]

AfterHead(p, b) ==
    IF b \in {DATA, ACK} THEN [p EXCEPT !.state = "DAT", !.type = b, !.data = <<>>, !.ck = 0]
    ELSE [p EXCEPT !.state = IF b = HEAD THEN "SYNC2" ELSE "SYNC1"]

\* One turn of the loop in feed(); DAT stands for DAT0 to DAT5.
feed(p, b) ==
    CASE p.state = "SYNC1" -> IF b = HEAD THEN [p EXCEPT !.state = "SYNC2"] ELSE p
      [] p.state = "SYNC2" -> AfterHead(p, b)
      [] p.state = "DAT" -> [p EXCEPT !.data = Append(@, b), !.ck = (@ + b) % 256,
                                      !.state = IF Len(p.data) = 5 THEN "CHKSM" ELSE "DAT"]
      [] p.state = "CHKSM" -> IF b = p.ck THEN [p EXCEPT !.state = "TAIL"] ELSE [p EXCEPT !.state = "SYNC1", !.ck = 0]
      [] p.state = "TAIL" -> [p EXCEPT !.state = "SYNC1", !.ck = 0]

Published(p, b) == IF p.state = "TAIL" /\ b = TAIL THEN <<Message(p.type, p.data)>> ELSE <<>>

\* The bytes that are there are read one after the other.
startAsyncRead ==
    /\ sdsReading /\ sdsLine # <<>>
    /\ sdsParser' = feed(sdsParser, Head(sdsLine))
    /\ sdsOut' = sdsOut \o Published(sdsParser, Head(sdsLine))
    /\ sdsRead' = Append(sdsRead, Head(sdsLine)) /\ sdsLine' = Tail(sdsLine)
    /\ UNCHANGED <<sdsCount, sdsReading, sdsWriterVars, sdsSleep, sdsState>>

\* A read that fails is not followed by another.
ReadError ==
    /\ sdsReading /\ sdsLine = <<>> /\ sdsReading' = FALSE
    /\ UNCHANGED <<sdsParser, sdsOut, sdsLine, sdsRead, sdsCount, sdsWriterVars, sdsSleep, sdsState>>

SdsArrive ==
    /\ sdsReading /\ sdsLine = <<>> /\ sdsCount < MaxSdsPieces
    /\ \E c \in SdsPieces : sdsLine' = c
    /\ sdsCount' = sdsCount + 1
    /\ UNCHANGED <<sdsParser, sdsOut, sdsRead, sdsReading, sdsWriterVars, sdsSleep, sdsState>>

-----------------------------------------------------------------------------
(* Construction and writing.                                                *)

\* setMode(): Continuous sends the working period, then wakes the sensor; Interval sends nothing,
\* because its case runs into the default, which returns.
setMode(n) == IF n = 0 THEN <<"period 0", "work">> ELSE <<>>

\* makeConnection(): a port that does not open leaves an object that does nothing.
SdsConstruct ==
    /\ sdsState = "new"
    /\ \/ sdsState' = "closed" /\ UNCHANGED <<sdsReading, sdsPosted>>
       \/ sdsState' = "open" /\ sdsReading' = TRUE /\ sdsPosted' = setMode(sdsSleep)
    /\ UNCHANGED <<sdsParser, sdsOut, sdsLine, sdsRead, sdsCount, tx_queue_, sdsWriting, sdsSent, sdsSleep>>

\* enqueueMessage(), on the strand: a write is begun if the queue was empty.
enqueueMessage ==
    /\ sdsPosted # <<>>
    /\ sdsPosted' = Tail(sdsPosted)
    /\ tx_queue_' = Append(tx_queue_, Head(sdsPosted))
    /\ sdsWriting' = (sdsWriting \/ tx_queue_ = <<>>)
    /\ UNCHANGED <<sdsSent, sdsParserVars, sdsSleep, sdsState>>

\* do_write() ends: the next message follows; after an error the message stays and nothing follows.
do_write ==
    /\ sdsWriting
    /\ \/ /\ tx_queue_' = Tail(tx_queue_) /\ sdsWriting' = (Tail(tx_queue_) # <<>>)
          /\ sdsSent' = Append(sdsSent, Head(tx_queue_)) /\ UNCHANGED sdsState
       \/ sdsWriting' = FALSE /\ sdsState' = "stuck" /\ UNCHANGED <<tx_queue_, sdsSent>>
    /\ UNCHANGED <<sdsPosted, sdsParserVars, sdsSleep>>

SdsInit ==
    /\ sdsParser = NoFrame /\ sdsOut = <<>> /\ sdsLine = <<>> /\ sdsRead = <<>> /\ sdsCount = 0
    /\ sdsReading = FALSE /\ sdsSleep \in SleepTimes /\ sdsState = "new"
    /\ sdsPosted = <<>> /\ tx_queue_ = <<>> /\ sdsWriting = FALSE /\ sdsSent = <<>>
SdsNext == startAsyncRead \/ ReadError \/ SdsArrive \/ SdsConstruct \/ enqueueMessage \/ do_write

SdsSpec == SdsInit /\ [][SdsNext]_sdsVars

-----------------------------------------------------------------------------
(* The property.                                                            *)

\* How many of the bytes from a place on belong together: a frame, one whose checksum is wrong up
\* to the checksum, or a byte that begins none.
FrameCheck(s, i) == (s[i + 2] + s[i + 3] + s[i + 4] + s[i + 5] + s[i + 6] + s[i + 7]) % 256
FrameWidth(s, i) ==
    IF s[i] # HEAD \/ s[i + 1] \notin {DATA, ACK} THEN 1
    ELSE IF s[i + 8] # FrameCheck(s, i) THEN 9
    ELSE 10

\* The messages in a run of bytes from each place on, read off the whole of it.
FramesFrom(s) ==
    LET From[i \in 1..(Len(s) + 1)] ==
            IF i + 8 > Len(s) \/ i + FrameWidth(s, i) - 1 > Len(s) THEN <<>>
            ELSE (IF FrameWidth(s, i) = 10 /\ s[i + 9] = TAIL
                  THEN <<Message(s[i + 1], SubSeq(s, i + 2, i + 7))>> ELSE <<>>) \o From[i + FrameWidth(s, i)]
    IN From
FramesIn(s) == FramesFrom(s)[1]

\* What n_sleep stands for in the configuration (config_parser.cpp:103, 643) is the interval between
\* readouts, 0 for continuous work.  An interval is not among the commands: the case of setMode() that
\* should set it runs into the one that sends nothing, also for the default of 1.
Promised(n) == <<IF n = 0 THEN "period 0" ELSE "period n", "work">>
CommandsFor(n) == IF n = 0 THEN Promised(n) ELSE <<>>

\* Whatever the line carries, exactly the messages in it are published, in order.  A sensor
\* configured for continuous work gets its commands in order and none twice, and all of them once
\* nothing is left to write, unless a write failed; with an interval it gets none and stays as it is.
SensorIsServed ==
    /\ sdsOut = FramesIn(sdsRead)
    /\ sdsState = "open" => sdsSent \o tx_queue_ \o sdsPosted = CommandsFor(sdsSleep)
    /\ sdsState = "open" /\ tx_queue_ # <<>> => sdsWriting
=============================================================================
