----------------------------- MODULE UbxParser -----------------------------
(***************************************************************************)
(* The framing of UBX messages: UbxMessage::raw_message_string() of        *)
(* library/src/data/ublox/ublox_structs.cpp builds a frame, and            *)
(* UbxParser::feed() of daemon/src/hardware/ublox/ubx_parser.cpp finds the *)
(* frames in the bytes of the serial line, one byte after the other and    *)
(* over any number of calls.  The line may lose bytes, so a frame can      *)
(* begin anywhere.                                                         *)
(***************************************************************************)
EXTENDS Integers, Sequences

CONSTANTS
    MAX_LEN,        \* UbxParser::MAX_LEN
    Chunks,         \* the pieces the serial line is made of, each a sequence of bytes
    MaxChunks       \* bound: pieces on the line

UbxBytes == 0..255

ASSUME UbxParserAssumption == MAX_LEN \in Nat /\ Chunks \subseteq Seq(UbxBytes) /\ MaxChunks \in Nat

VARIABLES
    ubx,        \* the fields of the parser
    ubxOut,     \* the messages given to on_msg
    ubxWire,    \* the bytes that have not been fed
    ubxFed,     \* history: the bytes that have been fed
    ubxChunks   \* the number of pieces so far

ubxVars == <<ubx, ubxOut, ubxWire, ubxFed, ubxChunks>>

Byte(n) == n % 256
SYNC_1 == 181   \* 0xB5
SYNC_2 == 98    \* 0x62

\* check_sum(): chkB += chkA += ch for one byte after the other.
Added(ck, ch) == LET chkA == Byte(ck[1] + ch) IN <<chkA, Byte(ck[2] + chkA)>>
SumsOf(s) ==
    LET Sum[k \in 0..Len(s)] == IF k = 0 THEN <<0, 0>> ELSE Added(Sum[k - 1], s[k])
    IN Sum
CheckSum(s) == SumsOf(s)[Len(s)]

\* raw_message_string(), with check_sum() over everything but the first two bytes.
RawMessage(m) ==
    LET body == <<m.cls, m.id, Len(m.payload) % 256, Len(m.payload) \div 256>> \o m.payload
    IN <<SYNC_1, SYNC_2>> \o body \o CheckSum(body)

Reset == [state |-> "SYNC1", cls |-> 0, id |-> 0, len |-> 0,
          payload |-> <<>>, ckA |-> 0, ckB |-> 0, recvA |-> 0]

\* ck_update().
Updated(p, b) == LET a == Byte(p.ckA + b) IN [p EXCEPT !.ckA = a, !.ckB = Byte(@ + a)]

\* What the second synchronisation byte leads to.
ForgetSync(b) == IF b = SYNC_2 THEN "CLASS" ELSE "SYNC1"
AfterSync(b) == CASE b = SYNC_2 -> "CLASS" [] b = SYNC_1 -> "SYNC2" [] OTHER -> "SYNC1"

\* The second byte of the length: too long a message is given up at once.
AfterLength(p, b) ==
    LET n == p.len + 256 * b
    IN IF n > MAX_LEN THEN Reset
       ELSE [Updated(p, b) EXCEPT !.len = n, !.payload = <<>>,
                                  !.state = IF n = 0 THEN "CK_A" ELSE "PAYLOAD"]

\* One turn of the loop in feed(): the switch over state_.
Fed(p, b) ==
    CASE p.state = "SYNC1" -> IF b = SYNC_1 THEN [p EXCEPT !.state = "SYNC2"] ELSE p
      [] p.state = "SYNC2" -> [p EXCEPT !.state = AfterSync(b)]
      [] p.state = "CLASS" -> [Updated([p EXCEPT !.ckA = 0, !.ckB = 0], b)
                                 EXCEPT !.cls = b, !.state = "ID"]
      [] p.state = "ID" -> [Updated(p, b) EXCEPT !.id = b, !.state = "LEN1"]
      [] p.state = "LEN1" -> [Updated(p, b) EXCEPT !.len = b, !.state = "LEN2"]
      [] p.state = "LEN2" -> AfterLength(p, b)
      [] p.state = "PAYLOAD" -> [Updated(p, b) EXCEPT !.payload = Append(@, b),
                                   !.state = IF Len(p.payload) + 1 = p.len THEN "CK_A" ELSE @]
      [] p.state = "CK_A" -> [p EXCEPT !.recvA = b, !.state = "CK_B"]
      [] p.state = "CK_B" -> Reset

\* The message a byte completes, if it does: both halves of the checksum agree.
Completed(p, b) ==
    IF p.state = "CK_B" /\ p.recvA = p.ckA /\ b = p.ckB
      THEN <<[cls |-> p.cls, id |-> p.id, payload |-> p.payload]>> ELSE <<>>

UbxFeed ==
    /\ ubxWire # <<>>
    /\ ubx' = Fed(ubx, Head(ubxWire))
    /\ ubxOut' = ubxOut \o Completed(ubx, Head(ubxWire))
    /\ ubxFed' = Append(ubxFed, Head(ubxWire))
    /\ ubxWire' = Tail(ubxWire)
    /\ UNCHANGED ubxChunks

\* The line brings another piece.
UbxArrive(c) ==
    /\ ubxWire = <<>> /\ ubxChunks < MaxChunks
    /\ ubxWire' = c /\ ubxChunks' = ubxChunks + 1
    /\ UNCHANGED <<ubx, ubxOut, ubxFed>>

UbxInit == ubx = Reset /\ ubxOut = <<>> /\ ubxWire = <<>> /\ ubxFed = <<>> /\ ubxChunks = 0
UbxNext == UbxFeed \/ \E c \in Chunks : UbxArrive(c)

UbxSpec == UbxInit /\ [][UbxNext]_ubxVars

-----------------------------------------------------------------------------
(* The messages in a run of bytes, read off the whole of it: from each      *)
(* place where a frame starts, skip its header if it announces too much,    *)
(* else skip the frame and take it if its checksum is right.                *)
Announced(s, i) == s[i + 4] + 256 * s[i + 5]
UbxWidth(s, i) ==
    IF s[i] # SYNC_1 \/ s[i + 1] # SYNC_2 THEN 1
    ELSE IF Announced(s, i) > MAX_LEN THEN 6
    ELSE 8 + Announced(s, i)

MessageAt(s, i) ==
    LET n == Announced(s, i)
    IN IF UbxWidth(s, i) = 8 + n /\ CheckSum(SubSeq(s, i + 2, i + 5 + n)) = <<s[i + 6 + n], s[i + 7 + n]>>
         THEN <<[cls |-> s[i + 2], id |-> s[i + 3], payload |-> SubSeq(s, i + 6, i + 5 + n)]>> ELSE <<>>

MessagesFrom(s) ==
    LET From[i \in 1..(Len(s) + 1)] ==
            IF i + 5 > Len(s) \/ i + UbxWidth(s, i) - 1 > Len(s) THEN <<>>
            ELSE MessageAt(s, i) \o From[i + UbxWidth(s, i)]
    IN From
MessagesIn(s) == MessagesFrom(s)[1]

(* Whatever the line carries (noise, stray start bytes, truncated, damaged  *)
(* and oversized frames), the parser has delivered exactly the messages of  *)
(* the bytes it was fed, as soon as they were complete.                     *)
ParsesFrames == ubxOut = MessagesIn(ubxFed)

=============================================================================
