------------------------------ MODULE Protocol ------------------------------
(***************************************************************************)
(* A packet between the daemon and its graphical client, as Messages says  *)
(* that each end writes and reads it.  A value is abstracted to the bits   *)
(* it needs: it survives a field that is wide enough, and a member without *)
(* a field arrives as its default.                                         *)
(***************************************************************************)
EXTENDS Messages

CONSTANT MaxPackets      \* bound: packets sent

ASSUME ProtocolAssumption == MaxPackets \in Nat

VARIABLES
    upLink,         \* packets on the way to the daemon
    downLink,       \* packets on the way to the client
    heard,          \* what the last packet was, and what became of it
    prCount         \* the packets sent

protocolVars == <<upLink, downLink, heard, prCount>>

-----------------------------------------------------------------------------
(* A packet.                                                                *)

\* The values of a type: one member needs all its bits, the others one.
Values(c) == {[m \in DOMAIN c.members |-> IF m = big THEN c.members[m][1] ELSE 1] :
                 big \in DOMAIN c.members} \cup {[m \in DOMAIN c.members |-> 1]}

Default == 0
Cut == -1

\* encode(): a member without a field is left out, a value too long for its field is cut.
encode(c, v) == [m \in {n \in DOMAIN v : c.members[n][2] > 0} |->
                    IF v[m] <= c.members[m][2] THEN v[m] ELSE Cut]

\* decode(): a member without a field is what the constructor makes it.
decode(c, p) == [m \in DOMAIN c.members |-> IF m \in DOMAIN p THEN p[m] ELSE Default]

Packet(key, c, v) == [key |-> key, payload |-> encode(c, v), type |-> c.type, value |-> v]

\* What a receiver with a map of decoders makes of a packet.
Received(decoders, p) ==
    [type |-> p.type, value |-> p.value,
     as |-> IF p.key \in DOMAIN decoders THEN decoders[p.key].type ELSE "unknown",
     got |-> IF p.key \in DOMAIN decoders THEN decode(decoders[p.key], p.payload) ELSE <<>>]

Nothing == [type |-> "none", value |-> <<>>, as |-> "none", got |-> <<>>]

ProtocolInit == upLink = <<>> /\ downLink = <<>> /\ heard = Nothing /\ prCount = 0

\* TcpSink::handle() for an event published on the daemon's bus.
SendEvent ==
    /\ prCount < MaxPackets /\ prCount' = prCount + 1
    /\ \E c \in setupTcpSink : \E v \in Values(c) : downLink' = Append(downLink, Packet(c.key, c, v))
    /\ UNCHANGED <<upLink, heard>>

\* One of the client's controls.
SendCommand ==
    /\ prCount < MaxPackets /\ prCount' = prCount + 1
    /\ \E k \in sendCmdIfConnected \cup sendPacketIfConnected : \E v \in Values(k[2]) :
          upLink' = Append(upLink, Packet(k[1], k[2], v))
    /\ UNCHANGED <<downLink, heard>>

\* MainWindow::decode().  A threshold above the limit is answered with the limit.
MainWindowDecode ==
    /\ downLink # <<>> /\ downLink' = Tail(downLink)
    /\ heard' = Received(buildDecoderMap, Head(downLink))
    /\ \/ UNCHANGED upLink
       \/ /\ Head(downLink).key = "THRESHOLD"
          /\ upLink' = Append(upLink, Packet("THRESHOLD", ThresholdSettingCmd,
                                 [m \in DOMAIN ThresholdSettingCmd.members |-> 1]))
    /\ UNCHANGED prCount

\* TcpCommandDecoder::handle().  A key without a case is ignored.
DecodeCommand ==
    /\ upLink # <<>> /\ upLink' = Tail(upLink)
    /\ heard' = Received(TcpCommandDecoder, Head(upLink))
    /\ UNCHANGED <<downLink, prCount>>

ProtocolNext == SendEvent \/ SendCommand \/ MainWindowDecode \/ DecodeCommand

ProtocolSpec == ProtocolInit /\ [][ProtocolNext]_protocolVars

-----------------------------------------------------------------------------
(* The property.                                                            *)

\* Members that do not cross: no field, or a field narrower than the member.
Unsent ==
    {<<"ADS1115Event", "convTime">>, <<"TemperatureEvent", "source">>, <<"LogInfoStruct", "logEnabled">>,
     <<"Histogram", "overflow">>, <<"Histogram", "underflow">>, <<"PreampSwitchCmd", "state">>}
Narrowed ==
    {<<"NavStatus", "iTOW">>, <<"NavStatus", "ttff">>, <<"NavStatus", "msss">>, <<"GpioEvent", "gpio_pin">>,
     <<"StartBurstSampling", "frequencyHz">>, <<"StartBurstSampling", "samples">>}

\* Commands of the client that the daemon's decoder has no case for.
Unheard == {"CalibEvent", "PcaSwitchRequestCmd"}

\* The client sends the event's type where the daemon expects the command's.
Twins == {<<"PolaritySwitchEvent", "PolaritySwitchCmd">>}

\* What one end sends the other takes for the same thing: each of the codecs, the sink's
\* subscriptions, the client's decoder map and the daemon's command decoder agree on the key and
\* the type, and every member arrives with its value.  The exceptions are named above: the members
\* the schema has no field for or too small a field, and the two commands nobody listens to.
SameAtBothEnds ==
    heard # Nothing =>
        \/ heard.as = "unknown" /\ heard.type \in Unheard
        \/ /\ heard.as = heard.type \/ <<heard.type, heard.as>> \in Twins
           /\ \A m \in DOMAIN heard.value :
                 \/ heard.got[m] = heard.value[m]
                 \/ <<heard.type, m>> \in Unsent /\ heard.got[m] = Default
                 \/ <<heard.type, m>> \in Narrowed
=============================================================================
