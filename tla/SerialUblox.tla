---------------------------- MODULE SerialUblox ----------------------------
(***************************************************************************)
(* The driver of the GNSS receiver,                                        *)
(* daemon/src/hardware/ublox/serialublox.cpp, and the maintenance tasks    *)
(* that poll it, daemon/src/core/maintenance.h.                            *)
(*                                                                         *)
(* The receiver is brought up in three rounds: the port is configured and  *)
(* acknowledged, the rate is configured and acknowledged, then everything  *)
(* else is sent.  Each round is started by a UbxConfigDefaultCmd on the    *)
(* event bus.  The handlers run one at a time on the io thread; the events *)
(* that reach them went through the pool, whose workers may change their   *)
(* order, so the events on their way are a bag.                            *)
(*                                                                         *)
(* Messages are abstracted to PRT (CFG_PRT), RATE (CFG_RATE), CFG (any     *)
(* other message the receiver acknowledges) and VER (MON_VER, which it     *)
(* answers with its version and no acknowledgement).                       *)
(***************************************************************************)
EXTENDS Naturals, Sequences, FiniteSets

CONSTANTS
    SlowReceiver,   \* the maintenance may begin before the receiver is set up
    MaxFaults,      \* bound: freed events that do not read as they were, messages lost, failed reads
    MaxCommands     \* bound: polls and commands from the rest of the daemon

ASSUME SerialUbloxAssumption ==
    /\ SlowReceiver \in BOOLEAN /\ MaxFaults \in Nat /\ MaxCommands \in Nat

VARIABLES
    init_state,         \* init_state_
    pending,            \* pending_: how many of each message await an answer
    tx,                 \* tx_queue_ and the line to the receiver
    reading,            \* a read is outstanding
    version,            \* protocolVersion_: none, good or bad (cannot be parsed)
    queuedCmds,         \* the number of commands in queuedCmds_
    bus,                \* the events on their way to the handlers
    armed,              \* timer_ is waiting
    fired,              \* expired or cancelled waits whose handler has not run
    crashed,            \* an exception left the io thread
    accepted,           \* history: the messages the receiver has acknowledged
    configured,         \* history: how often the full configuration was sent
    unrequested,        \* history: an acknowledgement that was asked for was
                        \* taken for one that was not
    faults,             \* history: misread events, lost messages and failed reads so far
    commands            \* history: polls and commands so far

vars == <<init_state, pending, tx, reading, version, queuedCmds, bus, armed, fired,
          crashed, accepted, configured, unrequested, faults, commands>>

States == {"Connecting", "ReceivedProtoAck", "ReceivedRateAck", "Ready"}
Acked == {"PRT", "RATE", "CFG"}
Messages == Acked \cup {"VER"}

\* ackX: DatastoreStoreEvent<UbxAckAck> about X; nak: the same for UbxAckNak;
\* config: UbxConfigDefaultCmd; poll, pollVer: UbxMsgPollCmd and
\* UbxMsgPollRateCmd; set: a command that sends a setting and polls it;
\* dependent: UbxVersionDependentCmd; gnss: UbxGnssConfigCmd; good, bad: GpsVersion.
Ack(m) == CASE m = "PRT" -> "ackPRT" [] m = "RATE" -> "ackRATE" [] m = "CFG" -> "ackCFG"
Acks == {"ackPRT", "ackRATE", "ackCFG"}
Commands == {"poll", "pollVer", "set", "dependent", "gnss"}
Events == Acks \cup Commands \cup {"nak", "config", "good", "bad"}

Without(e) == [bus EXCEPT ![e] = @ - 1]
With(b, e) == [b EXCEPT ![e] = @ + 1]

-----------------------------------------------------------------------------
(* Sending. *)

\* enqueueMessage(): whether a message may be sent in the present state.
IsAllowed(m) ==
    \/ init_state = "Ready"
    \/ init_state = "Connecting" /\ m = "PRT"
    \/ init_state = "ReceivedProtoAck" /\ m = "RATE"

\* send() for a sequence of messages: tracked ones are entered in pending_.
Count(ms, m) == Cardinality({n \in 1..Len(ms) : ms[n] = m})
Send(ms) ==
    /\ tx' = tx \o ms
    /\ pending' = [m \in Acked |-> pending[m] + Count(ms, m)]
    /\ UNCHANGED <<armed, fired>>

\* retryLater(), n times: setting the timer again cancels the wait before,
\* whose handler then runs like that of an expired one.
RetryLater(n) ==
    /\ fired' = IF armed THEN fired + n ELSE fired + n - 1
    /\ armed' = TRUE

Enqueue(m) ==
    IF IsAllowed(m) THEN Send(<<m>>) ELSE RetryLater(1) /\ UNCHANGED <<tx, pending>>

-----------------------------------------------------------------------------
(* The handlers of commands. *)

Handle(e) == ~crashed /\ bus[e] > 0

HandlePoll(e) ==
    /\ e \in {"poll", "pollVer"} /\ Handle(e)
    /\ bus' = Without(e)
    /\ Enqueue(IF e = "poll" THEN "CFG" ELSE "VER")
    /\ UNCHANGED <<init_state, reading, version, queuedCmds, crashed, accepted,
                   configured, unrequested, faults, commands>>

\* UbxSetAopCmd, UbxMinMaxSvCmd, UbxMinCnoCmd, UbxDynamicModelCmd, UbxTp5Cmd:
\* the setting is sent, or refused, and polled in either case.
HandleSet ==
    /\ Handle("set")
    /\ bus' = With(Without("set"), "poll")
    /\ Enqueue("CFG")
    /\ UNCHANGED <<init_state, reading, version, queuedCmds, crashed, accepted,
                   configured, unrequested, faults, commands>>

\* processQueuedCmds() with n commands waiting and version v: the version is
\* asked for, or the commands are left where they are because it cannot be
\* parsed, or all of them are taken, and the k that apply to the version are
\* carried out and polled.
RunCommands(n, v, b) ==
    CASE v = "none" -> /\ bus' = With(b, "pollVer") /\ queuedCmds' = n
                       /\ UNCHANGED <<tx, pending, armed, fired>>
      [] v = "bad"  -> /\ bus' = b /\ queuedCmds' = n
                       /\ UNCHANGED <<tx, pending, armed, fired>>
      [] v = "good" -> \E k \in 0..n :
                          /\ bus' = [b EXCEPT !["poll"] = @ + k] /\ queuedCmds' = 0
                          /\ IF k = 0 \/ IsAllowed("CFG")
                               THEN Send([i \in 1..k |-> "CFG"])
                               ELSE RetryLater(k) /\ UNCHANGED <<tx, pending>>

HandleDependent ==
    /\ Handle("dependent")
    /\ RunCommands(queuedCmds + 1, version, Without("dependent"))
    /\ UNCHANGED <<init_state, reading, version, crashed, accepted, configured,
                   unrequested, faults, commands>>

\* UbxGnssConfigCmd: queued without a version; with one that does not parse
\* version.value() throws.
HandleGnss ==
    /\ Handle("gnss")
    /\ CASE version = "none" -> RunCommands(queuedCmds + 1, version, Without("gnss"))
                                /\ UNCHANGED crashed
         [] version = "bad"  -> /\ crashed' = TRUE
                                /\ UNCHANGED <<bus, queuedCmds, tx, pending, armed, fired>>
         [] version = "good" -> /\ bus' = With(Without("gnss"), "poll")
                                /\ Enqueue("CFG")
                                /\ UNCHANGED <<queuedCmds, crashed>>
    /\ UNCHANGED <<init_state, reading, version, accepted, configured, unrequested,
                   faults, commands>>

\* GpsVersion: the first one counts.
KeepWaiting(v) ==
    bus' = Without(v) /\ UNCHANGED <<queuedCmds, tx, pending, armed, fired>>
CommandsOnVersion(v) == RunCommands(queuedCmds, v, Without(v))
HandleVersion(v) ==
    /\ v \in {"good", "bad"} /\ Handle(v)
    /\ IF version = "none"
         THEN version' = v /\ CommandsOnVersion(v)
         ELSE KeepWaiting(v) /\ UNCHANGED version
    /\ UNCHANGED <<init_state, reading, crashed, accepted, configured, unrequested,
                   faults, commands>>

\* UbxConfigDefaultCmd: what it does depends on how far the receiver is.
HandleConfigRound ==
    /\ Handle("config") /\ init_state \in {"Connecting", "ReceivedProtoAck"}
    /\ bus' = Without("config")
    /\ Enqueue(IF init_state = "Connecting" THEN "PRT" ELSE "RATE")
    /\ UNCHANGED <<init_state, reading, version, queuedCmds, crashed, accepted,
                   configured, unrequested, faults, commands>>

\* The full configuration: settings and polls (here one setting, its poll and
\* the poll of the version) and the version dependent commands.
HandleConfigAll ==
    /\ Handle("config") /\ init_state = "ReceivedRateAck"
    /\ init_state' = "Ready"
    /\ configured' = configured + 1
    /\ \E k \in IF version = "good" THEN {0, 1} ELSE {0} :
          /\ tx' = tx \o <<"CFG", "VER">> \o [i \in 1..k |-> "CFG"]
          /\ pending' = [pending EXCEPT !["CFG"] = @ + 1 + k]
          /\ bus' = LET b == With(Without("config"), "poll")
                    IN IF version = "none" THEN With(b, "pollVer")
                                           ELSE [b EXCEPT !["poll"] = @ + k]
    /\ queuedCmds' = IF version = "good" THEN 0 ELSE queuedCmds + 1
    /\ UNCHANGED <<reading, version, armed, fired, crashed, accepted, unrequested,
                   faults, commands>>

HandleConfigReady ==
    /\ Handle("config") /\ init_state = "Ready"
    /\ bus' = Without("config")
    /\ UNCHANGED <<init_state, pending, tx, reading, version, queuedCmds, armed, fired,
                   crashed, accepted, configured, unrequested, faults, commands>>

-----------------------------------------------------------------------------
(* Acknowledgements. *)

(***************************************************************************)
(* The subscription posts a lambda that holds a reference to the event;    *)
(* when it runs the job that owned the event has ended and its memory may  *)
(* have been used again: for another acknowledgement, or for anything.     *)
(***************************************************************************)
ReadsAs(m) == IF faults = MaxFaults THEN {m} ELSE {m} \cup accepted \cup {"garbage"}

\* Whether pending_ has an entry for the message that was read.
IsPending(r) == r \in Acked /\ pending[r] > 0

\* The acknowledgements that lead to a UbxConfigDefaultCmd.
PublishesForPort(r) == r = "PRT"
StartsRound(r) == r \in {"PRT", "RATE"}

\* handle(UbxAckAck) for the message that was read: the state it leads to.
AnyAckAdvances(m) == "ReceivedRateAck"
StateAfterAck(m) ==
    CASE init_state = "Ready" -> "Ready"
      [] init_state # "Ready" /\ m = "PRT" -> "ReceivedProtoAck"
      [] init_state # "Ready" /\ m = "RATE" -> "ReceivedRateAck"
      [] OTHER -> init_state

HandleAck(m) ==
    /\ Handle(Ack(m))
    /\ \E r \in ReadsAs(m) :
          /\ IF IsPending(r)
               THEN pending' = [pending EXCEPT ![r] = @ - 1] /\ UNCHANGED unrequested
               ELSE unrequested' = (unrequested \/ pending[m] > 0) /\ UNCHANGED pending
          /\ faults' = IF r = m THEN faults ELSE faults + 1
          /\ init_state' = StateAfterAck(r)
          /\ bus' = IF init_state # "Ready" /\ StartsRound(r)
                      THEN With(Without(Ack(m)), "config")
                      ELSE Without(Ack(m))
    /\ UNCHANGED <<tx, reading, version, queuedCmds, armed, fired, crashed, accepted,
                   configured, commands>>

\* handle(UbxAckNak): read the same way; the state does not change.
HandleNak ==
    /\ Handle("nak")
    /\ bus' = Without("nak")
    /\ \E r \in ReadsAs("CFG") :
          /\ pending' = IF IsPending(r)
                          THEN [pending EXCEPT ![r] = @ - 1] ELSE pending
          /\ faults' = IF r = "CFG" THEN faults ELSE faults + 1
    /\ UNCHANGED <<init_state, tx, reading, version, queuedCmds, armed, fired, crashed,
                   accepted, configured, unrequested, commands>>

-----------------------------------------------------------------------------
(* The line and the timer. *)

\* The receiver takes the next message and answers; the read handler parses
\* the answer and publishes it.
ReceiverAnswers ==
    /\ ~crashed /\ reading /\ tx # <<>>
    /\ tx' = Tail(tx)
    /\ LET m == Head(tx)
       IN IF m = "VER"
            THEN /\ \E v \in {"good", "bad"} : bus' = With(bus, v)
                 /\ UNCHANGED accepted
            ELSE /\ accepted' = accepted \cup {m}
                 /\ bus' = With(bus, Ack(m))
    /\ UNCHANGED <<init_state, pending, reading, version, queuedCmds, armed, fired, crashed,
                   configured, unrequested, faults, commands>>

ReceiverRefuses ==
    /\ ~crashed /\ reading /\ tx # <<>> /\ Head(tx) = "CFG"
    /\ tx' = Tail(tx)
    /\ bus' = With(bus, "nak")
    /\ UNCHANGED <<init_state, pending, reading, version, queuedCmds, armed, fired, crashed,
                   accepted, configured, unrequested, faults, commands>>

\* A message or its answer is lost on the line.
LineLoses ==
    /\ faults < MaxFaults /\ faults' = faults + 1
    /\ ~crashed /\ tx # <<>>
    /\ tx' = Tail(tx)
    /\ UNCHANGED <<init_state, pending, reading, version, queuedCmds, bus, armed, fired,
                   crashed, accepted, configured, unrequested, commands>>

\* The read handler with an error.
ReadFails ==
    /\ faults < MaxFaults /\ faults' = faults + 1
    /\ ~crashed /\ reading
    /\ reading' = FALSE
    /\ RetryLater(1)
    /\ UNCHANGED <<init_state, pending, tx, version, queuedCmds, bus, crashed, accepted,
                   configured, unrequested, commands>>

TimerExpires ==
    /\ ~crashed /\ armed
    /\ armed' = FALSE
    /\ fired' = fired + 1
    /\ UNCHANGED <<init_state, pending, tx, reading, version, queuedCmds, bus, crashed,
                   accepted, configured, unrequested, faults, commands>>

\* The handler of the timer calls makeConnection(), whatever the error code.
\* The port was opened by the constructor and is closed nowhere: open() fails
\* and the exception ends the process.
TimerHandler ==
    /\ ~crashed /\ fired > 0
    /\ fired' = fired - 1
    /\ crashed' = TRUE
    /\ UNCHANGED <<init_state, pending, tx, reading, version, queuedCmds, bus, armed,
                   accepted, configured, unrequested, faults, commands>>

\* The rest of the daemon: maintenance polls once initialization_time is over,
\* commands of clients that connected.
Command(e) ==
    /\ ~crashed /\ commands < MaxCommands
    /\ e \in Commands
    /\ SlowReceiver \/ init_state = "Ready"
    /\ bus' = With(bus, e)
    /\ commands' = commands + 1
    /\ UNCHANGED <<init_state, pending, tx, reading, version, queuedCmds, armed, fired,
                   crashed, accepted, configured, unrequested, faults>>

-----------------------------------------------------------------------------
\* The constructor has opened the port, started to read and sent the port's
\* configuration; SystemBuilder::build() has published a UbxConfigDefaultCmd.
Init ==
    /\ init_state = "Connecting"
    /\ pending = [m \in Acked |-> IF m = "PRT" THEN 1 ELSE 0]
    /\ tx = <<"PRT">>
    /\ reading = TRUE
    /\ version = "none" /\ queuedCmds = 0
    /\ bus = [e \in Events |-> IF e = "config" THEN 1 ELSE 0]
    /\ armed = FALSE /\ fired = 0
    /\ crashed = FALSE
    /\ accepted = {} /\ configured = 0
    /\ unrequested = FALSE /\ faults = 0 /\ commands = 0

Handlers ==
    \/ \E e \in Commands : HandlePoll(e)
    \/ HandleSet \/ HandleDependent \/ HandleGnss
    \/ \E v \in {"good", "bad"} : HandleVersion(v)
    \/ HandleConfigRound \/ HandleConfigAll \/ HandleConfigReady
    \/ (\E m \in Acked : HandleAck(m)) \/ HandleNak

Next ==
    \/ Handlers \/ ReceiverAnswers \/ ReceiverRefuses
    \/ LineLoses \/ ReadFails \/ TimerExpires \/ TimerHandler
    \/ \E e \in Commands : Command(e)

Spec == Init /\ [][Next]_vars

\* The io thread runs its handlers in turn; the receiver answers what reaches it.
Fairness ==
    /\ \A m \in Acked : WF_vars(HandleAck(m))
    /\ \A e \in Commands : WF_vars(HandlePoll(e))
    /\ \A v \in {"good", "bad"} : WF_vars(HandleVersion(v))
    /\ WF_vars(HandleSet) /\ WF_vars(HandleDependent) /\ WF_vars(HandleGnss) /\ WF_vars(HandleNak)
    /\ WF_vars(HandleConfigRound \/ HandleConfigAll \/ HandleConfigReady)
    /\ WF_vars(ReceiverAnswers)

FairSpec == Spec /\ Fairness

-----------------------------------------------------------------------------
(* The driver is ready only when the receiver has acknowledged port and     *)
(* rate, however events and acknowledgements overtake each other, and the   *)
(* rate is sent only to a receiver whose port was acknowledged.  The full   *)
(* configuration is sent once, although every acknowledgement of port or    *)
(* rate starts another round, and the driver stays ready.                   *)
ReadyMeansSetUp ==
    /\ init_state = "Ready" => {"PRT", "RATE"} \subseteq accepted
    /\ Count(tx, "RATE") > 0 => "PRT" \in accepted
    /\ configured <= 1
    /\ configured = 1 <=> init_state = "Ready"

(* With a receiver that answers everything, and no event misread, the       *)
(* driver becomes ready, unless a poll that comes too early ends it (see    *)
(* MaintenanceCanBeDone).                                                   *)
BecomesReady == <>(init_state = "Ready" \/ crashed \/ faults > 0)

(* "Got acknowledge message from ublox without requesting anything"         *)
(* (serialublox.cpp:185): that branch is for acknowledgements nobody waits  *)
(* for.                                                                     *)
UnexpectedIsUnrequested == ~unrequested

(* "waiting time before first maintenance can be done" (maintenance.h:39):  *)
(* once it is over the maintenance tasks can be run; they do not end the    *)
(* daemon.                                                                  *)
MaintenanceCanBeDone == ~crashed

=============================================================================
