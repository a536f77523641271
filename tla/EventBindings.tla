--------------------------- MODULE EventBindings ---------------------------
(***************************************************************************)
(* The data store and the handlers that keep it,                           *)
(* daemon/src/core/event_bindings.cpp, with the two parts of the daemon    *)
(* that feed it: the GPIO driver's switches                                *)
(* (daemon/src/drivers/gpio_driver.cpp) and the maintenance task that      *)
(* polls the receiver's message rates (daemon/src/core/maintenance.cpp).   *)
(*                                                                         *)
(* Events are jobs of the pool, which promises what JobQueue says: they    *)
(* are taken in the order of their publication, each by one worker.  What  *)
(* a worker does between taking a job and publishing its results overlaps  *)
(* with the other workers.  DataStore::get() hands out a pointer that is   *)
(* read without the mutex: a read that overlaps a store yields the value   *)
(* before or after it, so it is one step of its own; that it may end the   *)
(* process instead is an outcome no property here could see.               *)
(*                                                                         *)
(* An array or a map that several events contribute to is read, changed    *)
(* and stored as a whole: the preamplifier states and the message rates.   *)
(* The types that subscribe_one() stores are written in one step and have  *)
(* no such hazard; they are left out.                                      *)
(***************************************************************************)
EXTENDS Naturals, Sequences, FiniteSets, SequencesExt

CONSTANTS
    Workers,        \* the threads of the pool
    Ids,            \* the messages of defaultRates
    Rates,          \* the rates the receiver may report
    None,           \* no value
    Enabled,        \* config.preamp_enable: the channels switched on at the start
    MaxCommands,    \* bound: switch commands after the start-up ones
    MaxPolls,       \* bound: polls of one message that are under way
    MaxLost,        \* bound: answers of the receiver that are lost
    MaxQueue        \* bound: events waiting when one comes from outside the pool

Channels == {"preamp0", "preamp1"}

ASSUME EventBindingsAssumption ==
    /\ Enabled \subseteq Channels
    /\ IsFiniteSet(Ids) /\ Ids \cap Channels = {} /\ None \notin Ids \cup Rates
    /\ None \notin [Channels -> [channel : Channels, state : BOOLEAN]]     \* a value of its own
    /\ \A known \in SUBSET Ids : None \notin [known -> Rates]
    /\ Workers # {} /\ IsFiniteSet(Workers)
    /\ MaxCommands \in Nat /\ MaxPolls \in Nat /\ MaxLost \in Nat /\ MaxQueue \in Nat

VARIABLES
    queue,      \* the events published and not yet taken by a worker
    work,       \* what each worker is doing
    pins,       \* the GPIO lines PREAMP_1 and PREAMP_2
    preamps,    \* stored: std::array<PreampSwitchEvent, 2>
    rates,      \* stored: std::unordered_map<std::uint16_t, CfgMsg>
    polled,     \* the polls of each message the receiver has not answered
    task,       \* the maintenance task: waiting to run again, or ended
    client,     \* what the GUI was told, and how far its connection is
    switched,   \* history: the channels whose state was stored
    commands,   \* history: switch commands after the start-up ones
    lost        \* history: answers that were lost

vars == <<queue, work, pins, preamps, rates, polled, task, client, switched, commands, lost>>

\* An event: its type, what it is about and its value.
Event(type, key, value) == [type |-> type, key |-> key, value |-> value]
Request(type) == Event(type, None, None)

Idle == [pc |-> "idle", job |-> Request(None), copy |-> None, out |-> <<>>]

-----------------------------------------------------------------------------
(* Publishing.  A handler publishes its results one after the other. *)

Publish(events) == queue' = queue \o events

Take(w) ==
    /\ work[w].pc = "idle" /\ queue # <<>>
    /\ work' = [work EXCEPT ![w] = [Idle EXCEPT !.pc = "taken", !.job = Head(queue)]]
    /\ queue' = Tail(queue)
    /\ UNCHANGED <<pins, preamps, rates, polled, task, client, switched, commands, lost>>

\* A worker is in the handler of an event of type t.
In(w, pc, t) == work[w].pc = pc /\ work[w].job.type = t

\* The handler has nothing left to do but to publish the events.
Finish(w, events) ==
    work' = [work EXCEPT ![w] = IF events = <<>> THEN Idle
                                ELSE [Idle EXCEPT !.pc = "publishing", !.out = events]]

PublishNext(w) ==
    /\ work[w].pc = "publishing"
    /\ Publish(<<Head(work[w].out)>>)
    /\ Finish(w, Tail(work[w].out))
    /\ UNCHANGED <<pins, preamps, rates, polled, task, client, switched, commands, lost>>

-----------------------------------------------------------------------------
(* The GPIO driver. *)

\* PreampSwitchCmd: the line to set.
SwitchCommand(w) ==
    /\ In(w, "taken", "PreampSwitchCmd")
    /\ Finish(w, <<Event("GpioSignalSetCmd", work[w].job.key, work[w].job.value)>>)
    /\ UNCHANGED <<queue, pins, preamps, rates, polled, task, client, switched,
                   commands, lost>>

\* GpioSignalSetCmd: the line is set and the new state is to be stored.
SignalSet(w) ==
    /\ In(w, "taken", "GpioSignalSetCmd")
    /\ LET j == work[w].job
       IN /\ pins' = [pins EXCEPT ![j.key] = j.value]
          /\ Finish(w, <<Event("Store", j.key, j.value)>>)
    /\ UNCHANGED <<queue, preamps, rates, polled, task, client, switched, commands, lost>>

SignalSetFails(w) ==
    /\ In(w, "taken", "GpioSignalSetCmd")
    /\ Finish(w, <<>>)
    /\ UNCHANGED <<queue, pins, preamps, rates, polled, task, client, switched,
                   commands, lost>>

-----------------------------------------------------------------------------
(* Storing. *)

\* DatastoreStoreEvent<PreampSwitchEvent>: the copy of the stored array, or
\* that there is none.
CopyPreamps(w) ==
    /\ In(w, "taken", "Store") /\ work[w].job.key \in Channels
    /\ work' = [work EXCEPT ![w].pc = "copied", ![w].copy = preamps]
    /\ UNCHANGED <<queue, pins, preamps, rates, polled, task, client, switched,
                   commands, lost>>

\* A default-constructed array says channel 0 in both of its elements.
NoPreamps == [c \in Channels |-> [channel |-> "preamp0", state |-> FALSE]]

ChangedAlone(data, c, s) == [NoPreamps EXCEPT ![c] = [channel |-> c, state |-> s]]
Changed(data, c, s) == [data EXCEPT ![c] = [channel |-> c, state |-> s]]

\* The changed copy is stored; the first one is not announced.
StorePreamps(w) ==
    /\ In(w, "copied", "Store") /\ work[w].job.key \in Channels
    /\ LET j == work[w].job
           known == work[w].copy # None
       IN /\ preamps' = Changed(IF known THEN work[w].copy ELSE NoPreamps, j.key, j.value)
          /\ switched' = switched \cup {j.key}
          /\ Finish(w, IF known THEN <<Request("PreampSwitchRequestCmd")>> ELSE <<>>)
    /\ UNCHANGED <<queue, pins, rates, polled, task, client, commands, lost>>

\* DatastoreStoreEvent<CfgMsg>: the same for the map of rates.
CopyRates(w) ==
    /\ In(w, "taken", "Store") /\ work[w].job.key \in Ids
    /\ work' = [work EXCEPT ![w].pc = "copied", ![w].copy = rates]
    /\ UNCHANGED <<queue, pins, preamps, rates, polled, task, client, switched,
                   commands, lost>>

\* A rate that does not change is not announced.
IsChange(data, i, r) == i \in DOMAIN data /\ data[i] # r
IsNews(data, i, r) == i \notin DOMAIN data \/ data[i] # r
Announced(data, i, r) == IF IsNews(data, i, r) THEN <<Event("CfgMsg", i, r)>> ELSE <<>>

StoreRates(w) ==
    /\ In(w, "copied", "Store") /\ work[w].job.key \in Ids
    /\ LET i == work[w].job.key
           r == work[w].job.value
           data == IF work[w].copy = None THEN <<>> ELSE work[w].copy
       IN /\ rates' = [n \in DOMAIN data \cup {i} |-> IF n = i THEN r ELSE data[n]]
          /\ Finish(w, Announced(data, i, r))
    /\ UNCHANGED <<queue, pins, preamps, polled, task, client, switched, commands, lost>>

-----------------------------------------------------------------------------
(* Telling clients. *)

\* Requests are answered from the store, if it has the data.
AnswerPreamps(w) ==
    /\ In(w, "taken", "PreampSwitchRequestCmd")
    /\ LET Told(c) == Event("PreampSwitchEvent", preamps[c].channel, preamps[c].state)
       IN Finish(w, IF preamps = None THEN <<>> ELSE <<Told("preamp0"), Told("preamp1")>>)
    /\ UNCHANGED <<queue, pins, preamps, rates, polled, task, client, switched,
                   commands, lost>>

\* UbxMsgRateRequestCmd: the whole map, in no particular order.
AnswerRates(w) ==
    /\ In(w, "taken", "UbxMsgRateRequestCmd")
    /\ LET data == IF rates = None THEN <<>> ELSE rates
           all == {Event("CfgMsg", i, data[i]) : i \in DOMAIN data}
       IN \E out \in SetToSeqs(all) : Finish(w, out)
    /\ UNCHANGED <<queue, pins, preamps, rates, polled, task, client, switched,
                   commands, lost>>

\* ServerConnCountEvent of a new connection: pollDatastore().
PollDatastore(w) ==
    /\ In(w, "taken", "ServerConnCountEvent")
    /\ Finish(w, <<Request("PreampSwitchRequestCmd")>>)
    /\ UNCHANGED <<queue, pins, preamps, rates, polled, task, client, switched,
                   commands, lost>>

\* TcpSink::handle(): a connected client is told.
TellClient(w) ==
    /\ \E t \in {"PreampSwitchEvent", "CfgMsg"} : In(w, "taken", t)
    /\ client' = IF client.state = "away" THEN client
                 ELSE [client EXCEPT !.told[work[w].job.key] = work[w].job.value]
    /\ Finish(w, <<>>)
    /\ UNCHANGED <<queue, pins, preamps, rates, polled, task, switched, commands, lost>>

Connect ==
    /\ client.state = "away" /\ Len(queue) < MaxQueue
    /\ client' = [client EXCEPT !.state = "connected"]
    /\ Publish(<<Request("ServerConnCountEvent")>>)
    /\ UNCHANGED <<work, pins, preamps, rates, polled, task, switched, commands, lost>>

\* The GUI asks for the rates.
AskRates ==
    /\ client.state = "connected" /\ Len(queue) < MaxQueue
    /\ client' = [client EXCEPT !.state = "asked"]
    /\ Publish(<<Request("UbxMsgRateRequestCmd")>>)
    /\ UNCHANGED <<work, pins, preamps, rates, polled, task, switched, commands, lost>>

\* A client, or the daemon itself, operates a switch.
Command(c, s) ==
    /\ commands < MaxCommands /\ Len(queue) < MaxQueue
    /\ commands' = commands + 1
    /\ Publish(<<Event("PreampSwitchCmd", c, s)>>)
    /\ UNCHANGED <<work, pins, preamps, rates, polled, task, client, switched, lost>>

-----------------------------------------------------------------------------
(* The maintenance task and the receiver. *)

Known == IF rates = None THEN {} ELSE DOMAIN rates
Missing == Ids \ Known

\* The messages whose rate the task polls, and whether it is the last run.
PolledFirst == IF rates = None THEN Ids ELSE {}
Polled == Missing
AllExist == Missing = {}

\* The task, on the scheduler's thread: it makes sure that there is a map,
\* polls what is missing in it and ends when nothing is.
RatesTask ==
    /\ task = "waiting"
    /\ \A i \in Missing : polled[i] < MaxPolls
    /\ rates' = IF rates = None THEN <<>> ELSE rates
    /\ polled' = [i \in Ids |-> IF i \in Polled THEN polled[i] + 1 ELSE polled[i]]
    /\ task' = IF AllExist THEN "ended" ELSE "waiting"
    /\ UNCHANGED <<queue, work, pins, preamps, client, switched, commands, lost>>

Answer(i, r) ==
    /\ polled[i] > 0 /\ Len(queue) < MaxQueue
    /\ polled' = [polled EXCEPT ![i] = @ - 1]
    /\ Publish(<<Event("Store", i, r)>>)
    /\ UNCHANGED <<work, pins, preamps, rates, task, client, switched, commands, lost>>

LoseAnswer(i) ==
    /\ polled[i] > 0 /\ lost < MaxLost
    /\ polled' = [polled EXCEPT ![i] = @ - 1]
    /\ lost' = lost + 1
    /\ UNCHANGED <<queue, work, pins, preamps, rates, task, client, switched, commands>>

-----------------------------------------------------------------------------
\* SystemBuilder::build() has published the configured state of the switches;
\* the lines were requested with value false.
Init ==
    /\ LET Switch(c) == Event("PreampSwitchCmd", c, c \in Enabled)
       IN queue = <<Switch("preamp0"), Switch("preamp1")>>
    /\ work = [w \in Workers |-> Idle]
    /\ pins = [c \in Channels |-> FALSE]
    /\ preamps = None /\ rates = None
    /\ polled = [i \in Ids |-> 0]
    /\ task = "waiting"
    /\ client = [state |-> "away", told |-> [k \in Channels \cup Ids |-> None]]
    /\ switched = {} /\ commands = 0 /\ lost = 0

Worker(w) ==
    \/ Take(w) \/ PublishNext(w)
    \/ SwitchCommand(w) \/ SignalSet(w) \/ SignalSetFails(w)
    \/ CopyPreamps(w) \/ StorePreamps(w) \/ CopyRates(w) \/ StoreRates(w)
    \/ AnswerPreamps(w) \/ AnswerRates(w) \/ PollDatastore(w) \/ TellClient(w)

Next ==
    \/ \E w \in Workers : Worker(w)
    \/ Connect \/ AskRates
    \/ \E c \in Channels, s \in BOOLEAN : Command(c, s)
    \/ RatesTask
    \/ \E i \in Ids : LoseAnswer(i) \/ \E r \in Rates : Answer(i, r)

Spec == Init /\ [][Next]_vars

\* The pool's threads and the scheduler's thread run, and the receiver
\* answers a poll unless the answer is lost.
Fairness ==
    /\ \A w \in Workers : WF_vars(Worker(w))
    /\ WF_vars(RatesTask)
    /\ \A i \in Ids : WF_vars(LoseAnswer(i) \/ \E r \in Rates : Answer(i, r))

FairSpec == Spec /\ Fairness

-----------------------------------------------------------------------------
\* No event is on its way.
Quiet == queue = <<>> /\ \A w \in Workers : work[w] = Idle

(* "grab Store event and update std::array<PreampSwitchEvent, 2>"           *)
(* (event_bindings.cpp:295): when no event is on its way the stored states  *)
(* of the preamplifiers are those of their lines.                           *)
StoreMatchesPins ==
    Quiet => \A c \in Channels :
        pins[c] = IF preamps = None THEN FALSE ELSE preamps[c].state

(* When no event is on its way a client that connected at any time, before  *)
(* or after the first states were stored, knows what the store knows: both  *)
(* preamplifiers once both have been stored, and every rate once it has     *)
(* asked for them.                                                          *)
ClientIsUpToDate ==
    Quiet /\ client.state # "away" =>
        /\ switched = Channels => \A c \in Channels : client.told[c] = preamps[c].state
        /\ client.state = "asked" => \A i \in Known : client.told[i] = rates[i]

(* "if not all rates exist in config: continue scheduling"                  *)
(* (maintenance.cpp:92): the task ends, although answers get lost, and then *)
(* no rate is missing, at that time or later.                               *)
RatesTaskEnds == <>[](task = "ended" /\ Missing = {})

=============================================================================
