-------------------------- MODULE NetworkDiscovery --------------------------
(***************************************************************************)
(* How clients find daemons: NetworkDiscovery                              *)
(* (library/src/network/networkdiscovery.cpp) at both ends and the list of *)
(* addresses of the client's window (gui/src/mainwindow.cpp).  A client    *)
(* broadcasts a request; each daemon that hears it answers its sender.     *)
(*                                                                         *)
(* Packets are UDP: they get lost, overtake one another and may come twice.*)
(* Every host has a receiver thread, which stop() ends from another one.   *)
(***************************************************************************)
EXTENDS Integers, Sequences, SequencesExt

CONSTANTS
    Guis, Daemons,
    MaxSearches,    \* bound: clicks on the search button
    MaxHeard        \* bound: packets received

ASSUME DiscoveryAssumption == Guis \cap Daemons = {} /\ {MaxSearches, MaxHeard} \subseteq Nat

Hosts == Guis \cup Daemons

VARIABLES
    ndSock,         \* sock: "none", "bound", "unbound" if bind() failed, "closed"
    ndRunning,      \* running
    ndStop,         \* how far stop() is
    ndPc,           \* the receiver thread
    ndHeld,         \* the packet it handles
    ndNet,          \* the packets on their way: [to, from, type]
    addresses, device_counter,
    ndQueued,       \* the signals deviceDiscovered that wait for the window's thread
    ndFound,        \* history: whose answers the callback got
    ndSearches, ndHeard

ndWindow == <<addresses, device_counter, ndQueued, ndFound>>
ndVars == <<ndSock, ndRunning, ndStop, ndPc, ndHeld, ndNet, ndWindow, ndSearches, ndHeard>>

NoPacket == [to |-> "nobody", from |-> "nobody", type |-> "none"]

DiscoveryInit ==
    /\ ndSock = [h \in Hosts |-> "none"] /\ ndRunning = [h \in Hosts |-> FALSE]
    /\ ndStop = [h \in Hosts |-> "no"] /\ ndPc = [h \in Hosts |-> "none"] /\ ndHeld = [h \in Hosts |-> NoPacket]
    /\ ndNet = {} /\ addresses = [g \in Guis |-> <<>>] /\ device_counter = [g \in Guis |-> 0]
    /\ ndQueued = [g \in Guis |-> <<>>] /\ ndFound = [g \in Guis |-> {}] /\ ndSearches = 0 /\ ndHeard = 0

\* The constructor does not look at what bind() returns; start() follows it.
NdStart(h) ==
    /\ ndSock[h] = "none"
    /\ \E s \in {"bound", "unbound"} : ndSock' = [ndSock EXCEPT ![h] = s]
    /\ ndRunning' = [ndRunning EXCEPT ![h] = TRUE] /\ ndPc' = [ndPc EXCEPT ![h] = "loop"]
    /\ UNCHANGED <<ndStop, ndHeld, ndNet, ndWindow, ndSearches, ndHeard>>

\* A click: the broadcast reaches every bound socket, the client's own among them.
discover(g) ==
    /\ ndSock[g] \in {"bound", "unbound"} /\ ndSearches < MaxSearches /\ ndSearches' = ndSearches + 1
    /\ device_counter' = [device_counter EXCEPT ![g] = 0]
    /\ ndNet' = ndNet \cup {[to |-> h, from |-> g, type |-> "GUI"] : h \in {k \in Hosts : ndSock[k] = "bound"}}
    /\ UNCHANGED <<ndSock, ndRunning, ndStop, ndPc, ndHeld, addresses, ndQueued, ndFound, ndHeard>>

NdLose ==
    /\ \E p \in ndNet : ndNet' = ndNet \ {p}
    /\ UNCHANGED <<ndSock, ndRunning, ndStop, ndPc, ndHeld, ndWindow, ndSearches, ndHeard>>

-----------------------------------------------------------------------------
(* receiverLoop().                                                          *)

Moves(h, from, to) == ndPc[h] = from /\ ndPc' = [ndPc EXCEPT ![h] = to]

\* while (running).
LoopTest(h) ==
    /\ Moves(h, "loop", IF ndRunning[h] THEN "prepare" ELSE "done")
    /\ UNCHANGED <<ndSock, ndRunning, ndStop, ndHeld, ndNet, ndWindow, ndSearches, ndHeard>>

\* FD_SET on a socket that stop() has set to -1 writes outside the set: the program goes on or ends.
Prepare(h) ==
    /\ \/ Moves(h, "prepare", "select")
       \/ ndSock[h] = "closed" /\ Moves(h, "prepare", "crashed")
    /\ UNCHANGED <<ndSock, ndRunning, ndStop, ndHeld, ndNet, ndWindow, ndSearches, ndHeard>>

\* select() returns: after a second, woken by stop(), or with a packet.  As stop() clears running
\* first, the loop leaves before it looks at the control descriptor.
Select(h) ==
    /\ \/ ~ndRunning[h] /\ Moves(h, "select", "done")
       \/ ndRunning[h] /\ Moves(h, "select", "loop")
       \/ ndRunning[h] /\ (\E p \in ndNet : p.to = h) /\ Moves(h, "select", "receive")
    /\ UNCHANGED <<ndSock, ndRunning, ndStop, ndHeld, ndNet, ndWindow, ndSearches, ndHeard>>

\* recvfrom(): nothing from a closed socket or when the packet was spoilt or of another program;
\* the network may deliver a packet again.
Receive(h) ==
    /\ \/ Moves(h, "receive", "loop") /\ UNCHANGED <<ndHeld, ndNet, ndHeard>>
       \/ /\ ndSock[h] # "closed" /\ ndHeard < MaxHeard /\ ndHeard' = ndHeard + 1
          /\ Moves(h, "receive", "handle")
          /\ \E p \in {q \in ndNet : q.to = h} :
                ndHeld' = [ndHeld EXCEPT ![h] = p] /\ ndNet' \in {ndNet, ndNet \ {p}}
    /\ UNCHANGED <<ndSock, ndRunning, ndStop, ndWindow, ndSearches>>

\* A mutant: the own type is not looked at.
AnswersAll(h, p) == p.type = "GUI"

\* Who answers and who listens to answers.
Answers(h, p) == h \in Daemons /\ p.type = "GUI"
Listens(h, p) == h \in Guis /\ p.type = "DAEMON"

\* The answer, if the socket is still there, or the callback, which emits deviceDiscovered.
HandlePacket(h) ==
    LET p == ndHeld[h]
    IN /\ Moves(h, "handle", "loop") /\ ndHeld' = [ndHeld EXCEPT ![h] = NoPacket]
       /\ ndNet' = IF Answers(h, p) /\ ndSock[h] # "closed"
                   THEN ndNet \cup {[to |-> p.from, from |-> h, type |-> "DAEMON"]} ELSE ndNet
       /\ IF Listens(h, p)
          THEN /\ ndQueued' = [ndQueued EXCEPT ![h] = Append(@, p.from)]
               /\ ndFound' = [ndFound EXCEPT ![h] = @ \cup {p.from}]
          ELSE UNCHANGED <<ndQueued, ndFound>>
       /\ UNCHANGED <<ndSock, ndRunning, ndStop, addresses, device_counter, ndSearches, ndHeard>>

\* The window's thread: every answer counts as a device, an address is added once.
deviceDiscovered(g) ==
    /\ ndQueued[g] # <<>> /\ ndQueued' = [ndQueued EXCEPT ![g] = Tail(@)]
    /\ device_counter' = [device_counter EXCEPT ![g] = @ + 1]
    /\ addresses' = [addresses EXCEPT ![g] = IF Head(ndQueued[g]) \in ToSet(@) THEN @ ELSE Append(@, Head(ndQueued[g]))]
    /\ UNCHANGED <<ndSock, ndRunning, ndStop, ndPc, ndHeld, ndNet, ndFound, ndSearches, ndHeard>>

-----------------------------------------------------------------------------
(* stop(): the flag, the wake-up and the socket, the join.                  *)

StopRunning(h) ==
    /\ ndStop[h] = "no" /\ ndRunning[h] /\ ndStop' = [ndStop EXCEPT ![h] = "flagged"]
    /\ ndRunning' = [ndRunning EXCEPT ![h] = FALSE]
    /\ UNCHANGED <<ndSock, ndPc, ndHeld, ndNet, ndWindow, ndSearches, ndHeard>>

StopSocket(h) ==
    /\ ndStop[h] = "flagged" /\ ndStop' = [ndStop EXCEPT ![h] = "joining"]
    /\ ndSock' = [ndSock EXCEPT ![h] = "closed"]
    /\ UNCHANGED <<ndRunning, ndPc, ndHeld, ndNet, ndWindow, ndSearches, ndHeard>>

StopThread(h) ==
    /\ ndStop[h] = "joining" /\ ndPc[h] = "done" /\ ndStop' = [ndStop EXCEPT ![h] = "stopped"]
    /\ UNCHANGED <<ndSock, ndRunning, ndPc, ndHeld, ndNet, ndWindow, ndSearches, ndHeard>>

DiscoveryNext ==
    \/ NdLose
    \/ \E g \in Guis : discover(g) \/ deviceDiscovered(g)
    \/ \E h \in Hosts :
          \/ NdStart(h) \/ LoopTest(h) \/ Prepare(h) \/ Select(h) \/ Receive(h) \/ HandlePacket(h)
          \/ StopRunning(h) \/ StopSocket(h) \/ StopThread(h)

DiscoverySpec == DiscoveryInit /\ [][DiscoveryNext]_ndVars

-----------------------------------------------------------------------------
(* The property.                                                            *)

\* Requests and answers end there: only daemons answer, only to clients, and no packet answers an
\* answer, with every client on the port hearing every broadcast.  The list of a client has each
\* daemon whose answer it got once, however often the answers come and in whatever order, and no
\* client; a receiver that ended cleanly left no packet half handled.
DiscoveryIsSound ==
    /\ \A p \in ndNet : p.from \in (IF p.type = "DAEMON" THEN Daemons ELSE Guis) /\ (p.type = "DAEMON" => p.to \in Guis)
    /\ \A g \in Guis :
          /\ \A i, j \in 1..Len(addresses[g]) : addresses[g][i] = addresses[g][j] => i = j
          /\ ToSet(addresses[g]) \cup ToSet(ndQueued[g]) = ndFound[g] /\ ndFound[g] \subseteq Daemons
    /\ \A h \in Hosts : ndStop[h] = "stopped" => ndHeld[h] = NoPacket /\ ndSock[h] = "closed"
=============================================================================
